-------------------------- MODULE FrameBytes_proof --------------------------
(***************************************************************************)
(* For every width of bytes, half words and register, every polynomial     *)
(* with a constant term, every value and every length: the bit writer      *)
(* holds what was put into it, the CRC by tables is the serial one, every  *)
(* burst is noticed, and an accepted frame reads back call by call.        *)
(***************************************************************************)
(* Induction over the numbers is by a set that holds 0 and with n its      *)
(* successor (SetInduction), so that no operator is passed to a theorem.   *)
(***************************************************************************)
EXTENDS FrameBytes, WellFoundedInduction, TLAPS

-----------------------------------------------------------------------------
\* Sets of bits that move.

LEMMA ShiftUnion ==
  ASSUME NEW S, NEW T, NEW n
  PROVE  ShiftLeft(S \cup T, n) = ShiftLeft(S, n) \cup ShiftLeft(T, n)
  BY DEF ShiftLeft

LEMMA ShiftTwice ==
  ASSUME NEW S \in SUBSET Int, NEW m \in Int, NEW n \in Int
  PROVE  ShiftLeft(ShiftLeft(S, m), n) = ShiftLeft(S, n + m)
<1>1. \A i \in S : (i + m) + n = i + (n + m) OBVIOUS
<1>2. ASSUME NEW x \in ShiftLeft(ShiftLeft(S, m), n) PROVE x \in ShiftLeft(S, n + m)
  <2>1. PICK i \in S : x = (i + m) + n BY DEF ShiftLeft
  <2>2. x = i + (n + m) BY <1>1, <2>1
  <2>3. QED BY <2>2 DEF ShiftLeft
<1>3. ASSUME NEW x \in ShiftLeft(S, n + m) PROVE x \in ShiftLeft(ShiftLeft(S, m), n)
  <2>1. PICK i \in S : x = i + (n + m) BY DEF ShiftLeft
  <2>2. x = (i + m) + n BY <1>1, <2>1
  <2>3. QED BY <2>2 DEF ShiftLeft
<1>4. QED BY <1>2, <1>3

\* The low bits and the bits above them, each at its place.
LEMMA ShiftSplit ==
  ASSUME NEW c \in SUBSET Nat, NEW h \in Nat, NEW b \in Nat
  PROVE  ShiftLeft(LowBits(c, h), b) \cup ShiftLeft(ShiftRight(c, h), b + h) = ShiftLeft(c, b)
<1>1. ASSUME NEW x \in ShiftLeft(LowBits(c, h), b) PROVE x \in ShiftLeft(c, b)
  BY DEF ShiftLeft, LowBits
<1>2. ASSUME NEW x \in ShiftLeft(ShiftRight(c, h), b + h) PROVE x \in ShiftLeft(c, b)
  <2>1. PICK i \in c : i >= h /\ x = (i - h) + (b + h) BY DEF ShiftLeft, ShiftRight
  <2>2. x = i + b BY <2>1
  <2>3. QED BY <2>2 DEF ShiftLeft
<1>3. ASSUME NEW x \in ShiftLeft(c, b)
      PROVE  x \in ShiftLeft(LowBits(c, h), b) \cup ShiftLeft(ShiftRight(c, h), b + h)
  <2>1. PICK i \in c : x = i + b BY DEF ShiftLeft
  <2>2. CASE i >= h
    <3>1. i - h \in ShiftRight(c, h) BY <2>2 DEF ShiftRight
    <3>2. x = (i - h) + (b + h) BY <2>1
    <3>3. QED BY <3>1, <3>2 DEF ShiftLeft
  <2>3. CASE i < h
    <3>1. i \in LowBits(c, h) BY <2>3 DEF LowBits
    <3>2. QED BY <2>1, <3>1 DEF ShiftLeft
  <2>4. QED BY <2>2, <2>3
<1>4. QED BY <1>1, <1>2, <1>3

LEMMA ShiftBounds ==
  ASSUME NEW S, NEW n \in Nat, NEW b \in Nat, S \subseteq 0 .. n - 1
  PROVE  ShiftLeft(S, b) \subseteq b .. b + n - 1
  BY DEF ShiftLeft

LEMMA ShiftRightBounds ==
  ASSUME NEW S, NEW n \in Nat, NEW h \in Nat, S \subseteq 0 .. n - 1
  PROVE  ShiftRight(S, h) \subseteq 0 .. n - h - 1
  BY DEF ShiftRight

LEMMA SetBits ==
  ASSUME NEW s, NEW n, NEW o, NEW m, s = [bits |-> n, ones |-> o]
  PROVE  [s EXCEPT !.bits = m] = [bits |-> m, ones |-> s.ones]
  OBVIOUS

\* Extend as the promise has it.
LEMMA SinkExtends ==
  ASSUME NEW s, NEW w, NEW n
  PROVE  Sink!Extend(s, w, n) = Extend(s, w, n)
  BY DEF Sink!Extend, Sink!ShiftLeft, Sink!LowBits, Extend, ShiftLeft, LowBits

-----------------------------------------------------------------------------
LEMMA NatWellFounded ==
  \E R : /\ IsWellFoundedOn(R, Nat)
         /\ \A x, y \in Nat : <<x, y>> \in R <=> x < y
<1> DEFINE R == OpToRel(<,Nat)
<1>1. IsWellFoundedOn(R, Nat) BY NatLessThanWellFounded
<1>2. R = {p \in Nat \X Nat : p[1] < p[2]} BY DEF OpToRel
<1>3. \A x, y \in Nat : <<x, y>> \in R <=> x < y
  <2> HIDE DEF R
  <2> QED BY <1>2
<1> HIDE DEF R
<1>4. QED BY <1>1, <1>3

LEMMA SetInduction ==
  ASSUME NEW S, 0 \in S, \A n \in Nat : n \in S => n + 1 \in S
  PROVE  \A n \in Nat : n \in S
<1> SUFFICES ASSUME ~(\A n \in Nat : n \in S) PROVE FALSE OBVIOUS
<1> DEFINE B == {n \in Nat : n \notin S}
<1>1. B \subseteq Nat /\ B # {} OBVIOUS
<1>2. PICK R : IsWellFoundedOn(R, Nat) /\ \A x, y \in Nat : <<x, y>> \in R <=> x < y
  BY NatWellFounded
<1> HIDE DEF B
<1>3. PICK m \in B : \A y \in B : ~(<<y, m>> \in R) BY <1>1, <1>2, WFMin
<1> USE DEF B
<1>4. m \in Nat /\ m \notin S /\ m # 0 BY <1>3
<1>5. m - 1 \in Nat /\ m - 1 < m /\ (m - 1) + 1 = m BY <1>4
<1>6. m - 1 \in S BY <1>2, <1>3, <1>4, <1>5
<1>7. QED BY <1>4, <1>5, <1>6

\* g computes h from a on, up to n.
Computes(g, a, h, n) == \A i \in 0 .. n : g[i] = IF i = 0 THEN a ELSE h[i][g[i - 1]]

\* g is what h makes of a over D, one step after the other.
Recursive(g, D, a, h) == \A i \in D : g[i] = IF i = 0 THEN a ELSE h[i][g[i - 1]]

LEMMA Recursion ==
  ASSUME NEW S, NEW a \in S, NEW h \in [Nat -> [S -> S]]
  PROVE  \E g \in [Nat -> S] : Recursive(g, Nat, a, h)
<1> DEFINE Has == {n \in Nat : \E g \in [Nat -> S] : Computes(g, a, h, n)}
           Same == {n \in Nat : \A f, g \in [Nat -> S] :
                      Computes(f, a, h, n) /\ Computes(g, a, h, n) => f[n] = g[n]}
<1>1. \A n \in Nat : n \in Has
  <2>1. 0 \in Has
    <3>1. [i \in Nat |-> a] \in [Nat -> S] /\ Computes([i \in Nat |-> a], a, h, 0)
      BY DEF Computes
    <3>2. QED BY <3>1
  <2>2. ASSUME NEW n \in Nat, n \in Has PROVE n + 1 \in Has
    <3>1. PICK g \in [Nat -> S] : Computes(g, a, h, n) BY <2>2
    <3> DEFINE k == [g EXCEPT ![n + 1] = h[n + 1][g[n]]]
    <3>2. h[n + 1][g[n]] \in S OBVIOUS
    <3>3. k \in [Nat -> S] BY <3>2
    <3>4. k[n + 1] = h[n + 1][k[n]] OBVIOUS
    <3>5. \A i \in 0 .. n : k[i] = g[i] OBVIOUS
    <3> HIDE DEF k
    <3>6. Computes(k, a, h, n + 1)
      <4> SUFFICES ASSUME NEW i \in 0 .. n + 1
                   PROVE  k[i] = IF i = 0 THEN a ELSE h[i][k[i - 1]]
        BY DEF Computes
      <4>1. CASE i = n + 1 BY <3>4, <4>1
      <4>2. CASE i \in 0 .. n
        <5>1. g[i] = IF i = 0 THEN a ELSE h[i][g[i - 1]] BY <3>1, <4>2 DEF Computes
        <5>2. i # 0 => i - 1 \in 0 .. n BY <4>2
        <5>3. QED BY <3>5, <4>2, <5>1, <5>2
      <4>3. QED BY <4>1, <4>2
    <3>7. QED BY <3>3, <3>6
  <2> HIDE DEF Has
  <2>3. QED BY <2>1, <2>2, SetInduction
<1>2. \A n \in Nat : n \in Same
  <2>1. 0 \in Same BY DEF Computes
  <2>2. ASSUME NEW n \in Nat, n \in Same PROVE n + 1 \in Same
    <3> SUFFICES ASSUME NEW f \in [Nat -> S], NEW g \in [Nat -> S],
                        Computes(f, a, h, n + 1), Computes(g, a, h, n + 1)
                 PROVE  f[n + 1] = g[n + 1]
      OBVIOUS
    <3>1. Computes(f, a, h, n) /\ Computes(g, a, h, n) BY DEF Computes
    <3>2. f[n] = g[n] BY <2>2, <3>1
    <3>3. n + 1 \in 0 .. n + 1 /\ n + 1 # 0 /\ (n + 1) - 1 = n OBVIOUS
    <3>4. f[n + 1] = h[n + 1][f[n]] /\ g[n + 1] = h[n + 1][g[n]] BY <3>3 DEF Computes
    <3>5. QED BY <3>2, <3>4
  <2> HIDE DEF Same
  <2>3. QED BY <2>1, <2>2, SetInduction
<1> DEFINE c(n) == CHOOSE g \in [Nat -> S] : Computes(g, a, h, n)
           G == [n \in Nat |-> c(n)[n]]
<1>3. \A n \in Nat : c(n) \in [Nat -> S] /\ Computes(c(n), a, h, n) BY <1>1
<1> HIDE DEF c
<1>4. G \in [Nat -> S] BY <1>3
<1>5. ASSUME NEW i \in Nat PROVE G[i] = IF i = 0 THEN a ELSE h[i][G[i - 1]]
  <2>1. c(i)[i] = IF i = 0 THEN a ELSE h[i][c(i)[i - 1]] BY <1>3 DEF Computes
  <2>2. CASE i = 0 BY <2>1, <2>2
  <2>3. CASE i # 0
    <3>1. i - 1 \in Nat /\ \A j \in 0 .. i - 1 : j \in 0 .. i BY <2>3
    <3>2. Computes(c(i), a, h, i - 1)  BY <1>3, <3>1 DEF Computes
    <3>3. c(i)[i - 1] = c(i - 1)[i - 1] BY <1>2, <1>3, <3>1, <3>2
    <3>4. QED BY <2>1, <2>3, <3>1, <3>3
  <2>4. QED BY <2>2, <2>3
<1> HIDE DEF G
<1>6. QED BY <1>4, <1>5 DEF Recursive

\* The same over a part of the numbers.
LEMMA BoundedRecursion ==
  ASSUME NEW N \in Nat, NEW S, NEW a \in S, NEW h \in [1 .. N -> [S -> S]]
  PROVE  \E g \in [0 .. N -> S] : Recursive(g, 0 .. N, a, h)
<1>1. PICK k : k = [i \in Nat |-> IF i \in 1 .. N THEN h[i] ELSE [x \in S |-> a]] OBVIOUS
<1>2. k \in [Nat -> [S -> S]] BY <1>1
<1>3. \A i \in 1 .. N : k[i] = h[i] BY <1>1
<1>4. PICK g \in [Nat -> S] : Recursive(g, Nat, a, k) BY <1>2, Recursion
<1>5. PICK f : f = [i \in 0 .. N |-> g[i]] OBVIOUS
<1>6. f \in [0 .. N -> S] BY <1>5
<1>7. ASSUME NEW i \in 0 .. N PROVE f[i] = IF i = 0 THEN a ELSE h[i][f[i - 1]]
  <2>1. i \in Nat /\ g[i] = IF i = 0 THEN a ELSE k[i][g[i - 1]] BY <1>4 DEF Recursive
  <2>2. i # 0 => i \in 1 .. N /\ i - 1 \in 0 .. N OBVIOUS
  <2>3. i # 0 => k[i] = h[i] /\ f[i - 1] = g[i - 1] BY <1>3, <1>5, <2>2
  <2>4. QED BY <1>5, <2>1, <2>3
<1>8. QED BY <1>6, <1>7 DEF Recursive

\* n bits through the register.
Steps[n \in Nat] ==
  IF n = 0 THEN [c \in SUBSET Nat |-> c] ELSE [c \in SUBSET Nat |-> BitStep(Steps[n - 1][c])]

LEMMA BitStepType == ASSUME NEW c \in SUBSET Nat, Poly \subseteq Nat PROVE BitStep(c) \in SUBSET Nat
<1>1. ShiftRight(c, 1) \subseteq Nat BY DEF ShiftRight
<1>2. QED BY <1>1 DEF BitStep, Xor

LEMMA StepsDef ==
  ASSUME Poly \subseteq Nat
  PROVE  /\ Steps \in [Nat -> [SUBSET Nat -> SUBSET Nat]]
         /\ \A c \in SUBSET Nat : Steps[0][c] = c
         /\ \A n \in Nat, c \in SUBSET Nat : Steps[n + 1][c] = BitStep(Steps[n][c])
<1> DEFINE Sets == SUBSET Nat
           S == [Sets -> Sets]
           id == [c \in Sets |-> c]
           h == [i \in Nat |-> [x \in S |-> [c \in Sets |-> BitStep(x[c])]]]
<1>1. id \in S OBVIOUS
<1>2. h \in [Nat -> [S -> S]]
  <2>1. ASSUME NEW x \in S PROVE [c \in Sets |-> BitStep(x[c])] \in S
    BY BitStepType
  <2>2. QED BY <2>1
<1>3. PICK g \in [Nat -> S] : Recursive(g, Nat, id, h)
  <2> HIDE DEF S, id, h
  <2>1. QED BY <1>1, <1>2, Recursion
<1>4. \A n \in Nat : g[n] = IF n = 0 THEN id ELSE [c \in Sets |-> BitStep(g[n - 1][c])]
  <2>1. ASSUME NEW n \in Nat, n # 0 PROVE h[n][g[n - 1]] = [c \in Sets |-> BitStep(g[n - 1][c])]
    <3>1. g[n - 1] \in S BY <2>1
    <3>2. QED BY <3>1
  <2>2. QED BY <1>3, <2>1 DEF Recursive
<1>5. g = [n \in Nat |-> IF n = 0 THEN id ELSE [c \in Sets |-> BitStep(g[n - 1][c])]]
  BY <1>4
<1>6. Steps = [n \in Nat |-> IF n = 0 THEN id ELSE [c \in Sets |-> BitStep(Steps[n - 1][c])]]
  BY <1>5, Zenon DEF Steps
<1>7. \A n \in Nat : Steps[n] = IF n = 0 THEN id ELSE [c \in Sets |-> BitStep(Steps[n - 1][c])]
  BY <1>6, Zenon
<1>10. ASSUME NEW n \in Nat PROVE Steps[n + 1] = [c \in Sets |-> BitStep(Steps[n][c])]
  <2>1. n + 1 \in Nat /\ n + 1 # 0 /\ (n + 1) - 1 = n OBVIOUS
  <2>2. Steps[n + 1] = [c \in Sets |-> BitStep(Steps[(n + 1) - 1][c])] BY <1>7, <2>1, Zenon
  <2>3. QED BY <2>1, <2>2, Zenon
<1>11. Steps[0] = id BY <1>7
<1>8. \A n \in Nat : Steps[n] \in S
  <2> DEFINE T == {n \in Nat : Steps[n] \in S}
  <2>1. 0 \in T BY <1>1, <1>11
  <2>2. ASSUME NEW n \in Nat, n \in T PROVE n + 1 \in T
    <3>1. \A c \in Sets : BitStep(Steps[n][c]) \in Sets BY <2>2, BitStepType
    <3>2. [c \in Sets |-> BitStep(Steps[n][c])] \in S BY <3>1
    <3>3. Steps[n + 1] \in S BY <1>10, <3>2, Zenon
    <3> HIDE DEF S
    <3>4. QED BY <3>3
  <2>3. \A n \in Nat : n \in T
    <3> HIDE DEF T
    <3>1. QED BY <2>1, <2>2, SetInduction
  <2>4. QED BY <2>3
<1>9. Steps \in [Nat -> S]
  <2>1. Steps = [n \in Nat |-> Steps[n]] BY <1>6, Zenon
  <2>2. QED BY <1>8, <2>1
<1>12. \A c \in Sets : Steps[0][c] = c BY <1>11
<1>13. ASSUME NEW n \in Nat, NEW c \in Sets PROVE Steps[n + 1][c] = BitStep(Steps[n][c])
  BY <1>10
<1>14. QED BY <1>9, <1>12, <1>13, Zenon

-----------------------------------------------------------------------------
\* Exclusive or is addition without carry.
LEMMA XorLaws ==
  ASSUME NEW a, NEW b, NEW c
  PROVE  /\ Xor(a, b) = Xor(b, a)
         /\ Xor(Xor(a, b), c) = Xor(a, Xor(b, c))
         /\ Xor(a, a) = {} /\ Xor(a, {}) = a /\ Xor({}, a) = a
  BY DEF Xor

LEMMA XorType ==
  ASSUME NEW S, NEW a \in SUBSET S, NEW b \in SUBSET S
  PROVE  Xor(a, b) \in SUBSET S
  BY DEF Xor

\* Bit by bit, what the operators give.
LEMMA ShiftRightBits ==
  ASSUME NEW w \in SUBSET Nat, NEW n \in Nat
  PROVE  \A x : x \in ShiftRight(w, n) <=> x \in Nat /\ x + n \in w
<1>1. ASSUME NEW x \in ShiftRight(w, n) PROVE x \in Nat /\ x + n \in w
  <2>1. PICK i \in w : i >= n /\ x = i - n BY DEF ShiftRight
  <2>2. i \in Nat /\ x + n = i BY <2>1
  <2>3. QED BY <2>1, <2>2
<1>2. ASSUME NEW x, x \in Nat, x + n \in w PROVE x \in ShiftRight(w, n)
  <2>1. x + n >= n /\ x = (x + n) - n BY <1>2
  <2>2. QED BY <1>2, <2>1 DEF ShiftRight
<1>3. QED BY <1>1, <1>2

LEMMA ShiftLeftBits ==
  ASSUME NEW w \in SUBSET Nat, NEW n \in Nat
  PROVE  \A x : x \in ShiftLeft(w, n) <=> x \in Nat /\ x - n \in w
<1>1. ASSUME NEW x \in ShiftLeft(w, n) PROVE x \in Nat /\ x - n \in w
  <2>1. PICK i \in w : x = i + n BY DEF ShiftLeft
  <2>2. i \in Nat /\ x - n = i BY <2>1
  <2>3. QED BY <2>1, <2>2
<1>2. ASSUME NEW x, x \in Nat, x - n \in w PROVE x \in ShiftLeft(w, n)
  <2>1. x = (x - n) + n BY <1>2
  <2>2. QED BY <1>2, <2>1 DEF ShiftLeft
<1>3. QED BY <1>1, <1>2

LEMMA LowBitsBits ==
  ASSUME NEW w \in SUBSET Nat, NEW n \in Nat
  PROVE  \A x : x \in LowBits(w, n) <=> x \in w /\ x < n
<1>1. \A x \in w : x \in 0 .. n - 1 <=> x < n OBVIOUS
<1>2. QED BY <1>1 DEF LowBits

LEMMA XorBits == ASSUME NEW a, NEW b PROVE \A x : x \in Xor(a, b) <=> (x \in a) # (x \in b)
  BY DEF Xor

LEMMA MovedType ==
  ASSUME NEW w \in SUBSET Nat, NEW n \in Nat
  PROVE  /\ ShiftRight(w, n) \in SUBSET Nat /\ ShiftLeft(w, n) \in SUBSET Nat
         /\ LowBits(w, n) \in SUBSET Nat
<1>1. ShiftRight(w, n) \subseteq Nat BY ShiftRightBits
<1>2. ShiftLeft(w, n) \subseteq Nat BY ShiftLeftBits
<1>3. LowBits(w, n) \subseteq Nat BY LowBitsBits
<1>4. QED BY <1>1, <1>2, <1>3

LEMMA ShiftRightXor ==
  ASSUME NEW a \in SUBSET Nat, NEW b \in SUBSET Nat, NEW n \in Nat
  PROVE  ShiftRight(Xor(a, b), n) = Xor(ShiftRight(a, n), ShiftRight(b, n))
<1>1. Xor(a, b) \in SUBSET Nat BY XorType
<1>2. ASSUME NEW x
      PROVE  x \in ShiftRight(Xor(a, b), n) <=> x \in Xor(ShiftRight(a, n), ShiftRight(b, n))
  <2>1. x \in ShiftRight(Xor(a, b), n) <=> x \in Nat /\ x + n \in Xor(a, b)
    BY <1>1, ShiftRightBits
  <2>2. x \in ShiftRight(a, n) <=> x \in Nat /\ x + n \in a BY ShiftRightBits
  <2>3. x \in ShiftRight(b, n) <=> x \in Nat /\ x + n \in b BY ShiftRightBits
  <2>4. QED BY <2>1, <2>2, <2>3, Zenon DEF Xor
<1>3. QED BY <1>2

LEMMA LowBitsXor ==
  ASSUME NEW a, NEW b, NEW n
  PROVE  LowBits(Xor(a, b), n) = Xor(LowBits(a, n), LowBits(b, n))
  BY DEF LowBits, Xor

LEMMA ShiftRightTwice ==
  ASSUME NEW w \in SUBSET Nat, NEW m \in Nat, NEW n \in Nat
  PROVE  ShiftRight(ShiftRight(w, m), n) = ShiftRight(w, m + n)
<1>1. ShiftRight(w, m) \in SUBSET Nat BY MovedType
<1>2. ASSUME NEW x PROVE x \in ShiftRight(ShiftRight(w, m), n) <=> x \in ShiftRight(w, m + n)
  <2>1. x \in ShiftRight(ShiftRight(w, m), n) <=> x \in Nat /\ x + n \in ShiftRight(w, m)
    BY <1>1, ShiftRightBits
  <2>2. x \in Nat => (x + n \in ShiftRight(w, m) <=> (x + n) + m \in w)
    BY ShiftRightBits
  <2>3. x \in ShiftRight(w, m + n) <=> x \in Nat /\ x + (m + n) \in w BY ShiftRightBits
  <2>4. x \in Nat => (x + n) + m = x + (m + n) OBVIOUS
  <2>5. QED BY <2>1, <2>2, <2>3, <2>4
<1>3. QED BY <1>2

\* A string is its low bits and those above them.
LEMMA Halves ==
  ASSUME NEW w \in SUBSET Nat, NEW n \in Nat
  PROVE  w = Xor(LowBits(w, n), w \ LowBits(w, n))
         /\ \A x \in w \ LowBits(w, n) : x >= n
<1>1. \A x \in w \ LowBits(w, n) : x >= n BY LowBitsBits
<1>2. LowBits(w, n) \subseteq w BY LowBitsBits
<1>3. QED BY <1>1, <1>2 DEF Xor

LEMMA ShiftRightHigh ==
  ASSUME NEW w \in SUBSET Nat, NEW n \in Nat
  PROVE  ShiftRight(w \ LowBits(w, n), n) = ShiftRight(w, n)
<1>1. \A x : x \in ShiftRight(w, n) <=> x \in Nat /\ x + n \in w BY ShiftRightBits
<1>2. \A x : x \in ShiftRight(w \ LowBits(w, n), n) <=> x \in Nat /\ x + n \in w \ LowBits(w, n)
  BY ShiftRightBits
<1>3. \A x \in Nat : x + n \in w => x + n \in w \ LowBits(w, n) BY LowBitsBits
<1>4. QED BY <1>1, <1>2, <1>3

-----------------------------------------------------------------------------
\* The register is linear, and a bit that has not reached its end only moves.

LEMMA PolyType ==
  /\ CrcByte \in Nat /\ CrcByte > 0 /\ RegBytes \in Nat /\ RegBytes > 0
  /\ CrcBits \in Nat /\ CrcBits > 0 /\ CrcBits - 1 \in Poly
  /\ Poly \subseteq Nat /\ Poly \subseteq Ones /\ Ones \subseteq Nat /\ 0 \in Ones
<1>1. CrcByte \in Nat /\ CrcByte > 0 /\ RegBytes \in Nat /\ RegBytes > 0 BY CrcAssumption
<1>2. CrcByte * RegBytes \in Nat /\ CrcByte * RegBytes > 0 BY <1>1, SMT
<1>3. CrcBits \in Nat /\ CrcBits > 0 BY <1>2 DEF CrcBits
<1>4. Ones \subseteq Nat /\ 0 \in Ones BY <1>3 DEF Ones
<1>5. QED BY <1>1, <1>3, <1>4, PolyAssumption

LEMMA BitStepLinear ==
  ASSUME NEW c \in SUBSET Nat, NEW d \in SUBSET Nat
  PROVE  BitStep(Xor(c, d)) = Xor(BitStep(c), BitStep(d))
<1>1. ShiftRight(Xor(c, d), 1) = Xor(ShiftRight(c, 1), ShiftRight(d, 1)) BY ShiftRightXor
<1>2. 0 \in Xor(c, d) <=> (0 \in c) # (0 \in d) BY DEF Xor
<1> DEFINE v == ShiftRight(c, 1)
           w == ShiftRight(d, 1)
<1>3. /\ Xor(Xor(v, w), Poly) = Xor(Xor(v, Poly), w)
      /\ Xor(Xor(v, w), Poly) = Xor(v, Xor(w, Poly))
      /\ Xor(v, w) = Xor(Xor(v, Poly), Xor(w, Poly))
  BY DEF Xor
<1> HIDE DEF v, w
<1>4. BitStep(Xor(c, d)) = IF 0 \in Xor(c, d) THEN Xor(Xor(v, w), Poly) ELSE Xor(v, w)
  BY <1>1 DEF BitStep, v, w
<1>5. /\ BitStep(c) = IF 0 \in c THEN Xor(v, Poly) ELSE v
      /\ BitStep(d) = IF 0 \in d THEN Xor(w, Poly) ELSE w
  BY DEF BitStep, v, w
<1>6. CASE 0 \in c /\ 0 \in d BY <1>2, <1>3, <1>4, <1>5, <1>6, Zenon
<1>7. CASE 0 \in c /\ 0 \notin d BY <1>2, <1>3, <1>4, <1>5, <1>7, Zenon
<1>8. CASE 0 \notin c /\ 0 \in d BY <1>2, <1>3, <1>4, <1>5, <1>8, Zenon
<1>9. CASE 0 \notin c /\ 0 \notin d
  <2>1. ~(0 \in Xor(c, d)) BY <1>9 DEF Xor
  <2>2. QED BY <1>4, <1>5, <1>9, <2>1, Zenon
<1>10. QED BY <1>6, <1>7, <1>8, <1>9

LEMMA StepsType ==
  ASSUME NEW n \in Nat, NEW c \in SUBSET Nat
  PROVE  /\ Steps[n][c] \in SUBSET Nat
         /\ Steps[0][c] = c /\ Steps[n + 1][c] = BitStep(Steps[n][c])
<1>1. Poly \subseteq Nat BY PolyType
<1>2. Steps \in [Nat -> [SUBSET Nat -> SUBSET Nat]] BY <1>1, StepsDef
<1>3. Steps[n][c] \in SUBSET Nat BY <1>2
<1>4. QED BY <1>1, <1>3, StepsDef, Zenon

LEMMA StepsLinear ==
  ASSUME NEW c \in SUBSET Nat, NEW d \in SUBSET Nat
  PROVE  \A n \in Nat : Steps[n][Xor(c, d)] = Xor(Steps[n][c], Steps[n][d])
<1> DEFINE T == {n \in Nat : Steps[n][Xor(c, d)] = Xor(Steps[n][c], Steps[n][d])}
<1>1. Xor(c, d) \in SUBSET Nat BY XorType
<1>2. 0 \in T BY <1>1, StepsType
<1>3. ASSUME NEW n \in Nat, n \in T PROVE n + 1 \in T
  <2>1. Steps[n][c] \in SUBSET Nat /\ Steps[n][d] \in SUBSET Nat BY StepsType
  <2>2. /\ Steps[n + 1][Xor(c, d)] = BitStep(Steps[n][Xor(c, d)])
        /\ Steps[n + 1][c] = BitStep(Steps[n][c]) /\ Steps[n + 1][d] = BitStep(Steps[n][d])
    BY <1>1, StepsType
  <2>3. QED BY <1>3, <2>1, <2>2, BitStepLinear
<1>4. \A n \in Nat : n \in T
  <2> HIDE DEF T
  <2>1. QED BY <1>2, <1>3, SetInduction
<1>5. QED BY <1>4

LEMMA StepsAdd ==
  ASSUME NEW c \in SUBSET Nat, NEW m \in Nat
  PROVE  \A n \in Nat : Steps[m + n][c] = Steps[n][Steps[m][c]]
<1> DEFINE T == {n \in Nat : Steps[m + n][c] = Steps[n][Steps[m][c]]}
<1>1. Steps[m][c] \in SUBSET Nat BY StepsType
<1>2. 0 \in T
  <2>1. m + 0 = m OBVIOUS
  <2>2. QED BY <1>1, <2>1, StepsType
<1>3. ASSUME NEW n \in Nat, n \in T PROVE n + 1 \in T
  <2>1. m + (n + 1) = (m + n) + 1 /\ m + n \in Nat OBVIOUS
  <2>2. Steps[(m + n) + 1][c] = BitStep(Steps[m + n][c]) BY <2>1, StepsType
  <2>3. Steps[n + 1][Steps[m][c]] = BitStep(Steps[n][Steps[m][c]]) BY <1>1, StepsType
  <2>4. QED BY <1>3, <2>1, <2>2, <2>3
<1>4. \A n \in Nat : n \in T
  <2> HIDE DEF T
  <2>1. QED BY <1>2, <1>3, SetInduction
<1>5. QED BY <1>4

LEMMA StepsMove ==
  ASSUME NEW c \in SUBSET Nat
  PROVE  \A n \in Nat : (\A x \in c : x >= n) => Steps[n][c] = ShiftRight(c, n)
<1> DEFINE T == {n \in Nat : (\A x \in c : x >= n) => Steps[n][c] = ShiftRight(c, n)}
<1>1. 0 \in T
  <2>1. \A x : x \in ShiftRight(c, 0) <=> x \in Nat /\ x + 0 \in c BY ShiftRightBits
  <2>4. \A x : x \in c <=> x \in Nat /\ x + 0 \in c
    <3>1. \A x \in Nat : x + 0 = x OBVIOUS
    <3>2. QED BY <3>1
  <2>2. ShiftRight(c, 0) = c
    <3> HIDE DEF T
    <3>1. \A x : x \in ShiftRight(c, 0) <=> x \in c BY <2>1, <2>4
    <3>2. QED BY <3>1
  <2>3. QED BY <2>2, StepsType
<1>2. ASSUME NEW n \in Nat, n \in T PROVE n + 1 \in T
  <2> SUFFICES ASSUME \A x \in c : x >= n + 1
               PROVE  Steps[n + 1][c] = ShiftRight(c, n + 1)
    OBVIOUS
  <2>1. \A x \in c : x >= n OBVIOUS
  <2>2. Steps[n][c] = ShiftRight(c, n) BY <1>2, <2>1
  <2>3. ~(0 \in ShiftRight(c, n))
    <3>1. 0 \in ShiftRight(c, n) => 0 + n \in c BY ShiftRightBits
    <3>2. QED BY <3>1
  <2>4. BitStep(ShiftRight(c, n)) = ShiftRight(ShiftRight(c, n), 1) BY <2>3 DEF BitStep
  <2>5. QED BY <2>2, <2>4, ShiftRightTwice, StepsType
<1>3. \A n \in Nat : n \in T
  <2> HIDE DEF T
  <2>1. QED BY <1>1, <1>2, SetInduction
<1>4. QED BY <1>3

\* What the low bits become, over what the others have moved to.
LEMMA StepsSplit ==
  ASSUME NEW c \in SUBSET Nat, NEW n \in Nat
  PROVE  Steps[n][c] = Xor(Steps[n][LowBits(c, n)], ShiftRight(c, n))
<1> DEFINE l == LowBits(c, n)
           v == c \ LowBits(c, n)
<1>1. l \in SUBSET Nat /\ v \in SUBSET Nat BY MovedType
<1>2. c = Xor(l, v) /\ \A x \in v : x >= n BY Halves
<1>3. ShiftRight(v, n) = ShiftRight(c, n) BY ShiftRightHigh
<1> HIDE DEF l, v
<1>4. Steps[n][v] = ShiftRight(v, n) BY <1>1, <1>2, StepsMove
<1>5. Steps[n][Xor(l, v)] = Xor(Steps[n][l], Steps[n][v]) BY <1>1, StepsLinear
<1>6. QED BY <1>2, <1>3, <1>4, <1>5 DEF l

LEMMA BitStepRegister ==
  ASSUME NEW c \in SUBSET Ones
  PROVE  /\ BitStep(c) \in SUBSET Ones
         /\ c # {} => BitStep(c) # {}
<1>1. c \in SUBSET Nat /\ ShiftRight(c, 1) \in SUBSET (0 .. CrcBits - 2)
  <2>1. c \in SUBSET Nat BY PolyType
  <2>2. \A x : x \in ShiftRight(c, 1) <=> x \in Nat /\ x + 1 \in c BY <2>1, ShiftRightBits
  <2>3. ASSUME NEW x \in ShiftRight(c, 1) PROVE x \in 0 .. CrcBits - 2
    BY <2>2, PolyType DEF Ones
  <2>4. QED BY <2>1, <2>3
<1>2. CrcBits - 1 \in Poly /\ ~(CrcBits - 1 \in ShiftRight(c, 1)) BY <1>1, PolyType
<1>3. ShiftRight(c, 1) \in SUBSET Ones BY <1>1, PolyType DEF Ones
<1>4. BitStep(c) \in SUBSET Ones BY <1>3, PolyType DEF BitStep, Xor
<1>5. ASSUME c # {} PROVE BitStep(c) # {}
  <2>1. CASE 0 \in c
    <3>1. CrcBits - 1 \in Xor(ShiftRight(c, 1), Poly) BY <1>2 DEF Xor
    <3>2. QED BY <2>1, <3>1 DEF BitStep
  <2>2. CASE ~(0 \in c)
    <3>1. PICK i \in c : TRUE BY <1>5
    <3>2. i \in Nat /\ i # 0 BY <1>1, <2>2
    <3>3. i - 1 \in Nat /\ (i - 1) + 1 \in c BY <3>1, <3>2
    <3>4. i - 1 \in ShiftRight(c, 1) BY <1>1, <3>3, ShiftRightBits
    <3>5. QED BY <2>2, <3>4 DEF BitStep
  <2>3. QED BY <2>1, <2>2
<1>6. QED BY <1>4, <1>5

LEMMA StepsRegister ==
  ASSUME NEW c \in SUBSET Ones
  PROVE  \A n \in Nat : Steps[n][c] \in SUBSET Ones /\ (c # {} => Steps[n][c] # {})
<1> DEFINE T == {n \in Nat : Steps[n][c] \in SUBSET Ones /\ (c # {} => Steps[n][c] # {})}
<1>1. c \in SUBSET Nat BY PolyType
<1>2. 0 \in T BY <1>1, StepsType
<1>3. ASSUME NEW n \in Nat, n \in T PROVE n + 1 \in T
  <2>1. Steps[n + 1][c] = BitStep(Steps[n][c]) BY <1>1, StepsType
  <2>2. QED BY <1>3, <2>1, BitStepRegister
<1>4. \A n \in Nat : n \in T
  <2> HIDE DEF T
  <2>1. QED BY <1>2, <1>3, SetInduction
<1>5. QED BY <1>4

-----------------------------------------------------------------------------
\* The tables hold what so many bits make of each byte.

LEMMA TableDef ==
  /\ \A b \in ByteValues : b \in SUBSET Nat /\ {} \in ByteValues
  /\ \A b \in ByteValues : Table[b] = Steps[CrcByte][b]
  /\ Table \in [ByteValues -> SUBSET Nat]
<1> DEFINE B == CrcByte
           V == SUBSET Nat
           S == [ByteValues -> V]
           id == [b \in ByteValues |-> b]
           h == [i \in 1 .. B |-> [x \in S |-> [b \in ByteValues |-> BitStep(x[b])]]]
<1>1. B \in Nat /\ ByteValues \subseteq V /\ {} \in ByteValues BY PolyType DEF ByteValues
<1>2. id \in S BY <1>1
<1>3. h \in [1 .. B -> [S -> S]]
  <2>1. ASSUME NEW x \in S PROVE [b \in ByteValues |-> BitStep(x[b])] \in S
    <3>1. \A b \in ByteValues : BitStep(x[b]) \in V BY BitStepType, PolyType
    <3>2. QED BY <3>1
  <2>2. QED BY <2>1
<1>4. PICK g \in [0 .. B -> S] : Recursive(g, 0 .. B, id, h)
  <2> HIDE DEF S, id, h, B
  <2>1. QED BY <1>1, <1>2, <1>3, BoundedRecursion
<1>5. ASSUME NEW n \in 0 .. B
      PROVE  g[n] = IF n = 0 THEN id ELSE [b \in ByteValues |-> BitStep(g[n - 1][b])]
  <2>1. ASSUME n # 0 PROVE h[n][g[n - 1]] = [b \in ByteValues |-> BitStep(g[n - 1][b])]
    <3>1. n \in 1 .. B /\ n - 1 \in 0 .. B BY <1>1, <2>1
    <3>2. g[n - 1] \in S BY <3>1
    <3>3. QED BY <3>1, <3>2
  <2>2. g[n] = IF n = 0 THEN id ELSE h[n][g[n - 1]] BY <1>4 DEF Recursive
  <2>3. QED BY <2>1, <2>2
<1>6. g = [n \in 0 .. B |-> IF n = 0 THEN id ELSE [b \in ByteValues |-> BitStep(g[n - 1][b])]]
  BY <1>5
<1>7. PICK f : /\ f = [n \in 0 .. B |-> IF n = 0 THEN id ELSE [b \in ByteValues |-> BitStep(f[n - 1][b])]]
               /\ Table = f[B]
  BY <1>6, Zenon DEF Table
<1>8. \A n \in 0 .. B : f[n] = IF n = 0 THEN id ELSE [b \in ByteValues |-> BitStep(f[n - 1][b])]
  BY <1>7, Zenon
<1> DEFINE T == {n \in Nat : n <= B => \A b \in ByteValues : f[n][b] = Steps[n][b]}
<1>9. 0 \in T
  <2>1. f[0] = id
    <3>1. 0 \in 0 .. B BY <1>1
    <3>2. QED BY <1>8, <3>1, Zenon
  <2>2. QED BY <1>1, <2>1, StepsType
<1>10. ASSUME NEW n \in Nat, n \in T PROVE n + 1 \in T
  <2> SUFFICES ASSUME n + 1 <= B, NEW b \in ByteValues PROVE f[n + 1][b] = Steps[n + 1][b]
    OBVIOUS
  <2>1. n + 1 \in 0 .. B /\ n + 1 # 0 /\ (n + 1) - 1 = n /\ n <= B BY <1>1
  <2>2. f[n + 1] = [c \in ByteValues |-> BitStep(f[(n + 1) - 1][c])] BY <1>8, <2>1, Zenon
  <2>3. f[n + 1][b] = BitStep(f[n][b]) BY <2>1, <2>2
  <2>4. f[n][b] = Steps[n][b] BY <1>10, <2>1
  <2>5. b \in SUBSET Nat BY <1>1
  <2>6. QED BY <2>3, <2>4, <2>5, StepsType
<1>11. \A n \in Nat : n \in T
  <2> HIDE DEF T
  <2>1. QED BY <1>9, <1>10, SetInduction
<1>12. \A b \in ByteValues : f[B][b] = Steps[B][b] BY <1>1, <1>11
<1>13. f[B] \in S
  <2>1. B \in 0 .. B /\ B # 0 BY <1>1, PolyType
  <2>2. f[B] = [b \in ByteValues |-> BitStep(f[B - 1][b])] BY <1>8, <2>1, Zenon
  <2>3. \A b \in ByteValues : f[B][b] \in V BY <1>1, <1>12, StepsType
  <2>4. f[B] = [b \in ByteValues |-> f[B][b]] BY <2>2
  <2>5. QED BY <2>3, <2>4
<1>14. QED BY <1>1, <1>7, <1>12, <1>13

\* The low byte through its table, over the other bytes moved down: a byte's bits.
LEMMA ByteStep ==
  ASSUME NEW c \in SUBSET Nat
  PROVE  /\ LowBits(c, CrcByte) \in ByteValues
         /\ Xor(Table[LowBits(c, CrcByte)], ShiftRight(c, CrcByte)) = Steps[CrcByte][c]
         /\ Xor(ShiftRight(c, CrcByte), Table[LowBits(c, CrcByte)]) = Steps[CrcByte][c]
<1>1. LowBits(c, CrcByte) \in ByteValues
  BY DEF LowBits, ByteValues
<1>2. Table[LowBits(c, CrcByte)] = Steps[CrcByte][LowBits(c, CrcByte)] BY <1>1, TableDef
<1>3. Steps[CrcByte][c] = Xor(Steps[CrcByte][LowBits(c, CrcByte)], ShiftRight(c, CrcByte))
  BY PolyType, StepsSplit
<1>4. QED BY <1>1, <1>2, <1>3, XorLaws

LEMMA TablesDef ==
  \A j \in 0 .. Chunk - 1 : \A b \in ByteValues : Tables[j][b] = Steps[(j + 1) * CrcByte][b]
<1> DEFINE V == SUBSET Nat
           S == [ByteValues -> V]
           next(x) == [b \in ByteValues |->
                         LET prev == x[b] IN
                         Xor(ShiftRight(prev, CrcByte), Table[LowBits(prev, CrcByte)])]
           M == Chunk - 1
           h == [i \in 1 .. M |-> [x \in S |-> next(x)]]
<1>1. M \in Nat /\ CrcByte \in Nat BY PolyType DEF Chunk
<1>2. Table \in S BY TableDef
<1>3. h \in [1 .. M -> [S -> S]]
  <2>1. ASSUME NEW x \in S PROVE next(x) \in S
    <3>1. ASSUME NEW b \in ByteValues
          PROVE  Xor(ShiftRight(x[b], CrcByte), Table[LowBits(x[b], CrcByte)]) \in V
      <4>1. x[b] \in V OBVIOUS
      <4>2. QED BY <1>1, <4>1, ByteStep, StepsType
    <3>2. QED BY <3>1
  <2> HIDE DEF next
  <2>2. QED BY <2>1
<1>4. PICK g \in [0 .. M -> S] : Recursive(g, 0 .. M, Table, h)
  <2> HIDE DEF S, h, M
  <2>1. QED BY <1>1, <1>2, <1>3, BoundedRecursion
<1>5. ASSUME NEW j \in 0 .. M
      PROVE  g[j] = IF j = 0 THEN Table ELSE next(g[j - 1])
  <2>1. ASSUME j # 0 PROVE h[j][g[j - 1]] = next(g[j - 1])
    <3>1. j \in 1 .. M /\ j - 1 \in 0 .. M BY <1>1, <2>1
    <3>2. g[j - 1] \in S BY <3>1
    <3> HIDE DEF next
    <3>3. QED BY <3>1, <3>2
  <2>2. g[j] = IF j = 0 THEN Table ELSE h[j][g[j - 1]] BY <1>4 DEF Recursive
  <2>3. QED BY <2>1, <2>2, Zenon
<1>6. g = [j \in 0 .. M |-> IF j = 0 THEN Table ELSE next(g[j - 1])]
  <2> HIDE DEF next
  <2>1. QED BY <1>5
<1>7. Tables = [j \in 0 .. M |-> IF j = 0 THEN Table ELSE next(Tables[j - 1])]
  BY <1>6, Zenon DEF Tables
<1>8. \A j \in 0 .. M : Tables[j] = IF j = 0 THEN Table ELSE next(Tables[j - 1])
  BY <1>7, Zenon
<1> DEFINE T == {j \in Nat : j <= M =>
                   \A b \in ByteValues : Tables[j][b] = Steps[(j + 1) * CrcByte][b]}
<1>9. 0 \in T
  <2>1. 0 \in 0 .. M /\ (0 + 1) * CrcByte = CrcByte BY <1>1
  <2>2. Tables[0] = Table BY <1>8, <2>1, Zenon
  <2>3. QED BY <2>1, <2>2, TableDef
<1>10. ASSUME NEW j \in Nat, j \in T PROVE j + 1 \in T
  <2> SUFFICES ASSUME j + 1 <= M, NEW b \in ByteValues
               PROVE  Tables[j + 1][b] = Steps[((j + 1) + 1) * CrcByte][b]
    OBVIOUS
  <2>1. j + 1 \in 0 .. M /\ j + 1 # 0 /\ (j + 1) - 1 = j /\ j <= M BY <1>1
  <2>2. Tables[j + 1] = next(Tables[j]) BY <1>8, <2>1, Zenon
  <2>3. PICK prev : prev = Tables[j][b] OBVIOUS
  <2>4. Tables[j + 1][b] = Xor(ShiftRight(prev, CrcByte), Table[LowBits(prev, CrcByte)])
    BY <2>2, <2>3
  <2>5. PICK m \in Nat : m = (j + 1) * CrcByte BY <1>1, SMT
  <2>6. prev = Steps[m][b] /\ b \in SUBSET Nat BY <1>10, <2>1, <2>3, <2>5, TableDef
  <2>7. prev \in SUBSET Nat BY <2>6, StepsType
  <2>8. Tables[j + 1][b] = Steps[CrcByte][prev] BY <2>4, <2>7, ByteStep
  <2>9. Steps[m + CrcByte][b] = Steps[CrcByte][Steps[m][b]] BY <1>1, <2>6, StepsAdd
  <2>10. m + CrcByte = ((j + 1) + 1) * CrcByte BY <1>1, <2>5, SMT
  <2>11. QED BY <2>6, <2>8, <2>9, <2>10
<1>11. \A j \in Nat : j \in T
  <2> HIDE DEF T
  <2>1. QED BY <1>9, <1>10, SetInduction
<1>12. QED BY <1>11

-----------------------------------------------------------------------------
\* Strings cut into pieces.

LEMMA ShiftBack ==
  ASSUME NEW w \in SUBSET Nat, NEW n \in Nat
  PROVE  /\ ShiftRight(ShiftLeft(w, n), n) = w
         /\ \A x \in ShiftLeft(w, n) : x >= n
<1>1. ShiftLeft(w, n) \in SUBSET Nat BY MovedType
<1>2. ASSUME NEW x PROVE x \in ShiftRight(ShiftLeft(w, n), n) <=> x \in w
  <2>1. x \in ShiftRight(ShiftLeft(w, n), n) <=> x \in Nat /\ x + n \in ShiftLeft(w, n)
    BY <1>1, ShiftRightBits
  <2>2. x \in Nat => (x + n \in ShiftLeft(w, n) <=> (x + n) - n \in w) BY ShiftLeftBits
  <2>3. x \in Nat => (x + n) - n = x OBVIOUS
  <2>4. QED BY <2>1, <2>2, <2>3
<1>3. ASSUME NEW x \in ShiftLeft(w, n) PROVE x >= n
  <2>1. x \in Nat /\ x - n \in w BY ShiftLeftBits
  <2>2. QED BY <2>1
<1>4. ShiftRight(ShiftLeft(w, n), n) = w BY <1>2
<1>5. QED BY <1>3, <1>4

\* Bits that come in behind p others are where the register has got to after p.
LEMMA StepsBack ==
  ASSUME NEW w \in SUBSET Nat, NEW n \in Nat
  PROVE  Steps[n][ShiftLeft(w, n)] = w
<1>1. ShiftLeft(w, n) \in SUBSET Nat BY MovedType
<1>2. QED BY <1>1, ShiftBack, StepsMove

LEMMA NextPiece ==
  ASSUME NEW w \in SUBSET Nat, NEW p \in Nat, NEW k \in Nat
  PROVE  LowBits(w, p + k) = Xor(LowBits(w, p), ShiftLeft(LowBits(ShiftRight(w, p), k), p))
<1> DEFINE r == ShiftRight(w, p)
           q == LowBits(r, k)
<1>1. r \in SUBSET Nat /\ q \in SUBSET Nat BY MovedType
<1>2. \A x : x \in q <=> x \in Nat /\ x + p \in w /\ x < k
  <2>1. \A x : x \in q <=> x \in r /\ x < k BY <1>1, LowBitsBits
  <2>2. \A x : x \in r <=> x \in Nat /\ x + p \in w BY ShiftRightBits
  <2>3. QED BY <2>1, <2>2
<1> HIDE DEF r, q
<1>3. \A x : x \in ShiftLeft(q, p) <=> x \in Nat /\ x - p \in q BY <1>1, ShiftLeftBits
<1>4. \A x : x \in LowBits(w, p + k) <=> x \in w /\ x < p + k BY LowBitsBits
<1>5. \A x : x \in LowBits(w, p) <=> x \in w /\ x < p BY LowBitsBits
<1>6. ASSUME NEW x PROVE x \in LowBits(w, p + k) <=> x \in Xor(LowBits(w, p), ShiftLeft(q, p))
  <2>1. CASE x \in Nat
    <3>1. x \in ShiftLeft(q, p) <=> x >= p /\ x \in w /\ x < p + k
      <4>1. x - p \in q <=> x - p \in Nat /\ (x - p) + p \in w /\ x - p < k BY <1>2
      <4>2. (x - p) + p = x /\ (x - p \in Nat <=> x >= p) /\ (x - p < k <=> x < p + k) BY <2>1
      <4>3. QED BY <1>3, <2>1, <4>1, <4>2
    <3>2. x \in Xor(LowBits(w, p), ShiftLeft(q, p)) <=>
            (x \in LowBits(w, p) /\ x \notin ShiftLeft(q, p)) \/ (x \in ShiftLeft(q, p) /\ x \notin LowBits(w, p))
      BY DEF Xor
    <3>3. x < p => x < p + k BY <2>1
    <3>4. x < p \/ x >= p BY <2>1
    <3>5. ~(x < p /\ x >= p) BY <2>1
    <3>6. QED BY <1>4, <1>5, <3>1, <3>2, <3>3, <3>4, <3>5, Zenon
  <2>2. CASE x \notin Nat
    <3>1. x \notin w BY <2>2
    <3>2. x \notin ShiftLeft(q, p) BY <1>3, <2>2
    <3>3. QED BY <1>4, <1>5, <3>1, <3>2 DEF Xor
  <2>3. QED BY <2>1, <2>2
<1>7. LowBits(w, p + k) = Xor(LowBits(w, p), ShiftLeft(q, p)) BY <1>6
<1>8. QED BY <1>7 DEF q, r

LEMMA PieceOfPiece ==
  ASSUME NEW w \in SUBSET Nat, NEW m \in Nat, NEW j \in Nat, NEW k \in Nat, j + k <= m
  PROVE  LowBits(ShiftRight(LowBits(w, m), j), k) = LowBits(ShiftRight(w, j), k)
<1>1. LowBits(w, m) \in SUBSET Nat /\ ShiftRight(w, j) \in SUBSET Nat
      /\ ShiftRight(LowBits(w, m), j) \in SUBSET Nat
  BY MovedType
<1>2. ASSUME NEW x
      PROVE  x \in LowBits(ShiftRight(LowBits(w, m), j), k) <=> x \in LowBits(ShiftRight(w, j), k)
  <2>1. x \in LowBits(ShiftRight(LowBits(w, m), j), k) <=>
          x \in ShiftRight(LowBits(w, m), j) /\ x < k
    BY <1>1, LowBitsBits
  <2>2. x \in LowBits(ShiftRight(w, j), k) <=> x \in ShiftRight(w, j) /\ x < k
    BY <1>1, LowBitsBits
  <2>3. x \in ShiftRight(LowBits(w, m), j) <=> x \in Nat /\ x + j \in LowBits(w, m)
    BY <1>1, ShiftRightBits
  <2>4. x \in ShiftRight(w, j) <=> x \in Nat /\ x + j \in w BY ShiftRightBits
  <2>5. x + j \in LowBits(w, m) <=> x + j \in w /\ x + j < m BY LowBitsBits
  <2>6. x \in Nat /\ x < k => x + j < m OBVIOUS
  <2>7. QED BY <2>1, <2>2, <2>3, <2>4, <2>5, <2>6, Zenon
<1>3. QED BY <1>2

-----------------------------------------------------------------------------
(***************************************************************************)
(* The register after p bits of a string: Steps on all ones with the bits  *)
(* added.  Every way to compute the CRC walks along it.                    *)
(***************************************************************************)
RegisterAt(ones, p) == Steps[p][Xor(Ones, LowBits(ones, p))]

LEMMA RegisterType ==
  ASSUME NEW ones \in SUBSET Nat, NEW p \in Nat
  PROVE  RegisterAt(ones, p) \in SUBSET Nat
<1>1. Xor(Ones, LowBits(ones, p)) \in SUBSET Nat
  <2>1. Ones \in SUBSET Nat /\ LowBits(ones, p) \in SUBSET Nat BY PolyType, MovedType
  <2>2. QED BY <2>1 DEF Xor
<1>2. QED BY <1>1, StepsType DEF RegisterAt

LEMMA RegisterStart ==
  ASSUME NEW ones \in SUBSET Nat
  PROVE  RegisterAt(ones, 0) = Ones
<1>1. LowBits(ones, 0) = {}
  <2>1. \A x : ~(x \in LowBits(ones, 0)) BY DEF LowBits
  <2>2. QED BY <2>1
<1>2. Xor(Ones, LowBits(ones, 0)) = Ones BY <1>1, XorLaws
<1>3. QED BY <1>2, PolyType, StepsType DEF RegisterAt

LEMMA Feed ==
  ASSUME NEW ones \in SUBSET Nat, NEW p \in Nat, NEW k \in Nat
  PROVE  RegisterAt(ones, p + k)
           = Steps[k][Xor(RegisterAt(ones, p), LowBits(ShiftRight(ones, p), k))]
<1> DEFINE low == LowBits(ones, p)
           q == LowBits(ShiftRight(ones, p), k)
           sl == ShiftLeft(q, p)
           a == Xor(Ones, low)
<1>1. low \in SUBSET Nat /\ q \in SUBSET Nat /\ sl \in SUBSET Nat /\ Ones \in SUBSET Nat
  BY MovedType, PolyType
<1>2. a \in SUBSET Nat BY <1>1 DEF Xor
<1>3. LowBits(ones, p + k) = Xor(low, sl) BY NextPiece
<1>4. Steps[p][sl] = q BY <1>1, StepsBack
<1>5. RegisterAt(ones, p) = Steps[p][a] BY DEF RegisterAt
<1>6. RegisterAt(ones, p + k) = Steps[p + k][Xor(Ones, LowBits(ones, p + k))]
  BY DEF RegisterAt
<1> HIDE DEF low, q, sl
<1>7. Xor(Ones, Xor(low, sl)) = Xor(a, sl) BY XorLaws
<1> HIDE DEF a
<1>8. Xor(a, sl) \in SUBSET Nat BY <1>1, <1>2, XorType
<1>9. Steps[p + k][Xor(a, sl)] = Steps[k][Steps[p][Xor(a, sl)]] BY <1>8, StepsAdd
<1>10. Steps[p][Xor(a, sl)] = Xor(Steps[p][a], Steps[p][sl]) BY <1>1, <1>2, StepsLinear
<1>11. RegisterAt(ones, p + k) = Steps[k][Xor(RegisterAt(ones, p), q)]
  BY <1>3, <1>4, <1>5, <1>6, <1>7, <1>9, <1>10
<1>12. QED BY <1>11 DEF q

LEMMA RegisterStays ==
  ASSUME NEW ones \in SUBSET Nat
  PROVE  \A p \in Nat : RegisterAt(ones, p) \in SUBSET Ones
<1> DEFINE T == {p \in Nat : RegisterAt(ones, p) \in SUBSET Ones}
<1>1. 0 \in T BY RegisterStart
<1>2. ASSUME NEW p \in Nat, p \in T PROVE p + 1 \in T
  <2>1. RegisterAt(ones, p + 1)
          = Steps[1][Xor(RegisterAt(ones, p), LowBits(ShiftRight(ones, p), 1))]
    BY Feed
  <2>2. LowBits(ShiftRight(ones, p), 1) \in SUBSET Ones
    <3>1. LowBits(ShiftRight(ones, p), 1) \subseteq {0} BY DEF LowBits
    <3>2. QED BY <3>1, PolyType
  <2>3. Xor(RegisterAt(ones, p), LowBits(ShiftRight(ones, p), 1)) \in SUBSET Ones
    BY <1>2, <2>2, XorType
  <2>4. RegisterAt(ones, p + 1) \in SUBSET Ones BY <2>1, <2>3, StepsRegister
  <2>5. QED BY <2>4
<1>3. \A p \in Nat : p \in T
  <2> HIDE DEF T
  <2>1. QED BY <1>1, <1>2, SetInduction
<1>4. QED BY <1>3

IsString(s) == s.bits \in Nat /\ s.ones \subseteq 0 .. s.bits - 1

LEMMA StringBits ==
  ASSUME NEW s, IsString(s)
  PROVE  s.bits \in Nat /\ s.ones \in SUBSET Nat /\ LowBits(s.ones, s.bits) = s.ones
  BY DEF IsString, LowBits

\* The serial definition walks along the register, bit by bit.
LEMMA SerialWalks ==
  ASSUME NEW s, IsString(s)
  PROVE  BitSerial(s) = Xor(RegisterAt(s.ones, s.bits), Ones)
<1> DEFINE L == s.bits
           V == SUBSET Nat
           step(n, x) == BitStep(IF n - 1 \in s.ones THEN Xor(x, {0}) ELSE x)
           h == [n \in 1 .. L |-> [x \in V |-> step(n, x)]]
<1>1. L \in Nat /\ s.ones \in SUBSET Nat /\ Ones \in V /\ Poly \subseteq Nat
  BY StringBits, PolyType
<1>2. h \in [1 .. L -> [V -> V]]
  <2>1. ASSUME NEW n \in 1 .. L, NEW x \in V PROVE step(n, x) \in V
    <3>1. Xor(x, {0}) \in V BY DEF Xor
    <3>2. QED BY <1>1, <3>1, BitStepType
  <2> HIDE DEF step
  <2>2. QED BY <2>1
<1>3. PICK g \in [0 .. L -> V] : Recursive(g, 0 .. L, Ones, h)
  <2> HIDE DEF V, h, L
  <2>1. QED BY <1>1, <1>2, BoundedRecursion
<1>4. ASSUME NEW n \in 0 .. L PROVE g[n] = IF n = 0 THEN Ones ELSE step(n, g[n - 1])
  <2>1. ASSUME n # 0 PROVE h[n][g[n - 1]] = step(n, g[n - 1])
    <3>1. n \in 1 .. L /\ n - 1 \in 0 .. L BY <1>1, <2>1
    <3>2. g[n - 1] \in V BY <3>1
    <3> HIDE DEF step
    <3>3. QED BY <3>1, <3>2
  <2>2. g[n] = IF n = 0 THEN Ones ELSE h[n][g[n - 1]] BY <1>3 DEF Recursive
  <2>3. QED BY <2>1, <2>2, Zenon
<1>5. g = [n \in 0 .. L |-> IF n = 0 THEN Ones ELSE step(n, g[n - 1])]
  <2> HIDE DEF step
  <2>1. QED BY <1>4
<1>6. PICK f : /\ f = [n \in 0 .. L |-> IF n = 0 THEN Ones ELSE step(n, f[n - 1])]
               /\ BitSerial(s) = Xor(f[L], Ones)
  BY <1>5, Zenon DEF BitSerial
<1>7. \A n \in 0 .. L : f[n] = IF n = 0 THEN Ones ELSE step(n, f[n - 1])
  BY <1>6, Zenon
<1> DEFINE T == {n \in Nat : n <= L => f[n] = RegisterAt(s.ones, n)}
<1>8. 0 \in T
  <2>1. 0 \in 0 .. L BY <1>1
  <2>2. f[0] = Ones BY <1>7, <2>1, Zenon
  <2>3. QED BY <1>1, <2>2, RegisterStart
<1>9. ASSUME NEW n \in Nat, n \in T PROVE n + 1 \in T
  <2> SUFFICES ASSUME n + 1 <= L PROVE f[n + 1] = RegisterAt(s.ones, n + 1) OBVIOUS
  <2>1. n + 1 \in 0 .. L /\ n + 1 # 0 /\ (n + 1) - 1 = n /\ n <= L BY <1>1
  <2>2. PICK x : x = RegisterAt(s.ones, n) OBVIOUS
  <2>3. f[n] = x /\ x \in V BY <1>1, <1>9, <2>1, <2>2, RegisterType
  <2>4. f[n + 1] = BitStep(IF n \in s.ones THEN Xor(x, {0}) ELSE x)
    <3>1. f[n + 1] = step(n + 1, f[(n + 1) - 1]) BY <1>7, <2>1, Zenon
    <3>2. QED BY <2>1, <2>3, <3>1
  <2>5. PICK b : b = LowBits(ShiftRight(s.ones, n), 1) OBVIOUS
  <2>6. b = IF n \in s.ones THEN {0} ELSE {}
    <3>1. ShiftRight(s.ones, n) \in SUBSET Nat BY <1>1, MovedType
    <3>2. \A z : z \in b <=> z \in ShiftRight(s.ones, n) /\ z < 1 BY <2>5, <3>1, LowBitsBits
    <3>3. \A z : z \in ShiftRight(s.ones, n) <=> z \in Nat /\ z + n \in s.ones
      BY <1>1, ShiftRightBits
    <3>4. \A z : z \in b <=> z = 0 /\ n \in s.ones
      <4>1. \A z \in Nat : z < 1 <=> z = 0 OBVIOUS
      <4>2. 0 + n = n OBVIOUS
      <4>3. QED BY <3>2, <3>3, <4>1, <4>2
    <3>5. QED BY <3>4
  <2>7. (IF n \in s.ones THEN Xor(x, {0}) ELSE x) = Xor(x, b) BY <2>6, XorLaws
  <2>8. Xor(x, b) \in V BY <2>3, <2>6 DEF Xor
  <2>9. Steps[1][Xor(x, b)] = BitStep(Xor(x, b))
    <3>1. Steps[0 + 1][Xor(x, b)] = BitStep(Steps[0][Xor(x, b)]) BY <2>8, StepsType
    <3>2. Steps[0][Xor(x, b)] = Xor(x, b) BY <2>8, StepsType
    <3>3. QED BY <3>1, <3>2
  <2>10. RegisterAt(s.ones, n + 1) = Steps[1][Xor(x, b)] BY <1>1, <2>2, <2>5, Feed
  <2>11. QED BY <2>4, <2>7, <2>9, <2>10
<1>10. \A n \in Nat : n \in T
  <2> HIDE DEF T
  <2>1. QED BY <1>8, <1>9, SetInduction
<1>11. f[L] = RegisterAt(s.ones, L) BY <1>1, <1>10
<1>12. QED BY <1>6, <1>11

\* A byte of the rest moves it on by a byte.
LEMMA ByteFeeds ==
  ASSUME NEW s, IsString(s), NEW i \in Nat
  PROVE  UpdateByte(RegisterAt(s.ones, i * CrcByte), ByteAt(s, i))
           = RegisterAt(s.ones, (i + 1) * CrcByte)
<1>1. PICK p \in Nat : p = i * CrcByte BY PolyType, SMT
<1>2. PICK x : x = RegisterAt(s.ones, p) OBVIOUS
<1>3. PICK b : b = LowBits(ShiftRight(s.ones, p), CrcByte) OBVIOUS
<1>4. s.ones \in SUBSET Nat /\ CrcByte \in Nat BY StringBits, PolyType
<1>5. x \in SUBSET Nat BY <1>2, <1>4, RegisterType
<1>6. b \in SUBSET Nat /\ \A z \in b : z < CrcByte
  <2>1. ShiftRight(s.ones, p) \in SUBSET Nat BY <1>4, MovedType
  <2>2. QED BY <1>3, <1>4, <2>1, LowBitsBits
<1>7. Xor(x, b) \in SUBSET Nat BY <1>5, <1>6 DEF Xor
<1>8. ShiftRight(Xor(x, b), CrcByte) = ShiftRight(x, CrcByte)
  <2>1. ShiftRight(b, CrcByte) = {}
    <3>1. \A z : z \in ShiftRight(b, CrcByte) <=> z \in Nat /\ z + CrcByte \in b
      BY <1>4, <1>6, ShiftRightBits
    <3>2. \A z \in Nat : ~(z + CrcByte \in b)
      <4>1. \A z \in Nat : ~(z + CrcByte < CrcByte) BY <1>4
      <4>2. QED BY <1>6, <4>1
    <3>3. QED BY <3>1, <3>2
  <2>2. ShiftRight(Xor(x, b), CrcByte) = Xor(ShiftRight(x, CrcByte), ShiftRight(b, CrcByte))
    BY <1>4, <1>5, <1>6, ShiftRightXor
  <2>3. QED BY <2>1, <2>2, XorLaws
<1>9. UpdateByte(x, b) = Steps[CrcByte][Xor(x, b)]
  BY <1>7, <1>8, ByteStep DEF UpdateByte
<1>10. RegisterAt(s.ones, p + CrcByte) = Steps[CrcByte][Xor(x, b)]
  BY <1>2, <1>3, <1>4, Feed
<1>11. p + CrcByte = (i + 1) * CrcByte BY <1>1, <1>4, SMT
<1>12. ByteAt(s, i) = b BY <1>1, <1>3 DEF ByteAt
<1>13. QED BY <1>1, <1>2, <1>9, <1>10, <1>11, <1>12

\* Byte i of the chunk that begins at byte `first', with the register in it.
LEMMA ChunkIndex ==
  ASSUME NEW s, IsString(s), NEW first \in Nat, NEW crc \in SUBSET Ones,
         NEW x, x = Xor(crc, LowBits(ShiftRight(s.ones, first * CrcByte), Chunk * CrcByte)),
         NEW i \in 0 .. Chunk - 1
  PROVE  Xor(ByteAt(s, first + i),
             IF i < RegBytes THEN LowBits(ShiftRight(crc, i * CrcByte), CrcByte) ELSE {})
           = LowBits(ShiftRight(x, i * CrcByte), CrcByte)
<1>1. /\ CrcByte \in Nat /\ RegBytes \in Nat /\ Chunk \in Nat /\ i \in Nat /\ i + 1 <= Chunk
      /\ s.ones \in SUBSET Nat /\ crc \in SUBSET Nat
  BY PolyType, StringBits DEF Chunk
<1>2. PICK p \in Nat, j \in Nat, m \in Nat :
        p = first * CrcByte /\ j = i * CrcByte /\ m = Chunk * CrcByte
  BY <1>1, SMT
<1>3. PICK w, y : w = ShiftRight(s.ones, p) /\ y = LowBits(w, m) OBVIOUS
<1>4. w \in SUBSET Nat /\ y \in SUBSET Nat /\ x = Xor(crc, y)
  BY <1>1, <1>2, <1>3, MovedType
<1>5. LowBits(ShiftRight(x, j), CrcByte)
        = Xor(LowBits(ShiftRight(crc, j), CrcByte), LowBits(ShiftRight(y, j), CrcByte))
  <2>1. ShiftRight(x, j) = Xor(ShiftRight(crc, j), ShiftRight(y, j))
    BY <1>1, <1>4, ShiftRightXor
  <2>2. QED BY <2>1, LowBitsXor
<1>6. LowBits(ShiftRight(y, j), CrcByte) = ByteAt(s, first + i)
  <2>1. j + CrcByte <= m
    <3>1. (i + 1) * CrcByte <= Chunk * CrcByte BY <1>1, SMT
    <3>2. (i + 1) * CrcByte = i * CrcByte + CrcByte BY <1>1, SMT
    <3>3. QED BY <1>2, <3>1, <3>2
  <2>2. LowBits(ShiftRight(y, j), CrcByte) = LowBits(ShiftRight(w, j), CrcByte)
    BY <1>1, <1>3, <1>4, <2>1, PieceOfPiece
  <2>3. ShiftRight(w, j) = ShiftRight(s.ones, p + j) BY <1>1, <1>3, ShiftRightTwice
  <2>4. p + j = (first + i) * CrcByte BY <1>1, <1>2, SMT
  <2>5. QED BY <2>2, <2>3, <2>4 DEF ByteAt
<1>7. ~(i < RegBytes) => LowBits(ShiftRight(crc, j), CrcByte) = {}
  <2> SUFFICES ASSUME ~(i < RegBytes) PROVE LowBits(ShiftRight(crc, j), CrcByte) = {}
    OBVIOUS
  <2>1. j >= CrcBits
    <3>1. RegBytes <= i BY <1>1
    <3>2. CrcByte * RegBytes <= i * CrcByte BY <1>1, <3>1, SMT
    <3>3. QED BY <1>2, <3>2 DEF CrcBits
  <2>2. \A z : z \in ShiftRight(crc, j) <=> z \in Nat /\ z + j \in crc BY <1>1, ShiftRightBits
  <2>3. \A z \in Nat : ~(z + j \in 0 .. CrcBits - 1) BY <2>1, PolyType
  <2>4. ShiftRight(crc, j) = {} BY <2>2, <2>3 DEF Ones
  <2>5. QED BY <2>4 DEF LowBits
<1>8. PICK b, c, n : b = ByteAt(s, first + i) /\ c = LowBits(ShiftRight(crc, j), CrcByte)
                     /\ n = LowBits(ShiftRight(x, j), CrcByte)
  OBVIOUS
<1>9. n = Xor(c, b) /\ (~(i < RegBytes) => c = {}) BY <1>5, <1>6, <1>7, <1>8
<1>10. n = Xor(b, IF i < RegBytes THEN c ELSE {}) BY <1>9, XorLaws
<1>11. QED BY <1>2, <1>8, <1>10

\* The table of the byte's distance to the chunk's end takes it there.
LEMMA ChunkEntry ==
  ASSUME NEW b \in ByteValues, NEW i \in 0 .. Chunk - 1
  PROVE  Tables[Chunk - (i + 1)][b] = Steps[Chunk * CrcByte][ShiftLeft(b, i * CrcByte)]
<1>1. CrcByte \in Nat /\ Chunk \in Nat /\ i \in Nat /\ b \in SUBSET Nat
  BY PolyType, TableDef DEF Chunk
<1>2. Chunk - (i + 1) \in 0 .. Chunk - 1 /\ (Chunk - (i + 1)) + 1 = Chunk - i BY <1>1
<1>3. PICK j \in Nat, r \in Nat : j = i * CrcByte /\ r = (Chunk - i) * CrcByte
  <2>1. Chunk - i \in Nat BY <1>1
  <2>2. i * CrcByte \in Nat /\ (Chunk - i) * CrcByte \in Nat BY <1>1, <2>1, SMT
  <2>3. QED BY <2>2
<1>4. j + r = Chunk * CrcByte BY <1>1, <1>3, SMT
<1>5. Tables[Chunk - (i + 1)][b] = Steps[r][b] BY <1>2, <1>3, TablesDef
<1>6. ShiftLeft(b, j) \in SUBSET Nat BY <1>1, MovedType
<1>7. Steps[j + r][ShiftLeft(b, j)] = Steps[r][Steps[j][ShiftLeft(b, j)]] BY <1>6, StepsAdd
<1>8. Steps[j][ShiftLeft(b, j)] = b BY <1>1, StepsBack
<1>9. QED BY <1>3, <1>4, <1>5, <1>7, <1>8

LEMMA ChunkFeeds ==
  ASSUME NEW s, IsString(s), NEW first \in Nat
  PROVE  UpdateChunk(RegisterAt(s.ones, first * CrcByte), s, first)
           = RegisterAt(s.ones, (first + Chunk) * CrcByte)
<1>1. CrcByte \in Nat /\ RegBytes \in Nat /\ Chunk \in Nat /\ s.ones \in SUBSET Nat
  BY PolyType, StringBits DEF Chunk
<1>2. PICK p \in Nat, m \in Nat : p = first * CrcByte /\ m = Chunk * CrcByte BY <1>1, SMT
<1>3. PICK crc : crc = RegisterAt(s.ones, p) OBVIOUS
<1>4. crc \in SUBSET Ones BY <1>1, <1>3, RegisterStays
<1>5. PICK x : x = Xor(crc, LowBits(ShiftRight(s.ones, p), m)) OBVIOUS
<1>6. x \in SUBSET Nat
  <2>1. ShiftRight(s.ones, p) \in SUBSET Nat BY <1>1, MovedType
  <2>2. LowBits(ShiftRight(s.ones, p), m) \in SUBSET Nat BY <2>1, MovedType
  <2>3. crc \in SUBSET Nat BY <1>4, PolyType
  <2>4. QED BY <1>5, <2>2, <2>3 DEF Xor
<1> DEFINE V == SUBSET Nat
           index(i) == Xor(ByteAt(s, first + i),
                           IF i < RegBytes THEN LowBits(ShiftRight(crc, i * CrcByte), CrcByte)
                           ELSE {})
           next(i, v) == Xor(v, Tables[Chunk - i][index(i - 1)])
           h == [i \in 1 .. Chunk |-> [v \in V |-> next(i, v)]]
<1>7. ASSUME NEW i \in 0 .. Chunk - 1
      PROVE  /\ index(i) = LowBits(ShiftRight(x, i * CrcByte), CrcByte)
             /\ index(i) \in ByteValues /\ index(i) \in V
  <2>1. index(i) = LowBits(ShiftRight(x, i * CrcByte), CrcByte)
    BY <1>2, <1>4, <1>5, ChunkIndex
  <2>2. \A y : LowBits(y, CrcByte) \in ByteValues BY DEF LowBits, ByteValues
  <2>3. QED BY <2>1, <2>2, TableDef
<1> HIDE DEF index
<1>8. h \in [1 .. Chunk -> [V -> V]]
  <2>1. ASSUME NEW i \in 1 .. Chunk, NEW v \in V PROVE next(i, v) \in V
    <3>1. i - 1 \in 0 .. Chunk - 1 /\ (i - 1) + 1 = i BY <1>1
    <3>2. Tables[Chunk - i][index(i - 1)] = Steps[m][ShiftLeft(index(i - 1), (i - 1) * CrcByte)]
      BY <1>2, <1>7, <3>1, ChunkEntry
    <3>3. ShiftLeft(index(i - 1), (i - 1) * CrcByte) \in SUBSET Nat
      <4>1. (i - 1) * CrcByte \in Nat BY <1>1, <3>1, SMT
      <4>2. QED BY <1>7, <3>1, <4>1, MovedType
    <3>4. Tables[Chunk - i][index(i - 1)] \in V BY <3>2, <3>3, StepsType
    <3>5. QED BY <3>4 DEF Xor
  <2> HIDE DEF next
  <2>2. QED BY <2>1
<1>9. {} \in V OBVIOUS
<1>10. PICK g \in [0 .. Chunk -> V] : Recursive(g, 0 .. Chunk, {}, h)
  <2> HIDE DEF V, h
  <2>1. QED BY <1>1, <1>8, <1>9, BoundedRecursion
<1>11. ASSUME NEW i \in 0 .. Chunk PROVE g[i] = IF i = 0 THEN {} ELSE next(i, g[i - 1])
  <2>1. ASSUME i # 0 PROVE h[i][g[i - 1]] = next(i, g[i - 1])
    <3>1. i \in 1 .. Chunk /\ i - 1 \in 0 .. Chunk BY <1>1, <2>1
    <3>2. g[i - 1] \in V BY <3>1
    <3> HIDE DEF next
    <3>3. QED BY <3>1, <3>2
  <2>2. g[i] = IF i = 0 THEN {} ELSE h[i][g[i - 1]] BY <1>10 DEF Recursive
  <2>3. QED BY <2>1, <2>2, Zenon
<1>12. g = [i \in 0 .. Chunk |-> IF i = 0 THEN {} ELSE next(i, g[i - 1])]
  <2> HIDE DEF next
  <2>1. QED BY <1>11
<1>13. PICK f : /\ f = [i \in 0 .. Chunk |-> IF i = 0 THEN {} ELSE next(i, f[i - 1])]
                /\ UpdateChunk(crc, s, first) = f[Chunk]
  BY <1>12, Zenon DEF UpdateChunk, index
<1>14. \A i \in 0 .. Chunk : f[i] = IF i = 0 THEN {} ELSE next(i, f[i - 1])
  BY <1>13, Zenon
<1> DEFINE T == {i \in Nat : i <= Chunk => f[i] = Steps[m][LowBits(x, i * CrcByte)]}
<1>15. 0 \in T
  <2>1. f[0] = {}
    <3>1. 0 \in 0 .. Chunk BY <1>1
    <3>2. QED BY <1>14, <3>1, Zenon
  <2>2. 0 * CrcByte = 0 BY <1>1, SMT
  <2>3. LowBits(x, 0) = {}
    <3>1. \A z : ~(z \in LowBits(x, 0)) BY DEF LowBits
    <3>2. QED BY <3>1
  <2>4. Steps[m][{}] = {}
    <3>1. ShiftRight({}, m) = {} BY DEF ShiftRight
    <3>2. QED BY <3>1, StepsMove
  <2>5. f[0] = Steps[m][LowBits(x, 0 * CrcByte)] BY <2>1, <2>2, <2>3, <2>4
  <2>6. QED BY <2>5
<1>16. ASSUME NEW i \in Nat, i \in T PROVE i + 1 \in T
  <2> SUFFICES ASSUME i + 1 <= Chunk PROVE f[i + 1] = Steps[m][LowBits(x, (i + 1) * CrcByte)]
    OBVIOUS
  <2>1. i + 1 \in 0 .. Chunk /\ i + 1 # 0 /\ (i + 1) - 1 = i /\ i <= Chunk /\ i \in 0 .. Chunk - 1
    BY <1>1
  <2>2. f[i + 1] = Xor(f[i], Tables[Chunk - (i + 1)][index(i)])
    <3>1. f[i + 1] = next(i + 1, f[(i + 1) - 1]) BY <1>14, <2>1, Zenon
    <3>2. QED BY <2>1, <3>1
  <2>3. PICK j \in Nat : j = i * CrcByte BY <1>1, SMT
  <2>4. PICK b : b = index(i) OBVIOUS
  <2>5. b = LowBits(ShiftRight(x, j), CrcByte) /\ b \in ByteValues /\ b \in SUBSET Nat
    BY <1>7, <2>1, <2>3, <2>4
  <2>6. f[i] = Steps[m][LowBits(x, j)] BY <1>16, <2>1, <2>3
  <2>7. Tables[Chunk - (i + 1)][b] = Steps[m][ShiftLeft(b, j)]
    BY <1>2, <2>1, <2>3, <2>5, ChunkEntry
  <2>8. LowBits(x, j + CrcByte) = Xor(LowBits(x, j), ShiftLeft(b, j))
    BY <1>1, <1>6, <2>5, NextPiece
  <2>9. LowBits(x, j) \in SUBSET Nat /\ ShiftLeft(b, j) \in SUBSET Nat
    BY <1>6, <2>5, MovedType
  <2>10. Steps[m][Xor(LowBits(x, j), ShiftLeft(b, j))]
           = Xor(Steps[m][LowBits(x, j)], Steps[m][ShiftLeft(b, j)])
    BY <2>9, StepsLinear
  <2>11. j + CrcByte = (i + 1) * CrcByte BY <1>1, <2>3, SMT
  <2>12. QED BY <2>2, <2>4, <2>6, <2>7, <2>8, <2>10, <2>11
<1>17. \A i \in Nat : i \in T
  <2> HIDE DEF T
  <2>1. QED BY <1>15, <1>16, SetInduction
<1>18. f[Chunk] = Steps[m][LowBits(x, m)] BY <1>1, <1>2, <1>17
<1>19. RegisterAt(s.ones, p + m) = Steps[m][x] BY <1>1, <1>3, <1>5, Feed
<1>20. LowBits(x, m) = x
  <2>1. Ones \subseteq 0 .. m - 1
    <3>1. CrcBits <= m
      <4>1. CrcByte * RegBytes <= (2 * RegBytes) * CrcByte BY <1>1, SMT
      <4>2. QED BY <1>2, <4>1 DEF CrcBits, Chunk
    <3>2. QED BY <3>1, PolyType DEF Ones
  <2>2. x \subseteq 0 .. m - 1
    <3>1. LowBits(ShiftRight(s.ones, p), m) \subseteq 0 .. m - 1 BY DEF LowBits
    <3>2. QED BY <1>4, <1>5, <2>1, <3>1 DEF Xor
  <2>3. QED BY <2>2 DEF LowBits
<1>21. p + m = (first + Chunk) * CrcByte BY <1>1, <1>2, SMT
<1>22. QED BY <1>2, <1>3, <1>13, <1>18, <1>19, <1>20, <1>21

(***************************************************************************)
(* For every string of whole bytes, the CRC by tables is the serial one.   *)
(***************************************************************************)
LEMMA TablesSerial ==
  ASSUME NEW s, IsString(s), NEW len \in Nat, s.bits = len * CrcByte
  PROVE  crc32(s) = BitSerial(s)
<1>1. CrcByte \in Nat /\ CrcByte > 0 /\ Chunk \in Nat /\ Chunk > 0 /\ s.ones \in SUBSET Nat
  BY PolyType, StringBits DEF Chunk
<1>2. ByteLen(s) = len
  <2>1. (len * CrcByte) \div CrcByte = len BY <1>1, SMT
  <2>2. QED BY <2>1 DEF ByteLen
<1> DEFINE bulk == ByteLen(s) \div Chunk
           last == bulk + (ByteLen(s) % Chunk)
           V == SUBSET Ones
           \* how many bytes are in after n turns of the two loops
           Bytes(n) == IF n <= bulk THEN n * Chunk ELSE bulk * Chunk + (n - bulk)
           next(n, v) == IF n <= bulk THEN UpdateChunk(v, s, (n - 1) * Chunk)
                         ELSE UpdateByte(v, ByteAt(s, bulk * Chunk + (n - bulk) - 1))
<1>3. bulk \in Nat /\ last \in Nat /\ bulk <= last /\ bulk * Chunk + (last - bulk) = len
  <2>1. len \div Chunk \in Nat /\ len % Chunk \in Nat
        /\ len = Chunk * (len \div Chunk) + (len % Chunk)
    BY <1>1, SMT
  <2>2. PICK q \in Nat, r \in Nat : q = len \div Chunk /\ r = len % Chunk BY <2>1
  <2>3. bulk = q /\ last = q + r BY <1>2, <2>2
  <2>4. q * Chunk = Chunk * q BY <1>1
  <2>5. (q + r) - q = r BY <2>2
  <2>6. len = Chunk * q + r BY <2>1, <2>2
  <2>7. QED BY <2>2, <2>3, <2>4, <2>5, <2>6
<1> HIDE DEF bulk, last
<1>4. ASSUME NEW n \in Nat
      PROVE  /\ Bytes(n) \in Nat
             /\ next(n + 1, RegisterAt(s.ones, Bytes(n) * CrcByte))
                  = RegisterAt(s.ones, Bytes(n + 1) * CrcByte)
  <2>1. CASE n + 1 <= bulk
    <3>1. n <= bulk /\ (n + 1) - 1 = n BY <1>3, <2>1
    <3>2. PICK first \in Nat : first = n * Chunk BY <1>1, SMT
    <3>3. Bytes(n) = first BY <3>1, <3>2
    <3>4. Bytes(n + 1) = first + Chunk
      <4>1. (n + 1) * Chunk = n * Chunk + Chunk BY <1>1, SMT
      <4>2. Bytes(n + 1) = (n + 1) * Chunk BY <2>1
      <4>3. QED BY <3>2, <4>1, <4>2
    <3>5. next(n + 1, RegisterAt(s.ones, Bytes(n) * CrcByte))
            = UpdateChunk(RegisterAt(s.ones, first * CrcByte), s, first)
      BY <2>1, <3>1, <3>2, <3>3
    <3> HIDE DEF next, Bytes
    <3>6. QED BY <3>2, <3>3, <3>4, <3>5, ChunkFeeds
  <2>2. CASE ~(n + 1 <= bulk)
    <3>1. PICK i \in Nat : i = bulk * Chunk + (n - bulk)
      <4>1. bulk * Chunk \in Nat /\ n - bulk \in Nat BY <1>1, <1>3, <2>2, SMT
      <4>2. QED BY <4>1
    <3>2. Bytes(n) = i
      <4>1. n <= bulk => n = bulk BY <1>3, <2>2
      <4>2. n = bulk => n * Chunk = i BY <1>1, <1>3, <3>1, SMT
      <4>3. QED BY <3>1, <4>1, <4>2
    <3>3. bulk * Chunk + ((n + 1) - bulk) = i + 1
      <4>1. PICK k \in Nat : k = bulk * Chunk BY <1>1, <1>3, SMT
      <4>2. QED BY <1>3, <3>1, <4>1
    <3>4. Bytes(n + 1) = i + 1 BY <2>2, <3>3
    <3>5. next(n + 1, RegisterAt(s.ones, Bytes(n) * CrcByte))
            = UpdateByte(RegisterAt(s.ones, i * CrcByte), ByteAt(s, i))
      <4>1. PICK k : k = bulk * Chunk + (((n + 1) - bulk) - 1) OBVIOUS
      <4>2. k = i
        <5>1. PICK c \in Nat : c = bulk * Chunk BY <1>1, <1>3, SMT
        <5>2. QED BY <1>3, <3>1, <4>1, <5>1
      <4>3. next(n + 1, RegisterAt(s.ones, Bytes(n) * CrcByte))
              = UpdateByte(RegisterAt(s.ones, Bytes(n) * CrcByte), ByteAt(s, k))
        BY <2>2, <4>1, Zenon
      <4> HIDE DEF next, Bytes
      <4>4. QED BY <3>2, <4>2, <4>3
    <3> HIDE DEF next, Bytes
    <3>6. QED BY <3>1, <3>2, <3>4, <3>5, ByteFeeds
  <2>3. QED BY <2>1, <2>2
<1>5. Bytes(0) = 0
  <2>1. 0 <= bulk /\ 0 * Chunk = 0 BY <1>1, <1>3
  <2>2. QED BY <2>1
<1>6. Bytes(last) = len
  <2>1. CASE last <= bulk
    <3>1. last = bulk BY <1>3, <2>1
    <3>2. QED BY <1>1, <1>3, <2>1, <3>1, SMT
  <2>2. CASE ~(last <= bulk) BY <1>3, <2>2
  <2>3. QED BY <2>1, <2>2
<1> DEFINE g == [n \in 0 .. last |-> RegisterAt(s.ones, Bytes(n) * CrcByte)]
<1>7. RegisterAt(s.ones, Bytes(0) * CrcByte) = Ones
  <2>1. 0 * CrcByte = 0 BY <1>1, SMT
  <2>2. QED BY <1>1, <1>5, <2>1, RegisterStart
<1>8. ASSUME NEW n \in 0 .. last PROVE g[n] = IF n = 0 THEN Ones ELSE next(n, g[n - 1])
  <2>1. CASE n = 0 BY <1>7, <2>1
  <2>2. CASE n # 0
    <3>1. n - 1 \in 0 .. last /\ n - 1 \in Nat /\ (n - 1) + 1 = n BY <1>3, <2>2
    <3>2. PICK m \in Nat : m = n - 1 BY <3>1
    <3>3. g[m] = RegisterAt(s.ones, Bytes(m) * CrcByte) BY <3>1, <3>2
    <3>4. next(m + 1, RegisterAt(s.ones, Bytes(m) * CrcByte))
            = RegisterAt(s.ones, Bytes(m + 1) * CrcByte)
      BY <1>4
    <3>5. g[n] = RegisterAt(s.ones, Bytes(n) * CrcByte) OBVIOUS
    <3>6. m + 1 = n BY <3>1, <3>2
    <3> HIDE DEF next, Bytes, g
    <3>7. QED BY <2>2, <3>2, <3>3, <3>4, <3>5, <3>6
  <2>3. QED BY <2>1, <2>2
<1>9. \E f : f = [n \in 0 .. last |-> IF n = 0 THEN Ones ELSE next(n, f[n - 1])]
  <2>1. g = [n \in 0 .. last |-> IF n = 0 THEN Ones ELSE next(n, g[n - 1])]
    <3> HIDE DEF next
    <3>1. QED BY <1>8
  <2> HIDE DEF next, g
  <2>2. QED BY <2>1
<1>10. PICK f : /\ f = [n \in 0 .. last |-> IF n = 0 THEN Ones ELSE next(n, f[n - 1])]
                /\ Update(s) = f[last]
  BY <1>9, Zenon DEF Update, bulk, last
<1>11. \A n \in 0 .. last : f[n] = IF n = 0 THEN Ones ELSE next(n, f[n - 1])
  BY <1>10, Zenon
<1> DEFINE T == {n \in Nat : n <= last => f[n] = RegisterAt(s.ones, Bytes(n) * CrcByte)}
<1>12. 0 \in T
  <2>1. 0 \in 0 .. last BY <1>3
  <2>2. f[0] = Ones BY <1>11, <2>1, Zenon
  <2> HIDE DEF Bytes
  <2>3. QED BY <1>7, <2>2
<1>13. ASSUME NEW n \in Nat, n \in T PROVE n + 1 \in T
  <2> SUFFICES ASSUME n + 1 <= last
               PROVE  f[n + 1] = RegisterAt(s.ones, Bytes(n + 1) * CrcByte)
    OBVIOUS
  <2>1. n + 1 \in 0 .. last /\ n + 1 # 0 /\ (n + 1) - 1 = n /\ n <= last BY <1>3
  <2>2. f[n] = RegisterAt(s.ones, Bytes(n) * CrcByte)
    <3> HIDE DEF Bytes
    <3>1. QED BY <1>13, <2>1
  <2>3. next(n + 1, RegisterAt(s.ones, Bytes(n) * CrcByte))
          = RegisterAt(s.ones, Bytes(n + 1) * CrcByte)
    BY <1>4
  <2> HIDE DEF next, Bytes
  <2>4. f[n + 1] = next(n + 1, f[(n + 1) - 1]) BY <1>11, <2>1, Zenon
  <2>5. QED BY <2>1, <2>2, <2>3, <2>4
<1>14. \A n \in Nat : n \in T
  <2> HIDE DEF T
  <2>1. QED BY <1>12, <1>13, SetInduction
<1>15. f[last] = RegisterAt(s.ones, len * CrcByte)
  <2> HIDE DEF Bytes
  <2>1. QED BY <1>3, <1>6, <1>14
<1>16. crc32(s) = Xor(RegisterAt(s.ones, s.bits), Ones) BY <1>10, <1>15 DEF crc32
<1>17. QED BY <1>16, SerialWalks

\* The register behind a string of whole bytes, and the CRC made from it.
LEMMA CrcOf ==
  ASSUME NEW s, IsString(s), NEW len \in Nat, s.bits = len * CrcByte
  PROVE  /\ crc32(s) = Xor(Steps[s.bits][Xor(Ones, s.ones)], Ones)
         /\ crc32(s) \in SUBSET Ones
<1>1. s.bits \in Nat /\ s.ones \in SUBSET Nat /\ LowBits(s.ones, s.bits) = s.ones
  BY StringBits
<1>2. crc32(s) = Xor(RegisterAt(s.ones, s.bits), Ones) BY TablesSerial, SerialWalks
<1>3. RegisterAt(s.ones, s.bits) = Steps[s.bits][Xor(Ones, s.ones)] BY <1>1 DEF RegisterAt
<1>4. RegisterAt(s.ones, s.bits) \in SUBSET Ones BY <1>1, RegisterStays
<1>5. crc32(s) \in SUBSET Ones BY <1>2, <1>4 DEF Xor
<1>6. QED BY <1>2, <1>3, <1>5

\* A string with its CRC behind it: its body and its CRC.
Joined(ones, c, n) == ones \cup ShiftLeft(c, n)

LEMMA JoinedParts ==
  ASSUME NEW n \in Nat, NEW ones \in SUBSET (0 .. n - 1), NEW c \in SUBSET Nat
  PROVE  /\ Joined(ones, c, n) \in SUBSET Nat
         /\ LowBits(Joined(ones, c, n), n) = ones
         /\ ShiftRight(Joined(ones, c, n), n) = c
<1>1. PICK f : f = Joined(ones, c, n) /\ f = ones \cup ShiftLeft(c, n) BY DEF Joined
<1>2. \A x : x \in ShiftLeft(c, n) <=> x \in Nat /\ x - n \in c BY ShiftLeftBits
<1>3. f \in SUBSET Nat
  <2>1. ones \in SUBSET Nat OBVIOUS
  <2>2. QED BY <1>1, <2>1, MovedType
<1>4. LowBits(f, n) = ones
  <2>1. \A x : x \in LowBits(f, n) <=> x \in f /\ x < n BY <1>3, LowBitsBits
  <2>2. ASSUME NEW x \in ShiftLeft(c, n) PROVE ~(x < n)
    <3>1. x \in Nat /\ x - n \in Nat BY <1>2
    <3>2. QED BY <3>1
  <2>3. \A x \in ones : x < n OBVIOUS
  <2>4. QED BY <1>1, <2>1, <2>2, <2>3
<1>5. ShiftRight(f, n) = c
  <2>1. \A x : x \in ShiftRight(f, n) <=> x \in Nat /\ x + n \in f BY <1>3, ShiftRightBits
  <2>2. \A x \in Nat : ~(x + n \in ones)
    <3>1. \A x \in Nat : ~(x + n \in 0 .. n - 1) OBVIOUS
    <3>2. QED BY <3>1
  <2>3. \A x \in Nat : x + n \in Nat /\ (x + n) - n = x OBVIOUS
  <2>4. QED BY <1>1, <1>2, <2>1, <2>2, <2>3
<1>6. QED BY <1>1, <1>3, <1>4, <1>5

\* The damage alone decides: what the register makes of it must be nothing.
LEMMA AcceptsDamage ==
  ASSUME NEW s, IsString(s), NEW len \in Nat, s.bits = len * CrcByte, NEW e \in SUBSET Nat,
         NEW w, w = Xor(s.ones \cup ShiftLeft(crc32(s), s.bits), e)
  PROVE  ShiftRight(w, s.bits) = crc32([bits |-> s.bits, ones |-> LowBits(w, s.bits)])
           <=> Steps[s.bits][e] = {}
<1>1. PICK n, o, c : n = s.bits /\ o = s.ones /\ c = crc32(s) OBVIOUS
<1>2. /\ n \in Nat /\ o \subseteq 0 .. n - 1 /\ o \in SUBSET Nat
      /\ c = Xor(Steps[n][Xor(Ones, o)], Ones) /\ c \in SUBSET Nat
  <2>1. n \in Nat /\ o \subseteq 0 .. n - 1 BY <1>1 DEF IsString
  <2>2. c = Xor(Steps[n][Xor(Ones, o)], Ones) /\ c \in SUBSET Ones BY <1>1, CrcOf
  <2>3. o \in SUBSET Nat BY <2>1
  <2>4. c \in SUBSET Nat BY <2>2, PolyType
  <2>5. QED BY <2>1, <2>2, <2>3, <2>4
<1>3. PICK f : f = Joined(o, c, n) /\ w = Xor(f, e) BY <1>1 DEF Joined
<1>4. PICK low, high : low = LowBits(e, n) /\ high = ShiftRight(e, n) OBVIOUS
<1>5. low \in SUBSET Nat /\ high \in SUBSET Nat BY <1>2, <1>4, MovedType
<1>6. LowBits(w, n) = Xor(o, low) /\ ShiftRight(w, n) = Xor(c, high)
  <2>1. n \in Nat /\ o \in SUBSET (0 .. n - 1) /\ c \in SUBSET Nat BY <1>2
  <2>2. f \in SUBSET Nat /\ LowBits(f, n) = o /\ ShiftRight(f, n) = c
    BY <1>3, <2>1, JoinedParts
  <2>3. LowBits(Xor(f, e), n) = Xor(o, low) BY <1>4, <2>2, LowBitsXor
  <2>4. ShiftRight(Xor(f, e), n) = Xor(c, high) BY <1>4, <2>1, <2>2, ShiftRightXor
  <2>5. QED BY <1>3, <2>3, <2>4
<1>7. PICK t : t = [bits |-> n, ones |-> LowBits(w, n)] OBVIOUS
<1>8. t.bits = n /\ t.ones = Xor(o, low) /\ IsString(t)
  <2>1. LowBits(w, n) \subseteq 0 .. n - 1 BY DEF LowBits
  <2>2. QED BY <1>2, <1>6, <1>7, <2>1 DEF IsString
<1>9. crc32(t) = Xor(Steps[n][Xor(Ones, Xor(o, low))], Ones)
  <2>1. t.bits = len * CrcByte BY <1>1, <1>8
  <2>2. QED BY <1>8, <2>1, CrcOf
<1>10. PICK r, d : r = Steps[n][Xor(Ones, o)] /\ d = Steps[n][low] OBVIOUS
<1>11. Steps[n][Xor(Ones, Xor(o, low))] = Xor(r, d)
  <2>1. Ones \in SUBSET Nat BY PolyType
  <2>2. Xor(Ones, o) \in SUBSET Nat BY <1>2, <2>1 DEF Xor
  <2>3. Xor(Ones, Xor(o, low)) = Xor(Xor(Ones, o), low) BY XorLaws
  <2>4. QED BY <1>2, <1>5, <1>10, <2>2, <2>3, StepsLinear
<1>12. Xor(r, Ones) = c /\ crc32(t) = Xor(Xor(r, d), Ones) BY <1>2, <1>9, <1>10, <1>11
<1>13. Steps[n][e] = Xor(d, high) BY <1>2, <1>4, <1>10, StepsSplit
<1>14. Xor(c, high) = Xor(Xor(r, d), Ones) <=> Xor(d, high) = {}
  BY <1>12 DEF Xor
<1>15. QED BY <1>1, <1>3, <1>6, <1>7, <1>12, <1>13, <1>14

\* A burst that fits the register leaves something in it.
LEMMA BurstLeaves ==
  ASSUME NEW pattern \in SUBSET Ones, pattern # {}, NEW p \in Nat, NEW n \in Nat
  PROVE  Steps[n][ShiftLeft(pattern, p)] # {}
<1>1. PICK e : e = ShiftLeft(pattern, p) OBVIOUS
<1>2. pattern \in SUBSET Nat /\ e \in SUBSET Nat
  <2>1. pattern \in SUBSET Nat BY PolyType
  <2>2. QED BY <1>1, <2>1, MovedType
<1>3. CASE p <= n
  <2>1. PICK k \in Nat : n = p + k
    <3>1. n - p \in Nat /\ n = p + (n - p) BY <1>3
    <3>2. QED BY <3>1
  <2>2. Steps[p + k][e] = Steps[k][Steps[p][e]] BY <1>2, StepsAdd
  <2>3. Steps[p][e] = pattern BY <1>1, <1>2, StepsBack
  <2>4. Steps[k][pattern] # {} BY StepsRegister
  <2>5. QED BY <1>1, <2>1, <2>2, <2>3, <2>4
<1>4. CASE ~(p <= n)
  <2>1. \A x \in e : x >= n
    <3>1. ASSUME NEW x \in e PROVE x >= n
      <4>1. x \in Nat /\ x - p \in Nat BY <1>1, <1>2, ShiftLeftBits
      <4>2. QED BY <1>4, <4>1
    <3>2. QED BY <3>1
  <2>2. Steps[n][e] = ShiftRight(e, n) BY <1>2, <2>1, StepsMove
  <2>3. PICK i \in Nat : i \in pattern BY <1>2
  <2>4. i + p \in e /\ i + p >= n BY <1>1, <1>4, <2>3 DEF ShiftLeft
  <2>5. (i + p) - n \in ShiftRight(e, n) BY <2>4 DEF ShiftRight
  <2>6. QED BY <1>1, <2>2, <2>5
<1>5. QED BY <1>3, <1>4

-----------------------------------------------------------------------------
\* Bytes and half words.

LEMMA WidthsType ==
  /\ ByteBits \in Nat /\ ByteBits > 0 /\ HalfBytes \in Nat
  /\ Half \in Nat /\ Half > 0
  BY WriterAssumption, SMT DEF Half

Whole(n) == \E q \in Nat : n = q * ByteBits

LEMMA WholeMod ==
  ASSUME NEW n, Whole(n)
  PROVE  n \in Nat /\ n % ByteBits = 0
<1>1. PICK q \in Nat : n = q * ByteBits BY DEF Whole
<1>2. (q * ByteBits) % ByteBits = 0 /\ q * ByteBits \in Nat BY WidthsType, SMT
<1>3. QED BY <1>1, <1>2

LEMMA WholeGrows ==
  ASSUME NEW n, Whole(n)
  PROVE  Whole(n + Half) /\ Whole(n + ByteBits)
<1>1. PICK q \in Nat : n = q * ByteBits BY DEF Whole
<1>2. n + Half = (q + HalfBytes) * ByteBits BY <1>1, WidthsType, SMT DEF Half
<1>3. n + ByteBits = (q + 1) * ByteBits BY <1>1, WidthsType, SMT
<1>4. q + HalfBytes \in Nat /\ q + 1 \in Nat BY WidthsType
<1>5. QED BY <1>2, <1>3, <1>4 DEF Whole

\* What padding to the next byte makes of a length.
LEMMA PaddedLength ==
  ASSUME NEW n, Whole(n), NEW m \in Nat, m <= ByteBits
  PROVE  ((n + m + ByteBits - 1) \div ByteBits) * ByteBits = IF m = 0 THEN n ELSE n + ByteBits
<1>1. PICK q \in Nat : n = q * ByteBits BY DEF Whole
<1>2. CASE m = 0
  <2>1. (ByteBits * q + (ByteBits - 1)) \div ByteBits = q BY WidthsType, SMT
  <2>2. n + m + ByteBits - 1 = ByteBits * q + (ByteBits - 1) BY <1>1, <1>2, WidthsType, SMT
  <2>3. QED BY <1>1, <1>2, <2>1, <2>2
<1>3. CASE m > 0
  <2>1. (ByteBits * (q + 1) + (m - 1)) \div ByteBits = q + 1 BY <1>3, WidthsType, SMT
  <2>2. n + m + ByteBits - 1 = ByteBits * (q + 1) + (m - 1) BY <1>1, WidthsType, SMT
  <2>3. n + ByteBits = (q + 1) * ByteBits BY <1>1, WidthsType, SMT
  <2>4. QED BY <1>3, <2>1, <2>2, <2>3
<1>4. QED BY <1>2, <1>3

-----------------------------------------------------------------------------
(***************************************************************************)
(* The invariant.  Drained: whole bytes, and no one-bit above the bits in  *)
(* use.  Looping: the bits that put_unary's loop has put so far are ones,  *)
(* the last ones there are.                                                *)
(***************************************************************************)
Held == [bits |-> out.bits + nbits, ones |-> out.ones \cup ShiftLeft(cache, out.bits)]

Drained ==
  /\ Whole(out.bits) /\ out.ones \subseteq 0 .. out.bits - 1
  /\ nbits \in 0 .. Half - 1 /\ cache \subseteq 0 .. nbits - 1

Run == u - remaining

Looping ==
  /\ u \in Nat /\ remaining \in 0 .. u
  /\ pc \in {"open", "unary", "closing", "done"}
  /\ pc # "unary" => u = 0 /\ remaining = 0
  /\ pc = "unary" => /\ u \in Lengths /\ Run <= Held.bits
                     /\ Held.bits - Run .. Held.bits - 1 \subseteq Held.ones
  /\ pc = "done" => nbits = 0
  /\ pc = "closing" => nbits > 0

IInv == Drained /\ Looping

LEMMA HeldType ==
  ASSUME Drained
  PROVE  /\ out.bits \in Nat /\ nbits \in Nat /\ out.bits + nbits \in Nat
         /\ out.ones \in SUBSET Nat /\ cache \in SUBSET Nat
         /\ Held.bits = out.bits + nbits
         /\ Held.ones = out.ones \cup ShiftLeft(cache, out.bits)
         /\ Held.ones \subseteq 0 .. Held.bits - 1
<1>1. out.bits \in Nat BY WholeMod DEF Drained
<1>2. nbits \in Nat BY WidthsType DEF Drained
<1>3. ShiftLeft(cache, out.bits) \subseteq out.bits .. out.bits + nbits - 1
  BY <1>1, <1>2, ShiftBounds DEF Drained
<1>4. Held.bits = out.bits + nbits /\ Held.ones = out.ones \cup ShiftLeft(cache, out.bits)
  BY DEF Held
<1>5. Held.ones \subseteq 0 .. out.bits + nbits - 1
  BY <1>1, <1>2, <1>3, <1>4 DEF Drained
<1>6. out.ones \in SUBSET Nat /\ cache \in SUBSET Nat BY <1>1, <1>2 DEF Drained
<1>7. QED BY <1>1, <1>2, <1>4, <1>5, <1>6

\* What does not move the fields leaves the invariant's parts alone.
LEMMA HeldStays ==
  ASSUME Drained, out' = out, cache' = cache, nbits' = nbits
  PROVE  Drained' /\ Held' = Held
  BY DEF Drained, Held, Whole

\* put_bits: the k low bits of v behind what the writer holds.
LEMMA PutSound ==
  ASSUME Drained, NEW v, NEW k \in 0 .. Half, Put(v, k)
  PROVE  Drained' /\ Held' = Extend(Held, v, k)
<1> USE WidthsType
<1>1. PICK b \in Nat : b = out.bits BY HeldType
<1>2. PICK n \in Nat : n = nbits + k BY HeldType
<1>3. PICK low \in SUBSET Nat : low = LowBits(v, k)
  <2>1. LowBits(v, k) \subseteq Nat BY DEF LowBits
  <2>2. QED BY <2>1
<1>4. PICK c : c = cache \cup ShiftLeft(low, nbits) OBVIOUS
<1>5. /\ nbits \in Nat /\ nbits < Half /\ k \in Nat /\ k <= Half /\ n < Half + Half
      /\ c \subseteq 0 .. n - 1 /\ c \in SUBSET Nat
      /\ ShiftLeft(c, b) = ShiftLeft(cache, b) \cup ShiftLeft(low, b + nbits)
      /\ out.ones \subseteq 0 .. b - 1
  <2>1. nbits \in Nat /\ nbits < Half /\ k \in Nat /\ k <= Half /\ n < Half + Half
    BY <1>2, HeldType DEF Drained
  <2>2. low \subseteq 0 .. k - 1 BY <1>3 DEF LowBits
  <2>3. ShiftLeft(low, nbits) \subseteq nbits .. nbits + k - 1 BY <2>1, <2>2, ShiftBounds
  <2>4. cache \subseteq 0 .. nbits - 1 BY DEF Drained
  <2>5. cache \subseteq 0 .. n - 1 /\ ShiftLeft(low, nbits) \subseteq 0 .. n - 1
    BY <1>2, <2>1, <2>3, <2>4
  <2>6. c \subseteq 0 .. n - 1 BY <1>4, <2>5
  <2>7. ShiftLeft(ShiftLeft(low, nbits), b) = ShiftLeft(low, b + nbits)
    BY <2>1, ShiftTwice
  <2>8. ShiftLeft(c, b) = ShiftLeft(cache, b) \cup ShiftLeft(low, b + nbits)
    BY <1>4, <2>7, ShiftUnion
  <2>9. QED BY <1>1, <2>1, <2>6, <2>8 DEF Drained
<1>6. Extend(Held, v, k) = [bits |-> b + n, ones |-> out.ones \cup ShiftLeft(c, b)]
  <2>1. (b + nbits) + k = b + n BY <1>2, <1>5
  <2>2. Extend(Held, v, k) =
          [bits |-> (b + nbits) + k,
           ones |-> (out.ones \cup ShiftLeft(cache, b)) \cup ShiftLeft(low, b + nbits)]
    BY <1>1, <1>3, HeldType DEF Extend
  <2>3. QED BY <1>5, <2>1, <2>2
<1>7. CASE n >= Half
  <2>1. Flushed(c, n) BY <1>2, <1>3, <1>4, <1>7 DEF Put, Masked
  <2>2. PICK o : o = out' OBVIOUS
  <2>3. /\ o.bits = b + Half /\ o.ones = out.ones \cup ShiftLeft(LowBits(c, Half), b)
        /\ cache' = ShiftRight(c, Half) /\ nbits' = n - Half
    BY <1>1, <2>1, <2>2 DEF Flushed, Extend
  <2>4. Whole(b + Half) BY <1>1, WholeGrows DEF Drained
  <2>5. o.ones \subseteq 0 .. b + Half - 1
    <3>1. LowBits(c, Half) \subseteq 0 .. Half - 1 BY DEF LowBits
    <3>2. ShiftLeft(LowBits(c, Half), b) \subseteq b .. b + Half - 1
      BY <3>1, ShiftBounds
    <3>3. ShiftLeft(LowBits(c, Half), b) \subseteq 0 .. b + Half - 1
      BY <3>2
    <3>4. out.ones \subseteq 0 .. b + Half - 1 BY <1>5
    <3>5. QED BY <2>3, <3>3, <3>4
  <2>6. cache' \subseteq 0 .. nbits' - 1 BY <1>5, <2>3, ShiftRightBounds
  <2>7. nbits' \in 0 .. Half - 1 BY <1>5, <1>7, <2>3
  <2>8. Drained' BY <2>2, <2>3, <2>4, <2>5, <2>6, <2>7 DEF Drained, Whole
  <2>9. o.bits + nbits' = b + n BY <1>5, <2>3
  <2>10. ShiftLeft(LowBits(c, Half), b) \cup ShiftLeft(ShiftRight(c, Half), b + Half) = ShiftLeft(c, b)
    <3>1. c \in SUBSET Nat /\ Half \in Nat /\ b \in Nat BY <1>5
    <3>2. QED BY <3>1, ShiftSplit, Zenon
  <2>11. o.ones \cup ShiftLeft(cache', o.bits) = out.ones \cup ShiftLeft(c, b)
    BY <2>3, <2>10
  <2>12. Held' = [bits |-> b + n, ones |-> out.ones \cup ShiftLeft(c, b)]
    BY <2>2, <2>9, <2>11 DEF Held, ShiftLeft
  <2>13. QED BY <1>6, <2>8, <2>12
<1>8. CASE ~(n >= Half)
  <2>1. out' = out /\ cache' = c /\ nbits' = n BY <1>2, <1>3, <1>4, <1>8 DEF Put, Masked
  <2>2. Drained'
    <3>1. n \in 0 .. Half - 1 /\ c \subseteq 0 .. n - 1 BY <1>5, <1>8
    <3>2. Whole(out.bits) /\ out.ones \subseteq 0 .. out.bits - 1 BY <1>5 DEF Drained
    <3>3. QED BY <2>1, <3>1, <3>2 DEF Drained, Whole
  <2>3. Held' = [bits |-> b + n, ones |-> out.ones \cup ShiftLeft(c, b)]
    BY <1>1, <2>1 DEF Held, ShiftLeft
  <2>4. QED BY <1>6, <2>2, <2>3
<1>9. QED BY <1>7, <1>8

-----------------------------------------------------------------------------
\* What counts as written, in and out of put_unary's loop.

LEMMA LowOfAll ==
  ASSUME NEW S, NEW n, S \subseteq 0 .. n - 1
  PROVE  LowBits(S, n) = S
  BY DEF LowBits

LEMMA ExtendType ==
  ASSUME NEW s, NEW w, NEW n \in Nat, s.bits \in Nat, s.ones \subseteq 0 .. s.bits - 1
  PROVE  /\ Extend(s, w, n).bits = s.bits + n
         /\ Extend(s, w, n).ones = s.ones \cup ShiftLeft(LowBits(w, n), s.bits)
         /\ ShiftLeft(LowBits(w, n), s.bits) \subseteq s.bits .. s.bits + n - 1
         /\ Extend(s, w, n).ones \subseteq 0 .. s.bits + n - 1
<1>1. LowBits(w, n) \subseteq 0 .. n - 1 BY DEF LowBits
<1>2. ShiftLeft(LowBits(w, n), s.bits) \subseteq s.bits .. s.bits + n - 1 BY <1>1, ShiftBounds
<1>3. /\ Extend(s, w, n).bits = s.bits + n
      /\ Extend(s, w, n).ones = s.ones \cup ShiftLeft(LowBits(w, n), s.bits)
  BY DEF Extend
<1>4. s.ones \subseteq 0 .. s.bits + n - 1 OBVIOUS
<1>5. ShiftLeft(LowBits(w, n), s.bits) \subseteq 0 .. s.bits + n - 1 BY <1>2
<1>6. QED BY <1>2, <1>3, <1>4, <1>5

LEMMA WrittenOpen ==
  ASSUME Drained, pc # "unary"
  PROVE  Written = Held
<1>1. Held.bits - 0 = Held.bits BY HeldType
<1>2. LowBits(Held.ones, Held.bits) = Held.ones BY HeldType, LowOfAll
<1>3. Written = [bits |-> Held.bits - 0, ones |-> LowBits(Held.ones, Held.bits - 0)]
  BY DEF Written, Held
<1>4. QED BY <1>1, <1>2, <1>3 DEF Held

LEMMA WrittenLooping ==
  ASSUME pc = "unary"
  PROVE  Written = [bits |-> Held.bits - Run, ones |-> LowBits(Held.ones, Held.bits - Run)]
  BY DEF Written, Held, Run

\* The same of the next state, of which less is known.
LEMMA WrittenOpenNext ==
  ASSUME NEW h, Held' = h, h.bits \in Nat, h.ones \subseteq 0 .. h.bits - 1, pc' # "unary"
  PROVE  Written' = h
<1>1. Written' = [bits |-> h.bits - 0, ones |-> LowBits(h.ones, h.bits - 0)]
  BY DEF Written, Held
<1>2. h.bits - 0 = h.bits /\ LowBits(h.ones, h.bits) = h.ones BY LowOfAll
<1>3. h = [bits |-> h.bits, ones |-> h.ones] BY DEF Held
<1>4. QED BY <1>1, <1>2, <1>3

LEMMA WrittenLoopingNext ==
  ASSUME pc' = "unary"
  PROVE  Written' = [bits |-> Held'.bits - Run', ones |-> LowBits(Held'.ones, Held'.bits - Run')]
  BY DEF Written, Held, Run

-----------------------------------------------------------------------------
(***************************************************************************)
(* Each step keeps the invariant, and is a step of the promise or a        *)
(* stutter.                                                                *)
(***************************************************************************)
Step == IInv' /\ [Sink!Next]_(Sink!sinkVars)

LEMMA Stutters ==
  ASSUME IInv', Written' = Written, calls' = calls, (pc' = "done") = (pc = "done")
  PROVE  Step
  BY DEF Step, Sink!sinkVars

LEMMA PutBitsStep ==
  ASSUME IInv, NEW v \in Values, NEW k \in 0 .. Half, PutBits(v, k)
  PROVE  Step
<1>1. Drained' /\ Held' = Extend(Held, v, k) BY PutSound DEF PutBits, IInv
<1>2. pc = "open" /\ pc' = "open" /\ u' = u /\ remaining' = remaining BY DEF PutBits
<1>3. Looping' BY <1>2 DEF IInv, Looping
<1>4. Written = Held BY <1>2, WrittenOpen DEF IInv
<1>5. Written' = Extend(Held, v, k)
  <2>1. k \in Nat /\ Held.bits \in Nat /\ Held.ones \subseteq 0 .. Held.bits - 1
    BY WidthsType, HeldType DEF IInv
  <2>2. PICK h : h = Extend(Held, v, k) OBVIOUS
  <2>3. h.bits \in Nat /\ h.ones \subseteq 0 .. h.bits - 1 BY <2>1, <2>2, ExtendType
  <2>4. QED BY <1>1, <1>2, <2>2, <2>3, WrittenOpenNext
<1>6. Sink!PutBits(v, k)
  BY <1>2, <1>4, <1>5, SinkExtends DEF Sink!PutBits, PutBits, Sink!BitsCall, BitsCall
<1>7. QED BY <1>1, <1>3, <1>6 DEF Step, IInv, Sink!Next

\* A short unary code is one put; a long one has not begun.
LEMMA PutUnaryStep ==
  ASSUME IInv, NEW n \in Lengths, PutUnary(n)
  PROVE  Step
<1>1. n \in Nat BY WriterAssumption
<1>2. pc = "open" BY DEF PutUnary
<1>3. Written = Held BY <1>2, WrittenOpen DEF IInv
<1>4. CASE n < Half
  <2>1. Put(0 .. n - 1, n + 1) /\ n + 1 \in 0 .. Half BY <1>1, <1>4, WidthsType DEF PutUnary
  <2>2. Drained' /\ Held' = Extend(Held, 0 .. n - 1, n + 1) BY <2>1, PutSound DEF IInv
  <2>3. /\ pc' = "open" /\ u' = u /\ remaining' = remaining /\ calls' = Append(calls, UnaryCall(n))
    BY <1>2, <1>4 DEF PutUnary
  <2>4. Looping' BY <1>2, <2>3 DEF IInv, Looping
  <2>5. Written' = Extend(Held, 0 .. n - 1, n + 1)
    <3>1. n + 1 \in Nat /\ Held.bits \in Nat /\ Held.ones \subseteq 0 .. Held.bits - 1
      BY <1>1, HeldType DEF IInv
    <3>2. PICK h : h = Extend(Held, 0 .. n - 1, n + 1) OBVIOUS
    <3>3. h.bits \in Nat /\ h.ones \subseteq 0 .. h.bits - 1 BY <3>1, <3>2, ExtendType
    <3>4. QED BY <2>2, <2>3, <3>2, <3>3, WrittenOpenNext
  <2>6. Sink!PutUnary(n)
    BY <1>2, <1>3, <2>3, <2>5, SinkExtends DEF Sink!PutUnary, Sink!UnaryCall, UnaryCall
  <2>7. QED BY <2>2, <2>4, <2>6 DEF Step, IInv, Sink!Next
<1>5. CASE ~(n < Half)
  <2>1. /\ pc' = "unary" /\ u' = n /\ remaining' = n
        /\ out' = out /\ cache' = cache /\ nbits' = nbits /\ calls' = calls
    BY <1>5 DEF PutUnary
  <2>2. Drained' /\ Held' = Held BY <2>1, HeldStays DEF IInv
  <2>3. Held.bits \in Nat /\ Held.ones \subseteq 0 .. Held.bits - 1 BY HeldType DEF IInv
  <2>4. Run' = 0 BY <1>1, <2>1 DEF Run
  <2>5. Looping' BY <1>1, <2>1, <2>2, <2>3, <2>4 DEF Looping
  <2>6. Written' = Held
    <3>1. Written' = [bits |-> Held.bits - 0, ones |-> LowBits(Held.ones, Held.bits - 0)]
      BY <2>1, <2>2, <2>4, WrittenLoopingNext
    <3>2. Held.bits - 0 = Held.bits /\ LowBits(Held.ones, Held.bits) = Held.ones
      BY <2>3, LowOfAll
    <3>3. QED BY <3>1, <3>2 DEF Held
  <2>7. QED BY <1>2, <1>3, <2>1, <2>2, <2>5, <2>6, Stutters DEF IInv
<1>6. QED BY <1>4, <1>5

\* What a loop has put so far, as facts to cite.
LEMMA LoopFacts ==
  ASSUME IInv, pc = "unary"
  PROVE  /\ u \in Nat /\ u \in Lengths /\ remaining \in Nat /\ remaining <= u
         /\ Held.bits \in Nat /\ Held.ones \subseteq 0 .. Held.bits - 1
         /\ Run \in Nat /\ Run = u - remaining /\ Run <= Held.bits
         /\ Held.bits - Run .. Held.bits - 1 \subseteq Held.ones
  BY HeldType DEF IInv, Looping, Run

\* A turn of the loop: half a word of ones, of which nothing counts yet.
LEMMA TurnStep ==
  ASSUME IInv, UnaryTurn
  PROVE  Step
<1>1. pc = "unary" /\ pc' = "unary" /\ u' = u /\ remaining >= Half
      /\ remaining' = remaining - Half /\ calls' = calls
  BY DEF UnaryTurn
<1>2. PICK b, r, ones : b = Held.bits /\ r = Run /\ ones = Held.ones OBVIOUS
<1>3. /\ u \in Nat /\ u \in Lengths /\ remaining \in Nat /\ remaining <= u
      /\ b \in Nat /\ ones \subseteq 0 .. b - 1
      /\ r \in Nat /\ r = u - remaining /\ r <= b
      /\ b - r .. b - 1 \subseteq ones
  BY <1>1, <1>2, LoopFacts
<1>4. PICK h : h = Half BY DEF Half
<1>5. h \in Nat /\ h > 0 BY <1>4, WidthsType
<1>6. Put(0 .. h - 1, h) /\ h \in 0 .. Half BY <1>4, WidthsType DEF UnaryTurn
<1>7. Drained' /\ Held' = Extend(Held, 0 .. h - 1, h) BY <1>4, <1>6, PutSound DEF IInv
<1>8. LowBits(0 .. h - 1, h) = 0 .. h - 1 BY LowOfAll
<1>9. PICK new : new = Held' OBVIOUS
<1>10. new.bits = b + h /\ new.ones = ones \cup ShiftLeft(0 .. h - 1, b)
  BY <1>2, <1>7, <1>8, <1>9 DEF Extend
<1>11. ShiftLeft(0 .. h - 1, b) = b .. b + h - 1
  <2>1. ShiftLeft(0 .. h - 1, b) \subseteq b .. b + h - 1 BY <1>3, <1>5, ShiftBounds
  <2>2. ASSUME NEW x \in b .. b + h - 1 PROVE x \in ShiftLeft(0 .. h - 1, b)
    <3>1. x - b \in 0 .. h - 1 /\ x = (x - b) + b BY <1>3, <1>5
    <3>2. QED BY <3>1 DEF ShiftLeft
  <2>3. QED BY <2>1, <2>2
<1>12. Run' = r + h BY <1>1, <1>3, <1>4, <1>5 DEF Run
<1>13. new.bits - (r + h) = b - r BY <1>3, <1>5, <1>10
<1>14. Looping'
  <2>1. r + h <= new.bits BY <1>3, <1>5, <1>10
  <2>2. new.bits - (r + h) .. new.bits - 1 \subseteq new.ones
    BY <1>3, <1>5, <1>10, <1>11, <1>13
  <2>3. remaining' \in 0 .. u' BY <1>1, <1>3, <1>4, <1>5
  <2>4. QED BY <1>1, <1>3, <1>9, <1>12, <2>1, <2>2, <2>3 DEF Looping
<1>15. Written' = Written
  <2>1. Written' = [bits |-> new.bits - (r + h), ones |-> LowBits(new.ones, new.bits - (r + h))]
    BY <1>1, <1>9, <1>12, WrittenLoopingNext
  <2>2. Written = [bits |-> b - r, ones |-> LowBits(ones, b - r)]
    BY <1>1, <1>2, WrittenLooping
  <2>3. LowBits(new.ones, b - r) = LowBits(ones, b - r)
    BY <1>3, <1>5, <1>10, <1>11 DEF LowBits
  <2>4. QED BY <1>13, <2>1, <2>2, <2>3
<1>16. QED BY <1>1, <1>7, <1>14, <1>15, Stutters DEF IInv

\* The last ones and the zero: now the whole code is written.
LEMMA EndStep ==
  ASSUME IInv, UnaryEnd
  PROVE  Step
<1>1. pc = "unary" /\ pc' = "open" /\ u' = 0 /\ remaining' = 0 /\ remaining < Half
      /\ calls' = Append(calls, UnaryCall(u))
  BY DEF UnaryEnd
<1>2. PICK b, r, ones : b = Held.bits /\ r = Run /\ ones = Held.ones OBVIOUS
<1>3. /\ u \in Nat /\ u \in Lengths /\ remaining \in Nat /\ remaining <= u
      /\ b \in Nat /\ ones \subseteq 0 .. b - 1
      /\ r \in Nat /\ r = u - remaining /\ r <= b
      /\ b - r .. b - 1 \subseteq ones
  BY <1>1, <1>2, LoopFacts
<1>4. Put(0 .. remaining - 1, remaining + 1) /\ remaining + 1 \in 0 .. Half
  BY <1>1, <1>3, WidthsType DEF UnaryEnd
<1>5. Drained' /\ Held' = Extend(Held, 0 .. remaining - 1, remaining + 1)
  BY <1>4, PutSound DEF IInv
<1>6. Looping' BY <1>1 DEF Looping
<1>7. PICK m : m = remaining OBVIOUS
<1>8. LowBits(0 .. m - 1, m + 1) = 0 .. m - 1 BY <1>3, <1>7 DEF LowBits
<1>9. ShiftLeft(0 .. m - 1, b) = b .. b + m - 1
  <2>1. ShiftLeft(0 .. m - 1, b) \subseteq b .. b + m - 1 BY <1>3, <1>7, ShiftBounds
  <2>2. ASSUME NEW x \in b .. b + m - 1 PROVE x \in ShiftLeft(0 .. m - 1, b)
    <3>1. x - b \in 0 .. m - 1 /\ x = (x - b) + b BY <1>3, <1>7
    <3>2. QED BY <3>1 DEF ShiftLeft
  <2>3. QED BY <2>1, <2>2
<1>10. PICK new : new = Held' OBVIOUS
<1>11. new = [bits |-> b + m + 1, ones |-> ones \cup (b .. b + m - 1)]
  <2>1. b + (m + 1) = b + m + 1 BY <1>3, <1>7
  <2>2. QED BY <1>2, <1>5, <1>7, <1>8, <1>9, <1>10, <2>1 DEF Extend
<1>12. Written' = new
  <2>1. new.bits \in Nat /\ new.ones \subseteq 0 .. new.bits - 1 BY <1>3, <1>7, <1>11
  <2>2. QED BY <1>1, <1>10, <2>1, WrittenOpenNext
<1>13. Extend(Written, 0 .. u - 1, u + 1) = new
  <2>1. Written = [bits |-> b - r, ones |-> LowBits(ones, b - r)]
    BY <1>1, <1>2, WrittenLooping
  <2>2. LowBits(0 .. u - 1, u + 1) = 0 .. u - 1 BY <1>3 DEF LowBits
  <2>3. ShiftLeft(0 .. u - 1, b - r) = b - r .. b - r + u - 1
    <3>1. ShiftLeft(0 .. u - 1, b - r) \subseteq b - r .. b - r + u - 1
      <4>1. b - r \in Nat BY <1>3
      <4>2. QED BY <1>3, <4>1, ShiftBounds
    <3>2. ASSUME NEW x \in b - r .. b - r + u - 1 PROVE x \in ShiftLeft(0 .. u - 1, b - r)
      <4>1. x - (b - r) \in 0 .. u - 1 /\ x = (x - (b - r)) + (b - r) BY <1>3
      <4>2. QED BY <4>1 DEF ShiftLeft
    <3>3. QED BY <3>1, <3>2
  <2>4. b - r + u - 1 = b + m - 1 /\ b - r + (u + 1) = b + m + 1 BY <1>3, <1>7
  <2>5. LowBits(ones, b - r) \cup (b - r .. b + m - 1) = ones \cup (b .. b + m - 1)
    <3>1. ASSUME NEW x \in ones PROVE x \in LowBits(ones, b - r) \/ x \in b - r .. b + m - 1
      BY <1>3, <1>7 DEF LowBits
    <3>2. ASSUME NEW x \in b - r .. b + m - 1 PROVE x \in ones \/ x \in b .. b + m - 1
      BY <1>3, <1>7
    <3>3. ASSUME NEW x \in b .. b + m - 1 PROVE x \in b - r .. b + m - 1
      BY <1>3, <1>7
    <3>4. LowBits(ones, b - r) \subseteq ones BY DEF LowBits
    <3>5. QED BY <3>1, <3>2, <3>3, <3>4
  <2>6. QED BY <1>11, <2>1, <2>2, <2>3, <2>4, <2>5 DEF Extend
<1>14. Sink!PutUnary(u)
  BY <1>1, <1>12, <1>13, SinkExtends DEF Sink!PutUnary, Sink!UnaryCall, UnaryCall
<1>15. QED BY <1>3, <1>5, <1>6, <1>14 DEF Step, IInv, Sink!Next

\* What is left in the cache goes out byte by byte.
LEMMA FinishStep ==
  ASSUME IInv, Finish
  PROVE  Step
<1>1. /\ pc = "open" /\ out' = out /\ cache' = cache /\ nbits' = nbits
      /\ u' = u /\ remaining' = remaining
  BY DEF Finish
<1>2. Drained' /\ Held' = Held BY <1>1, HeldStays DEF IInv
<1>3. pc' \in {"done", "closing"} BY DEF Finish
<1>4. nbits \in Nat BY HeldType DEF IInv
<1>5. Looping'
  <2>1. u' = 0 /\ remaining' = 0 BY <1>1 DEF IInv, Looping
  <2>2. (pc' = "done" => nbits' = 0) /\ (pc' = "closing" => nbits' > 0)
    BY <1>1, <1>4 DEF Finish
  <2>3. QED BY <1>3, <2>1, <2>2 DEF Looping
<1>6. Written = Held BY <1>1, WrittenOpen DEF IInv
<1>7. Written' = Held
  <2>1. Held.bits \in Nat /\ Held.ones \subseteq 0 .. Held.bits - 1 BY HeldType DEF IInv
  <2>2. pc' # "unary" BY <1>3
  <2>3. PICK h : h = Held OBVIOUS
  <2>4. QED BY <1>2, <2>1, <2>2, <2>3, WrittenOpenNext
<1>8. CASE nbits = 0
  <2>1. pc' = "done" /\ calls' = Append(calls, FinishCall) BY <1>8 DEF Finish
  <2>2. Whole(out.bits) /\ Held.bits = out.bits
    BY <1>8, HeldType, WholeMod DEF IInv, Drained
  <2>3. ((Held.bits + ByteBits - 1) \div ByteBits) * ByteBits = Held.bits
    <3>1. 0 \in Nat /\ 0 <= ByteBits /\ out.bits + 0 = out.bits
      BY <2>2, WholeMod, WidthsType
    <3>2. QED BY <2>2, <3>1, PaddedLength
  <2>4. [Held EXCEPT !.bits = ((@ + ByteBits - 1) \div ByteBits) * ByteBits] = Held
    BY <2>3 DEF Held
  <2>5. Sink!Finish
    BY <1>1, <1>6, <1>7, <2>1, <2>4 DEF Sink!Finish, Sink!FinishCall, FinishCall
  <2>6. QED BY <1>2, <1>5, <2>5 DEF Step, IInv, Sink!Next
<1>9. CASE nbits # 0
  <2>1. pc' = "closing" /\ calls' = calls BY <1>9 DEF Finish
  <2>2. QED BY <1>1, <1>2, <1>5, <1>6, <1>7, <2>1, Stutters DEF IInv
<1>10. QED BY <1>8, <1>9

LEMMA DrainStep ==
  ASSUME IInv, DrainByte
  PROVE  Step
<1>1. /\ pc = "closing" /\ u' = u /\ remaining' = remaining
      /\ out' = Extend(out, cache, ByteBits) /\ cache' = ShiftRight(cache, ByteBits)
  BY DEF DrainByte
<1>2. u' = 0 /\ remaining' = 0 BY <1>1 DEF IInv, Looping
<1>3. PICK b, B, n : b = out.bits /\ B = ByteBits /\ n = nbits OBVIOUS
<1>4. /\ b \in Nat /\ B \in Nat /\ B > 0 /\ n \in Nat /\ n > 0 /\ n < Half /\ Half \in Nat
      /\ cache \in SUBSET Nat /\ cache \subseteq 0 .. n - 1 /\ out.ones \subseteq 0 .. b - 1
      /\ Whole(b)
  BY <1>1, <1>3, HeldType, WidthsType DEF IInv, Drained, Looping
<1>5. PICK o : o = out' OBVIOUS
<1>6. o.bits = b + B /\ o.ones = out.ones \cup ShiftLeft(LowBits(cache, B), b)
  BY <1>1, <1>3, <1>5 DEF Extend
<1>7. o.ones \subseteq 0 .. b + B - 1
  <2>1. LowBits(cache, B) \subseteq 0 .. B - 1 BY DEF LowBits
  <2>2. ShiftLeft(LowBits(cache, B), b) \subseteq b .. b + B - 1 BY <1>4, <2>1, ShiftBounds
  <2>3. ShiftLeft(LowBits(cache, B), b) \subseteq 0 .. b + B - 1 BY <1>4, <2>2
  <2>4. out.ones \subseteq 0 .. b + B - 1 BY <1>4
  <2>5. QED BY <1>6, <2>3, <2>4
<1>8. Whole(b + B) BY <1>3, <1>4, WholeGrows
<1>9. cache' \subseteq 0 .. n - B - 1 BY <1>1, <1>3, <1>4, ShiftRightBounds
<1>10. ShiftLeft(LowBits(cache, B), b) \cup ShiftLeft(ShiftRight(cache, B), b + B) = ShiftLeft(cache, b)
  BY <1>4, ShiftSplit
<1>11. o.ones \cup ShiftLeft(cache', o.bits) = out.ones \cup ShiftLeft(cache, b)
  BY <1>1, <1>3, <1>6, <1>10
<1>12. Held = [bits |-> b + n, ones |-> out.ones \cup ShiftLeft(cache, b)]
  BY <1>3 DEF Held
<1>13. Held.ones \subseteq 0 .. b + n - 1
  <2>1. Held.ones \subseteq 0 .. Held.bits - 1 /\ Held.bits = out.bits + nbits
    BY HeldType DEF IInv
  <2>2. Held.bits - 1 = b + n - 1 BY <1>3, <1>4, <2>1
  <2>3. QED BY <2>1, <2>2
<1>14. Written = Held BY <1>1, WrittenOpen DEF IInv
<1>15. CASE n > B
  <2>1. nbits' = n - B /\ pc' = "closing" /\ calls' = calls BY <1>1, <1>3, <1>4, <1>15 DEF DrainByte
  <2>2. Drained' BY <1>4, <1>5, <1>6, <1>7, <1>8, <1>9, <1>15, <2>1 DEF Drained, Whole
  <2>3. Looping' BY <1>2, <1>4, <1>15, <2>1 DEF Looping
  <2>4. o.bits + nbits' = b + n BY <1>4, <1>6, <2>1
  <2>5. Held' = Held BY <1>5, <1>11, <1>12, <2>4 DEF Held, ShiftLeft
  <2>6. Written' = Held
    <3>1. PICK h : h = Held OBVIOUS
    <3>2. h.bits \in Nat /\ h.ones \subseteq 0 .. h.bits - 1 BY <1>4, <1>12, <1>13, <3>1
    <3>3. QED BY <2>1, <2>5, <3>1, <3>2, WrittenOpenNext
  <2>7. QED BY <1>1, <1>14, <2>1, <2>2, <2>3, <2>6, Stutters DEF IInv
<1>16. CASE n <= B
  <2>1. nbits' = 0 /\ pc' = "done" /\ calls' = Append(calls, FinishCall)
    BY <1>1, <1>3, <1>16 DEF DrainByte
  <2>2. cache' = {} BY <1>4, <1>9, <1>16
  <2>3. 0 \in 0 .. Half - 1 BY <1>4
  <2>4. Drained'
    <3>1. Whole(o.bits) /\ o.ones \subseteq 0 .. o.bits - 1
      <4>1. Whole(o.bits) BY <1>6, <1>8, Zenon
      <4>2. o.bits = b + B BY <1>6, Zenon
      <4>3. o.ones \subseteq 0 .. o.bits - 1 BY <1>4, <1>7, <4>2, SMT
      <4>4. QED BY <4>1, <4>3
    <3>2. cache' \subseteq 0 .. nbits' - 1 /\ nbits' \in 0 .. Half - 1 BY <2>1, <2>2, <2>3
    <3>3. QED BY <1>5, <3>1, <3>2 DEF Drained, Whole
  <2>5. Looping' BY <1>2, <2>1 DEF Looping
  <2>6. PICK h : h = [bits |-> b + B, ones |-> out.ones \cup ShiftLeft(cache, b)] OBVIOUS
  <2>7. o.bits + nbits' = b + B BY <1>4, <1>6, <2>1
  <2>8. Held' = h BY <1>5, <1>11, <2>6, <2>7 DEF Held, ShiftLeft
  <2>9. Written' = h
    <3>1. h.bits \in Nat /\ h.ones \subseteq 0 .. h.bits - 1
      <4>1. h.bits = b + B /\ h.ones = Held.ones BY <1>12, <2>6
      <4>2. 0 .. b + n - 1 \subseteq 0 .. b + B - 1 BY <1>4, <1>16
      <4>3. QED BY <1>4, <1>13, <4>1, <4>2
    <3>2. QED BY <2>1, <2>8, <3>1, WrittenOpenNext
  <2>10. [Held EXCEPT !.bits = ((@ + ByteBits - 1) \div ByteBits) * ByteBits] = h
    <3>1. ((b + n + B - 1) \div B) * B = b + B BY <1>3, <1>4, <1>16, PaddedLength
    <3>2. Held.bits = b + n BY <1>12
    <3>3. ((Held.bits + ByteBits - 1) \div ByteBits) * ByteBits = b + B
      BY <1>3, <3>1, <3>2
    <3>4. PICK x : x = ((Held.bits + ByteBits - 1) \div ByteBits) * ByteBits OBVIOUS
    <3>5. [Held EXCEPT !.bits = x] = [bits |-> x, ones |-> Held.ones]
      BY SetBits, <1>12
    <3>6. Held.ones = out.ones \cup ShiftLeft(cache, b) BY <1>12
    <3>7. QED BY <2>6, <3>3, <3>4, <3>5, <3>6, Zenon
  <2>11. Sink!Finish
    BY <1>1, <1>14, <2>1, <2>9, <2>10 DEF Sink!Finish, Sink!FinishCall, FinishCall
  <2>12. QED BY <2>4, <2>5, <2>11 DEF Step, IInv, Sink!Next
<1>17. QED BY <1>4, <1>15, <1>16

-----------------------------------------------------------------------------
LEMMA Initially == WriterInit => IInv /\ Sink!Init
<1> SUFFICES ASSUME WriterInit PROVE IInv /\ Sink!Init OBVIOUS
<1>1. out.bits = 0 /\ out.ones = {} /\ cache = {} /\ nbits = 0 /\ u = 0 /\ remaining = 0
      /\ calls = <<>> /\ pc = "open"
  BY DEF WriterInit
<1>2. Whole(0) BY WidthsType, SMT DEF Whole
<1>3. Drained BY <1>1, <1>2, WidthsType DEF Drained
<1>4. Looping BY <1>1 DEF Looping
<1>5. Held = [bits |-> 0, ones |-> {}]
  <2>1. ShiftLeft(cache, out.bits) = {} BY <1>1 DEF ShiftLeft
  <2>2. out.bits + nbits = 0 BY <1>1
  <2>3. QED BY <1>1, <2>1, <2>2 DEF Held
<1>6. Written = [bits |-> 0, ones |-> {}] BY <1>1, <1>3, <1>5, WrittenOpen
<1>7. Sink!Init BY <1>1, <1>6 DEF Sink!Init
<1>8. QED BY <1>3, <1>4, <1>7 DEF IInv

LEMMA WriterStep == ASSUME IInv, WriterNext PROVE Step
<1>1. ASSUME NEW v \in Values, NEW k \in 0 .. Half, PutBits(v, k) PROVE Step BY <1>1, PutBitsStep
<1>2. ASSUME NEW n \in Lengths, PutUnary(n) PROVE Step BY <1>2, PutUnaryStep
<1>3. CASE UnaryTurn BY <1>3, TurnStep
<1>4. CASE UnaryEnd BY <1>4, EndStep
<1>5. CASE Finish BY <1>5, FinishStep
<1>6. CASE DrainByte BY <1>6, DrainStep
<1>7. QED BY <1>1, <1>2, <1>3, <1>4, <1>5, <1>6 DEF WriterNext

\* Sealing, damage and verification do not touch the writer.
LEMMA FrameStep == ASSUME IInv, [Next]_vars PROVE Step
<1>1. CASE Write BY <1>1, WriterStep DEF Write
<1>2. ASSUME UNCHANGED writerVars PROVE Step
  <2>1. /\ out' = out /\ cache' = cache /\ nbits' = nbits /\ u' = u
        /\ remaining' = remaining /\ calls' = calls /\ pc' = pc
    BY <1>2 DEF writerVars
  <2>2. Drained' /\ Held' = Held BY <2>1, HeldStays DEF IInv
  <2>3. Looping' BY <2>1, <2>2 DEF IInv, Looping, Run
  <2>4. Written' = Written BY <2>1 DEF Written, ShiftLeft, LowBits
  <2>5. QED BY <2>1, <2>2, <2>3, <2>4, Stutters DEF IInv
<1>3. QED BY <1>1, <1>2 DEF Next, vars, Seal, Verify, Burst

(***************************************************************************)
(* WriterTypeCorrect: there is room for a half word whenever a put begins, *)
(* and no one-bit above the bits in use (encoder.rs:296-342).              *)
(***************************************************************************)
THEOREM WriterTypeCorrect == Spec => []WriterTypeOK
<1>1. Init => IInv BY Initially DEF Init
<1>2. IInv /\ [Next]_vars => IInv' BY FrameStep DEF Step
<1>3. IInv => WriterTypeOK
  <2> SUFFICES ASSUME IInv PROVE WriterTypeOK OBVIOUS
  <2>1. out.bits \in Nat /\ out.bits % ByteBits = 0 BY WholeMod DEF IInv, Drained
  <2>2. remaining \in Nat BY DEF IInv, Looping
  <2>3. QED BY <2>1, <2>2 DEF IInv, Drained, Looping, WriterTypeOK
<1>4. QED BY <1>1, <1>2, <1>3, PTL DEF Spec

(***************************************************************************)
(* WritesTheBitsCorrect: the cached bit writer, its loop over long unary   *)
(* codes and its byte-wise drain implement a writer without a cache        *)
(* (encoder.rs:307-376).                                                   *)
(***************************************************************************)
THEOREM WritesTheBitsCorrect == Spec => WritesTheBits
<1>1. Init => IInv /\ Sink!Init BY Initially DEF Init
<1>2. IInv /\ [Next]_vars => IInv' /\ [Sink!Next]_(Sink!sinkVars) BY FrameStep DEF Step
<1>3. QED BY <1>1, <1>2, PTL DEF Spec, WritesTheBits, Sink!Spec

-----------------------------------------------------------------------------
(***************************************************************************)
(* The frame.  Framed: what lies on the wire is the body with its CRC, but *)
(* for one burst, and what was decided about it follows from the burst.    *)
(***************************************************************************)
Burstlike(e) ==
  \E p \in Nat, pattern \in SUBSET Ones : 0 \in pattern /\ e = ShiftLeft(pattern, p)

Framed ==
  /\ fate \in {"writing", "sealed", "accepted", "refused"}
  /\ hit = {} \/ Burstlike(hit)
  /\ fate = "writing" => hit = {}
  /\ fate # "writing" =>
       /\ pc = "done"
       /\ wire = [bits |-> out.bits + CrcBits,
                  ones |-> Xor(Joined(out.ones, crc32(out), out.bits), hit)]
  /\ fate = "accepted" => hit = {}
  /\ fate = "refused" => hit # {}

FInv == IInv /\ Framed

LEMMA BodyBytes ==
  ASSUME Drained
  PROVE  /\ IsString(out) /\ crc32(out) = BitSerial(out)
         /\ \E len \in Nat : out.bits = len * CrcByte
         /\ crc32(out) \in SUBSET Ones /\ crc32(out) \in SUBSET Nat
<1>1. PICK len \in Nat : out.bits = len * CrcByte BY FrameAssumption DEF Drained, Whole
<1>2. IsString(out) BY HeldType DEF IsString, Drained
<1>3. crc32(out) = BitSerial(out) BY <1>1, <1>2, TablesSerial
<1>4. crc32(out) \in SUBSET Ones BY <1>1, <1>2, CrcOf
<1>5. crc32(out) \in SUBSET Nat BY <1>4, PolyType
<1>6. QED BY <1>1, <1>2, <1>3, <1>4, <1>5

\* The CRC over what arrived is the one behind it just when nothing was hit.
LEMMA VerifyDecides ==
  ASSUME IInv, Framed, fate = "sealed"
  PROVE  ShiftRight(wire.ones, wire.bits - CrcBits) = crc32(BodyOf(wire)) <=> hit = {}
<1>1. PICK n, e, w : n = out.bits /\ e = hit /\ w = wire.ones OBVIOUS
<1>2. PICK len \in Nat : out.bits = len * CrcByte /\ IsString(out)
  BY BodyBytes DEF IInv
<1>3. n \in Nat BY <1>1, HeldType DEF IInv
<1>4. wire.bits - CrcBits = n
  <2>1. wire.bits = n + CrcBits BY <1>1 DEF Framed
  <2>2. QED BY <1>3, <2>1, PolyType
<1>5. BodyOf(wire) = [bits |-> n, ones |-> LowBits(w, n)] BY <1>1, <1>4 DEF BodyOf
<1>6. e \in SUBSET Nat
  <2>1. CASE e = {} BY <2>1
  <2>2. CASE Burstlike(e)
    <3>1. PICK p \in Nat, pattern \in SUBSET Ones : e = ShiftLeft(pattern, p)
      BY <2>2 DEF Burstlike
    <3>2. pattern \in SUBSET Nat BY PolyType
    <3>3. QED BY <3>1, <3>2, MovedType
  <2>3. QED BY <1>1, <2>1, <2>2 DEF Framed
<1>7. w = Xor(out.ones \cup ShiftLeft(crc32(out), out.bits), e)
  BY <1>1 DEF Framed, Joined
<1>8. ShiftRight(w, n) = crc32([bits |-> n, ones |-> LowBits(w, n)]) <=> Steps[n][e] = {}
  BY <1>1, <1>2, <1>6, <1>7, AcceptsDamage
<1>9. e = {} => Steps[n][e] = {}
  <2>1. ShiftRight({}, n) = {} BY DEF ShiftRight
  <2>2. Steps[n][{}] = {} BY <1>3, <2>1, StepsMove
  <2>3. QED BY <2>2
<1>10. e # {} => Steps[n][e] # {}
  <2> SUFFICES ASSUME e # {} PROVE Steps[n][e] # {} OBVIOUS
  <2>1. PICK p \in Nat, pattern \in SUBSET Ones : 0 \in pattern /\ e = ShiftLeft(pattern, p)
    BY <1>1 DEF Framed, Burstlike
  <2>2. pattern # {} BY <2>1
  <2>3. Steps[n][ShiftLeft(pattern, p)] # {} BY <1>3, <2>2, BurstLeaves
  <2>4. QED BY <2>1, <2>3
<1>11. QED BY <1>1, <1>4, <1>5, <1>8, <1>9, <1>10

LEMMA FramedStep ==
  ASSUME IInv, Framed, [Next]_vars
  PROVE  Framed'
<1>1. CASE Write
  <2>1. wire' = wire /\ hit' = hit /\ fate' = fate BY <1>1 DEF Write
  <2>2. CASE fate = "writing" BY <2>1, <2>2 DEF Framed, Burstlike, ShiftLeft
  <2>3. CASE fate # "writing"
    <3>1. pc = "done" BY <2>3 DEF Framed
    <3>2. FALSE
      BY <1>1, <3>1 DEF Write, WriterNext, PutBits, PutUnary, UnaryTurn, UnaryEnd, Finish, DrainByte
    <3>3. QED BY <3>2
  <2>4. QED BY <2>2, <2>3
<1>2. CASE Seal
  <2>1. /\ pc = "done" /\ fate = "writing" /\ fate' = "sealed" /\ hit' = hit /\ pc' = pc
        /\ out' = out /\ wire' = Extend(out, crc32(out), CrcBits)
    BY <1>2 DEF Seal, writerVars
  <2>2. hit = {} BY <2>1 DEF Framed
  <2>3. PICK c : c = crc32(out) OBVIOUS
  <2>4. LowBits(c, CrcBits) = c
    <3>1. c \subseteq 0 .. CrcBits - 1 BY <2>3, BodyBytes DEF IInv, Ones
    <3>2. QED BY <3>1, LowOfAll
  <2>5. PICK b, o : b = out.bits /\ o = out.ones OBVIOUS
  <2>6. wire' = [bits |-> b + CrcBits, ones |-> o \cup ShiftLeft(c, b)]
    BY <2>1, <2>3, <2>4, <2>5 DEF Extend
  <2>7. crc32(out') = c BY <2>1, <2>3
  <2>8. wire'.ones = Xor(Joined(o, c, b), {}) BY <2>6, XorLaws DEF Joined
  <2>9. wire'.ones = Xor(Joined(out'.ones, crc32(out'), out'.bits), hit')
    BY <2>1, <2>2, <2>5, <2>7, <2>8
  <2>10. QED
    <3>1. wire' = [bits |-> out'.bits + CrcBits,
                   ones |-> Xor(Joined(out'.ones, crc32(out'), out'.bits), hit')]
      BY <2>1, <2>5, <2>6, <2>9
    <3>2. QED BY <2>1, <2>2, <3>1 DEF Framed, Joined, ShiftLeft
<1>3. ASSUME NEW p \in 0 .. wire.bits - 1, NEW pattern \in SUBSET Ones, 0 \in pattern,
             Burst(p, pattern)
      PROVE  Framed'
  <2>1. /\ fate = "sealed" /\ fate' = fate /\ hit = {} /\ hit' = ShiftLeft(pattern, p)
        /\ wire' = [wire EXCEPT !.ones = Xor(@, hit')] /\ out' = out /\ pc' = pc
    BY <1>3 DEF Burst, writerVars
  <2>2. p \in Nat OBVIOUS
  <2>3. PICK e : e = hit' /\ e = ShiftLeft(pattern, p) BY <2>1
  <2>4. Burstlike(e) BY <1>3, <2>2, <2>3 DEF Burstlike
  <2>5. 0 + p \in e BY <1>3, <2>3 DEF ShiftLeft
  <2>6. PICK j, n : j = Joined(out.ones, crc32(out), out.bits) /\ n = out.bits + CrcBits
    OBVIOUS
  <2>7. wire = [bits |-> n, ones |-> j]
    <3>1. wire = [bits |-> n, ones |-> Xor(j, {})] BY <2>1, <2>6 DEF Framed
    <3>2. QED BY <3>1, XorLaws
  <2>8. wire' = [bits |-> n, ones |-> Xor(j, e)] BY <2>1, <2>3, <2>7
  <2>9. pc' = "done" /\ Burstlike(hit') /\ hit' # {}
    <3>1. pc = "done" BY <2>1 DEF Framed
    <3>2. QED BY <2>1, <2>3, <2>4, <2>5, <3>1
  <2>10. wire' = [bits |-> out'.bits + CrcBits,
                  ones |-> Xor(Joined(out'.ones, crc32(out'), out'.bits), hit')]
    BY <2>1, <2>3, <2>6, <2>8
  <2>11. fate' = "sealed" BY <2>1
  <2>12. QED BY <2>9, <2>10, <2>11 DEF Framed, Joined, ShiftLeft, Burstlike
<1>4. CASE Verify
  <2>1. /\ fate = "sealed" /\ hit' = hit /\ wire' = wire /\ out' = out /\ pc' = pc
        /\ fate' = IF ShiftRight(wire.ones, wire.bits - CrcBits) = crc32(BodyOf(wire))
                   THEN "accepted" ELSE "refused"
    BY <1>4 DEF Verify, writerVars
  <2>2. fate' = IF hit = {} THEN "accepted" ELSE "refused" BY <2>1, VerifyDecides
  <2>3. QED BY <2>1, <2>2 DEF Framed
<1>5. CASE UNCHANGED vars BY <1>5 DEF vars, writerVars, Framed
<1>6. QED BY <1>1, <1>2, <1>3, <1>4, <1>5 DEF Next

LEMMA FrameInvariant ==
  /\ Init => FInv
  /\ FInv /\ [Next]_vars => FInv'
<1>1. Init => FInv
  <2> SUFFICES ASSUME Init PROVE FInv OBVIOUS
  <2>1. IInv BY Initially DEF Init
  <2>2. Framed BY DEF Init, Framed
  <2>3. QED BY <2>1, <2>2 DEF FInv
<1>2. FInv /\ [Next]_vars => FInv'
  <2> SUFFICES ASSUME FInv, [Next]_vars PROVE FInv' OBVIOUS
  <2>1. IInv' BY FrameStep DEF FInv, Step
  <2>2. Framed' BY FramedStep DEF FInv
  <2>3. QED BY <2>1, <2>2 DEF FInv
<1>3. QED BY <1>1, <1>2

(***************************************************************************)
(* CrcIsRemainderCorrect: for every polynomial and every width of bytes    *)
(* and register, the CRC by tables is the serial one (crc32.rs:42-100).    *)
(***************************************************************************)
THEOREM CrcIsRemainderCorrect == Spec => []CrcIsRemainder
<1>1. FInv => CrcIsRemainder BY BodyBytes DEF FInv, IInv, CrcIsRemainder
<1>2. QED BY <1>1, FrameInvariant, PTL DEF Spec

(***************************************************************************)
(* BurstNoticedCorrect: whichever burst of up to the CRC's width hits a    *)
(* frame of whatever length, the frame is refused, and refused only then   *)
(* (encoder.rs:229-233, decoder.rs:291-301).                               *)
(***************************************************************************)
THEOREM BurstNoticedCorrect == Spec => []BurstNoticed
<1>1. FInv => BurstNoticed BY DEF FInv, Framed, BurstNoticed
<1>2. QED BY <1>1, FrameInvariant, PTL DEF Spec

-----------------------------------------------------------------------------
(***************************************************************************)
(* The invariant for reading back: there are places, one behind the other, *)
(* at which the calls' codewords lie in what is written.                   *)
(***************************************************************************)
PutCalls == {BitsCall(v, k) : v \in Values, k \in 0 .. Half} \cup {UnaryCall(n) : n \in Lengths}

ReadsAt(h, c, ones) ==
  IF c.name = "put_bits"
  THEN {i \in 0 .. c.k - 1 : h + i \in ones} = LowBits(c.value, c.k)
  ELSE (\A i \in 0 .. c.u - 1 : h + i \in ones) /\ h + c.u \notin ones

\* The first n calls lie in the first `end' bits.
Placed(at, n, end, cs, ones) ==
  /\ at \in [Nat -> Nat] /\ at[1] = 0 /\ at[n + 1] = end
  /\ \A i \in 1 .. n :
       /\ at[i] + Width(cs[i]) <= end /\ at[i + 1] = at[i] + Width(cs[i])
       /\ ReadsAt(at[i], cs[i], ones)

Puts == IF pc = "done" THEN Len(calls) - 1 ELSE Len(calls)

Readable ==
  /\ calls \in Seq(PutCalls \cup {FinishCall})
  /\ Puts \in Nat
  /\ \A i \in 1 .. Puts : calls[i] \in PutCalls
  /\ \E at \in [Nat -> Nat], end \in Nat :
       /\ Placed(at, Puts, end, calls, Written.ones)
       /\ Written.bits \in Nat
       /\ \A x \in Written.ones : x \in Nat /\ x < end
       /\ IF pc = "done" THEN Written.bits - end \in 0 .. ByteBits - 1 ELSE Written.bits = end

LEMMA PutWidth ==
  ASSUME NEW c \in PutCalls
  PROVE  /\ Width(c) \in Nat
         /\ c.name = "put_bits" => c.k \in Nat /\ Width(c) = c.k
         /\ c.name # "put_bits" => c.u \in Nat /\ Width(c) = c.u + 1
<1>1. CASE \E v \in Values, k \in 0 .. Half : c = BitsCall(v, k)
  BY <1>1, WidthsType DEF BitsCall, Width
<1>2. CASE \E n \in Lengths : c = UnaryCall(n)
  <2>1. PICK n \in Lengths : c = UnaryCall(n) BY <1>2
  <2>2. c.name = "put_unary" /\ c.u = n BY <2>1 DEF UnaryCall
  <2>3. n \in Nat BY WriterAssumption
  <2>4. QED BY <2>2, <2>3 DEF Width
<1>3. QED BY <1>1, <1>2 DEF PutCalls

\* A codeword is read from the bits up to its end, whatever lies behind them.
LEMMA ReadsStay ==
  ASSUME NEW c \in PutCalls, NEW h \in Nat, NEW b \in Nat, h + Width(c) <= b,
         NEW ones, NEW more, \A x \in Nat : x < b => (x \in ones <=> x \in more),
         ReadsAt(h, c, ones)
  PROVE  ReadsAt(h, c, more)
<1>1. CASE c.name = "put_bits"
  <2>1. c.k \in Nat /\ h + c.k <= b BY <1>1, PutWidth
  <2>2. \A i \in 0 .. c.k - 1 : h + i \in Nat /\ h + i < b BY <2>1
  <2>3. {i \in 0 .. c.k - 1 : h + i \in ones} = {i \in 0 .. c.k - 1 : h + i \in more}
    BY <2>2
  <2>4. QED BY <1>1, <2>3 DEF ReadsAt
<1>2. CASE c.name # "put_bits"
  <2>1. c.u \in Nat /\ h + (c.u + 1) <= b BY <1>2, PutWidth
  <2>2. \A i \in 0 .. c.u : h + i \in Nat /\ h + i < b BY <2>1
  <2>3. h + c.u \in Nat /\ h + c.u < b BY <2>1
  <2>4. QED BY <1>2, <2>1, <2>2, <2>3 DEF ReadsAt
<1>3. QED BY <1>1, <1>2

\* One more codeword behind the others.
LEMMA PlacedNext ==
  ASSUME NEW n \in Nat, NEW end \in Nat, NEW at, NEW cs \in Seq(PutCalls \cup {FinishCall}),
         NEW ones, Placed(at, n, end, cs, ones),
         \A i \in 1 .. n : cs[i] \in PutCalls,
         NEW more, \A x \in Nat : x < end => (x \in ones <=> x \in more),
         NEW ds, NEW c \in PutCalls, ds[n + 1] = c, \A i \in 1 .. n : ds[i] = cs[i],
         ReadsAt(end, c, more)
  PROVE  \E new \in [Nat -> Nat] : Placed(new, n + 1, end + Width(c), ds, more)
<1> DEFINE e == end + Width(c)
           new == [at EXCEPT ![n + 2] = e]
<1>1. e \in Nat /\ end <= e /\ at \in [Nat -> Nat]
  <2>1. PICK w \in Nat : w = Width(c) BY PutWidth
  <2>2. e \in Nat /\ end <= e BY <2>1
  <2>3. at \in [Nat -> Nat] BY DEF Placed
  <2>4. QED BY <2>2, <2>3
<1> HIDE DEF e
<1>2. new \in [Nat -> Nat] /\ new[n + 2] = e /\ \A i \in 1 .. n + 1 : new[i] = at[i]
  <2>1. n + 2 \in Nat /\ \A i \in 1 .. n + 1 : i \in Nat /\ i # n + 2 OBVIOUS
  <2>2. QED BY <1>1, <2>1
<1> HIDE DEF new
<1>3. (n + 1) + 1 = n + 2 /\ 1 \in 1 .. n + 1 OBVIOUS
<1>4. new[1] = 0 /\ new[(n + 1) + 1] = e BY <1>2, <1>3 DEF Placed
<1>5. ASSUME NEW i \in 1 .. n + 1
      PROVE  /\ new[i] + Width(ds[i]) <= e /\ new[i + 1] = new[i] + Width(ds[i])
             /\ ReadsAt(new[i], ds[i], more)
  <2>1. CASE i = n + 1
    <3>1. new[i] = end /\ ds[i] = c /\ new[i + 1] = e BY <1>2, <1>3, <2>1 DEF Placed
    <3>2. end + Width(c) = e BY DEF e
    <3>3. QED BY <1>1, <3>1, <3>2
  <2>2. CASE i # n + 1
    <3>1. i \in 1 .. n /\ i \in 1 .. n + 1 /\ i + 1 \in 1 .. n + 1 BY <2>2
    <3>2. new[i] = at[i] /\ new[i + 1] = at[i + 1] /\ ds[i] = cs[i] BY <1>2, <3>1
    <3>3. /\ at[i] + Width(cs[i]) <= end /\ at[i + 1] = at[i] + Width(cs[i])
          /\ ReadsAt(at[i], cs[i], ones) /\ at[i] \in Nat
      <4>1. i \in Nat BY <3>1
      <4>2. at[i] \in Nat BY <1>1, <4>1
      <4>3. QED BY <3>1, <4>2, Zenon DEF Placed
    <3>4. Width(cs[i]) \in Nat BY <3>1, PutWidth
    <3>5. ReadsAt(at[i], cs[i], more) BY <3>1, <3>3, ReadsStay
    <3>6. at[i] + Width(cs[i]) <= e
      <4>1. PICK a \in Nat, w \in Nat : a = at[i] /\ w = Width(cs[i]) BY <3>3, <3>4
      <4>2. a + w <= end BY <3>3, <4>1
      <4>3. a + w <= e BY <1>1, <4>2
      <4>4. QED BY <4>1, <4>3
    <3>7. QED BY <3>2, <3>3, <3>5, <3>6
  <2>3. QED BY <2>1, <2>2
<1>6. Placed(new, n + 1, e, ds, more) BY <1>2, <1>4, <1>5 DEF Placed
<1>7. QED BY <1>2, <1>6 DEF e

\* What lies behind a string does not change what is read from it.
LEMMA ExtendBits ==
  ASSUME NEW s, s.bits \in Nat, \A x \in s.ones : x \in Nat /\ x < s.bits, NEW w, NEW n \in Nat
  PROVE  /\ Extend(s, w, n).bits = s.bits + n
         /\ \A x \in Nat : x < s.bits => (x \in s.ones <=> x \in Extend(s, w, n).ones)
         /\ \A x \in Extend(s, w, n).ones : x \in Nat /\ x < s.bits + n
         /\ \A i \in 0 .. n - 1 : s.bits + i \in Extend(s, w, n).ones <=> i \in w
<1>a. PICK b \in Nat : b = s.bits OBVIOUS
<1>b. PICK o, t : o = s.ones /\ t = Extend(s, w, n).ones OBVIOUS
<1>1. b = s.bits /\ o = s.ones /\ t = Extend(s, w, n).ones BY <1>a, <1>b
<1>2. Extend(s, w, n).bits = b + n /\ t = o \cup ShiftLeft(LowBits(w, n), b)
  BY <1>1 DEF Extend
<1>3. \A x : x \in ShiftLeft(LowBits(w, n), b) <=> \E i \in 0 .. n - 1 : i \in w /\ x = i + b
  BY DEF ShiftLeft, LowBits
<1>4. \A x \in ShiftLeft(LowBits(w, n), b) : x \in Nat /\ x >= b /\ x < b + n BY <1>3
<1>5. \A x \in o : x \in Nat /\ x < b BY <1>1
<1>6. \A x \in Nat : x < b => (x \in o <=> x \in t) BY <1>2, <1>4
<1>7. \A x \in t : x \in Nat /\ x < b + n
  <2>1. \A x \in Nat : x < b => x < b + n OBVIOUS
  <2>2. \A x \in o : x \in Nat /\ x < b + n BY <1>5, <2>1
  <2>3. QED BY <1>2, <1>4, <2>2
<1>8. ASSUME NEW i \in 0 .. n - 1 PROVE b + i \in t <=> i \in w
  <2>1. b + i \notin o
    <3>1. ~(b + i < b) OBVIOUS
    <3>2. QED BY <1>5, <3>1
  <2>2. b + i \in ShiftLeft(LowBits(w, n), b) <=> i \in w
    <3>1. \A j \in 0 .. n - 1 : b + i = j + b <=> i = j OBVIOUS
    <3>2. QED BY <1>3, <3>1
  <2>3. QED BY <1>2, <2>1, <2>2
<1>9. QED BY <1>1, <1>2, <1>6, <1>7, <1>8

LEMMA CodewordReads ==
  ASSUME NEW s, s.bits \in Nat, \A x \in s.ones : x \in Nat /\ x < s.bits
  PROVE  /\ \A v \in Values, k \in 0 .. Half :
              ReadsAt(s.bits, BitsCall(v, k), Extend(s, v, k).ones)
         /\ \A n \in Nat : ReadsAt(s.bits, UnaryCall(n), Extend(s, 0 .. n - 1, n + 1).ones)
<1>1. ASSUME NEW v \in Values, NEW k \in 0 .. Half
      PROVE  ReadsAt(s.bits, BitsCall(v, k), Extend(s, v, k).ones)
  <2>1. k \in Nat BY WidthsType
  <2>2. PICK t : t = Extend(s, v, k).ones OBVIOUS
  <2>3. \A i \in 0 .. k - 1 : s.bits + i \in t <=> i \in v BY <2>1, <2>2, ExtendBits
  <2>4. {i \in 0 .. k - 1 : s.bits + i \in t} = LowBits(v, k) BY <2>3 DEF LowBits
  <2>5. QED BY <2>2, <2>4 DEF ReadsAt, BitsCall
<1>2. ASSUME NEW n \in Nat
      PROVE  ReadsAt(s.bits, UnaryCall(n), Extend(s, 0 .. n - 1, n + 1).ones)
  <2>1. PICK t, w : w = 0 .. n - 1 /\ t = Extend(s, w, n + 1).ones OBVIOUS
  <2>2. n + 1 \in Nat OBVIOUS
  <2>3. \A i \in 0 .. (n + 1) - 1 : s.bits + i \in t <=> i \in w
    BY <2>1, <2>2, ExtendBits
  <2>4. \A i \in 0 .. n - 1 : i \in w /\ i \in 0 .. (n + 1) - 1 BY <2>1
  <2>5. n \notin w /\ n \in 0 .. (n + 1) - 1 BY <2>1
  <2>6. (\A i \in 0 .. n - 1 : s.bits + i \in t) /\ s.bits + n \notin t BY <2>3, <2>4, <2>5
  <2>7. QED BY <2>1, <2>6 DEF ReadsAt, UnaryCall
<1>3. QED BY <1>1, <1>2

\* A call that returns puts its codeword behind the others.
LEMMA PutReadable ==
  ASSUME Readable, pc # "done", pc' # "done", NEW c \in PutCalls, NEW w,
         Written' = Extend(Written, w, Width(c)),
         ReadsAt(Written.bits, c, Extend(Written, w, Width(c)).ones),
         calls' = Append(calls, c)
  PROVE  Readable'
<1>1. PICK n \in Nat : n = Len(calls) /\ Puts = n BY DEF Readable, Puts
<1>2. PICK S : S = PutCalls \cup {FinishCall} OBVIOUS
<1>3. calls \in Seq(S) /\ c \in S /\ n = Len(calls) BY <1>1, <1>2 DEF Readable
<1>4. PICK ds : ds = calls' OBVIOUS
<1>5. /\ ds \in Seq(S) /\ Len(ds) = n + 1 /\ ds[n + 1] = c
      /\ \A i \in 1 .. n : ds[i] = calls[i]
  BY <1>3, <1>4
<1>6. PICK at \in [Nat -> Nat], end \in Nat :
        /\ Placed(at, n, end, calls, Written.ones)
        /\ \A x \in Written.ones : x \in Nat /\ x < end
        /\ Written.bits = end
  BY <1>1 DEF Readable
<1>7. PICK m \in Nat : m = Width(c) BY PutWidth
<1>8. PICK s, t : s = Written /\ t = Extend(Written, w, m) OBVIOUS
<1>9. /\ t.bits = end + m
      /\ \A x \in Nat : x < end => (x \in s.ones <=> x \in t.ones)
      /\ \A x \in t.ones : x \in Nat /\ x < end + m
  BY <1>6, <1>8, ExtendBits
<1>10. ReadsAt(end, c, t.ones) BY <1>6, <1>7, <1>8
<1>11. \A i \in 1 .. n : calls[i] \in PutCalls BY <1>1 DEF Readable
<1>12. PICK new \in [Nat -> Nat] : Placed(new, n + 1, end + Width(c), ds, t.ones)
  <2>1. PICK o, q : o = s.ones /\ q = t.ones OBVIOUS
  <2>2. /\ Placed(at, n, end, calls, o) /\ ReadsAt(end, c, q)
        /\ \A x \in Nat : x < end => (x \in o <=> x \in q)
    BY <1>6, <1>8, <1>9, <1>10, <2>1
  <2>3. calls \in Seq(PutCalls \cup {FinishCall}) BY DEF Readable
  <2>4. \E new \in [Nat -> Nat] : Placed(new, n + 1, end + Width(c), ds, q)
    BY <1>5, <1>11, <2>2, <2>3, PlacedNext
  <2>5. QED BY <2>1, <2>4
<1>13. Puts' = n + 1 BY <1>4, <1>5 DEF Puts
<1>14. \A i \in 1 .. n + 1 : ds[i] \in PutCalls
  <2>1. \A i \in 1 .. n + 1 : i = n + 1 \/ i \in 1 .. n OBVIOUS
  <2>2. QED BY <1>5, <1>11, <2>1
<1>15. PICK last \in Nat : last = end + m OBVIOUS
<1>16. Placed(new, Puts', last, calls', Written'.ones) /\ Written' = t
  BY <1>4, <1>7, <1>8, <1>12, <1>13, <1>15
<1>17. QED
  <2>1. n + 1 \in Nat /\ calls' \in Seq(PutCalls \cup {FinishCall})
    <3>1. n + 1 \in Nat OBVIOUS
    <3>2. QED BY <1>2, <1>4, <1>5, <3>1, Zenon
  <2>2. Puts' \in Nat /\ \A i \in 1 .. Puts' : calls'[i] \in PutCalls
    BY <1>4, <1>13, <1>14, <2>1
  <2>3. Written'.bits \in Nat /\ Written'.bits = last /\ \A x \in Written'.ones : x \in Nat /\ x < last
    BY <1>9, <1>15, <1>16
  <2>4. QED BY <1>15, <1>16, <2>1, <2>2, <2>3 DEF Readable

\* finish_byte_aligned pads with less than a byte, and with zeros.
LEMMA FinishReadable ==
  ASSUME Readable, Sink!Finish
  PROVE  Readable'
<1>1. /\ pc # "done" /\ pc' = "done" /\ calls' = Append(calls, FinishCall)
      /\ Written' = [Written EXCEPT !.bits = ((@ + ByteBits - 1) \div ByteBits) * ByteBits]
  BY DEF Sink!Finish, Sink!FinishCall, FinishCall
<1>2. PICK n \in Nat : n = Len(calls) /\ Puts = n BY <1>1 DEF Readable, Puts
<1>3. PICK S : S = PutCalls \cup {FinishCall} OBVIOUS
<1>4. calls \in Seq(S) /\ FinishCall \in S BY <1>3 DEF Readable
<1>5. PICK ds : ds = calls' OBVIOUS
<1>6. ds \in Seq(S) /\ Len(ds) = n + 1 /\ \A i \in 1 .. n : ds[i] = calls[i]
  BY <1>1, <1>2, <1>4, <1>5
<1>7. PICK at \in [Nat -> Nat], end \in Nat :
        /\ Placed(at, n, end, calls, Written.ones)
        /\ \A x \in Written.ones : x \in Nat /\ x < end
        /\ Written.bits = end
  BY <1>1, <1>2 DEF Readable
<1>8. PICK o : o = Written.ones OBVIOUS
<1>9. PICK padded : padded = ((end + ByteBits - 1) \div ByteBits) * ByteBits OBVIOUS
<1>10. Written'.bits = padded /\ Written'.ones = o
  BY <1>1, <1>7, <1>8, <1>9 DEF Written
<1>11. padded \in Nat /\ padded - end \in 0 .. ByteBits - 1
  <2>1. PICK B \in Nat : B = ByteBits /\ B > 0 BY WidthsType
  <2>2. PICK e \in Nat : e = end + B - 1 BY <2>1
  <2>3. PICK q \in Nat : q = e \div B
    <3>1. e \div B \in Nat BY <2>1, SMT
    <3>2. QED BY <3>1
  <2>4. q * B <= e /\ e < q * B + B
    <3>1. e = B * (e \div B) + (e % B) /\ e % B \in 0 .. B - 1 BY <2>1, <2>2, SMT
    <3>2. B * q = q * B BY <2>1, <2>3, SMT
    <3>3. PICK r \in 0 .. B - 1 : e = B * q + r BY <2>3, <3>1
    <3>4. PICK m \in Nat : m = q * B BY <2>1, SMT
    <3>5. QED BY <2>1, <3>2, <3>3, <3>4
  <2>5. PICK m \in Nat : m = q * B BY <2>1, SMT
  <2>6. padded = m BY <1>9, <2>1, <2>2, <2>3, <2>5
  <2>7. m <= e /\ e < m + B BY <2>4, <2>5
  <2>8. QED BY <2>1, <2>2, <2>6, <2>7
<1>12. Placed(at, n, end, ds, o)
  <2>1. /\ at \in [Nat -> Nat] /\ at[1] = 0 /\ at[n + 1] = end
        /\ \A i \in 1 .. n :
             /\ at[i] + Width(calls[i]) <= end /\ at[i + 1] = at[i] + Width(calls[i])
             /\ ReadsAt(at[i], calls[i], o)
    BY <1>7, <1>8 DEF Placed
  <2>2. \A i \in 1 .. n :
          /\ at[i] + Width(ds[i]) <= end /\ at[i + 1] = at[i] + Width(ds[i])
          /\ ReadsAt(at[i], ds[i], o)
    BY <1>6, <2>1
  <2>3. QED BY <2>1, <2>2 DEF Placed
<1>13. Puts' = n
  <2>1. Puts' = Len(ds) - 1 BY <1>1, <1>5 DEF Puts
  <2>2. QED BY <1>6, <2>1
<1>14. \A i \in 1 .. n : ds[i] \in PutCalls BY <1>2, <1>6 DEF Readable
<1>15. calls' \in Seq(PutCalls \cup {FinishCall}) BY <1>3, <1>5, <1>6, Zenon
<1>16. Puts' \in Nat /\ \A i \in 1 .. Puts' : calls'[i] \in PutCalls BY <1>5, <1>13, <1>14
<1>17. Placed(at, Puts', end, calls', Written'.ones) BY <1>5, <1>10, <1>12, <1>13
<1>18. /\ Written'.bits \in Nat /\ Written'.bits - end \in 0 .. ByteBits - 1
       /\ \A x \in Written'.ones : x \in Nat /\ x < end
  BY <1>7, <1>8, <1>10, <1>11
<1>19. QED BY <1>1, <1>15, <1>16, <1>17, <1>18 DEF Readable

LEMMA ReadableStep ==
  ASSUME Readable, [Sink!Next]_(Sink!sinkVars)
  PROVE  Readable'
<1>1. /\ Written.bits \in Nat
      /\ pc # "done" => \A x \in Written.ones : x \in Nat /\ x < Written.bits
  BY DEF Readable
<1>2. ASSUME NEW v \in Values, NEW k \in 0 .. Half, Sink!PutBits(v, k) PROVE Readable'
  <2>1. /\ pc # "done" /\ pc' # "done" /\ Written' = Extend(Written, v, k)
        /\ calls' = Append(calls, BitsCall(v, k))
    BY <1>2, SinkExtends DEF Sink!PutBits, Sink!BitsCall, BitsCall
  <2>2. BitsCall(v, k) \in PutCalls BY DEF PutCalls
  <2>3. Width(BitsCall(v, k)) = k BY DEF Width, BitsCall
  <2>4. ReadsAt(Written.bits, BitsCall(v, k), Extend(Written, v, k).ones)
    BY <1>1, <2>1, CodewordReads
  <2>5. QED BY <2>1, <2>2, <2>3, <2>4, PutReadable
<1>3. ASSUME NEW n \in Lengths, Sink!PutUnary(n) PROVE Readable'
  <2>1. /\ pc # "done" /\ pc' # "done" /\ Written' = Extend(Written, 0 .. n - 1, n + 1)
        /\ calls' = Append(calls, UnaryCall(n))
    BY <1>3, SinkExtends DEF Sink!PutUnary, Sink!UnaryCall, UnaryCall
  <2>2. UnaryCall(n) \in PutCalls /\ n \in Nat BY WriterAssumption DEF PutCalls
  <2>3. Width(UnaryCall(n)) = n + 1 BY DEF Width, UnaryCall
  <2>4. ReadsAt(Written.bits, UnaryCall(n), Extend(Written, 0 .. n - 1, n + 1).ones)
    BY <1>1, <2>1, <2>2, CodewordReads
  <2>5. QED BY <2>1, <2>2, <2>3, <2>4, PutReadable
<1>4. CASE Sink!Finish BY <1>4, FinishReadable
<1>5. CASE UNCHANGED Sink!sinkVars
  <2>1. Written' = Written /\ calls' = calls /\ (pc' = "done" <=> pc = "done")
    BY <1>5 DEF Sink!sinkVars
  <2>2. Puts' = Puts BY <2>1 DEF Puts
  <2>3. QED BY <2>1, <2>2 DEF Readable
<1>6. QED BY <1>2, <1>3, <1>4, <1>5 DEF Sink!Next

LEMMA ReadableInit ==
  ASSUME Sink!Init
  PROVE  Readable
<1>1. Written = [bits |-> 0, ones |-> {}] /\ calls = <<>> /\ pc # "done" BY DEF Sink!Init
<1>2. Puts = 0 /\ calls \in Seq(PutCalls \cup {FinishCall}) BY <1>1 DEF Puts
<1>3. PICK at : at = [i \in Nat |-> 0] OBVIOUS
<1>4. at \in [Nat -> Nat] /\ at[1] = 0 BY <1>3
<1>5. Placed(at, 0, 0, calls, {}) BY <1>4 DEF Placed
<1>6. QED BY <1>1, <1>2, <1>4, <1>5 DEF Readable

\* What the reader of an accepted frame is given is what the writer put out.
LEMMA BodyIsOut ==
  ASSUME FInv, fate = "accepted"
  PROVE  /\ BodyOf(wire).bits = Written.bits /\ BodyOf(wire).ones = Written.ones
         /\ pc = "done"
<1>1. pc = "done" /\ hit = {} BY DEF FInv, Framed
<1>2. PICK n, o, c : n = out.bits /\ o = out.ones /\ c = crc32(out) OBVIOUS
<1>3. n \in Nat /\ o \in SUBSET (0 .. n - 1) /\ c \in SUBSET Nat
  BY <1>2, HeldType, BodyBytes DEF FInv, IInv, Drained
<1>4. wire = [bits |-> n + CrcBits, ones |-> Joined(o, c, n)]
  <2>1. wire = [bits |-> n + CrcBits, ones |-> Xor(Joined(o, c, n), {})]
    BY <1>1, <1>2 DEF FInv, Framed
  <2>2. QED BY <2>1, XorLaws
<1>5. (n + CrcBits) - CrcBits = n BY <1>3, PolyType
<1>6. BodyOf(wire) = [bits |-> n, ones |-> LowBits(Joined(o, c, n), n)]
  BY <1>4, <1>5 DEF BodyOf
<1>7. LowBits(Joined(o, c, n), n) = o BY <1>3, JoinedParts
<1>8. Written = Held BY <1>1, WrittenOpen DEF FInv, IInv
<1>9. Held = [bits |-> n + 0, ones |-> o \cup {}]
  <2>1. nbits = 0 BY <1>1 DEF FInv, IInv, Looping
  <2>2. cache = {} BY <2>1 DEF FInv, IInv, Drained
  <2>3. ShiftLeft(cache, out.bits) = {} BY <2>2 DEF ShiftLeft
  <2>4. QED BY <1>2, <2>1, <2>3 DEF Held
<1>10. n + 0 = n BY <1>3
<1>11. QED BY <1>1, <1>6, <1>7, <1>8, <1>9, <1>10

LEMMA AcceptedReadsBack ==
  ASSUME FInv, Readable
  PROVE  ReadsBack
<1> SUFFICES ASSUME fate = "accepted" PROVE ReadsBack BY DEF ReadsBack
<1> DEFINE L == Len(calls)
           D == 1 .. L
<1>1. PICK b, o : b = BodyOf(wire).bits /\ o = BodyOf(wire).ones OBVIOUS
<1>2. b = Written.bits /\ o = Written.ones /\ pc = "done" BY <1>1, BodyIsOut
<1>3. PICK at \in [Nat -> Nat], end \in Nat :
        /\ Placed(at, L - 1, end, calls, o)
        /\ \A x \in o : x < end
        /\ b - end \in 0 .. ByteBits - 1
  BY <1>2 DEF Readable, Puts
<1>4. L - 1 \in Nat /\ L \in Nat /\ L \in D /\ 1 \in D /\ \A i \in 1 .. L - 1 : calls[i] \in PutCalls
  <2>1. Puts = L - 1 /\ calls \in Seq(PutCalls \cup {FinishCall}) BY <1>2 DEF Readable, Puts
  <2>2. L \in Nat /\ L - 1 \in Nat BY <2>1 DEF Readable
  <2>3. QED BY <2>1, <2>2 DEF Readable
<1> DEFINE g == [n \in D |-> at[n]]
<1>5. g = [n \in D |-> IF n = 1 THEN 0 ELSE g[n - 1] + Width(calls[n - 1])]
  <2>1. ASSUME NEW n \in D PROVE g[n] = IF n = 1 THEN 0 ELSE g[n - 1] + Width(calls[n - 1])
    <3>1. CASE n = 1 BY <1>3, <3>1 DEF Placed
    <3>2. CASE n # 1
      <4>1. n - 1 \in 1 .. L - 1 /\ n - 1 \in D /\ (n - 1) + 1 = n BY <1>4, <3>2
      <4>2. at[(n - 1) + 1] = at[n - 1] + Width(calls[n - 1]) BY <1>3, <4>1 DEF Placed
      <4>3. QED BY <3>2, <4>1, <4>2
    <3>3. QED BY <3>1, <3>2
  <2> HIDE DEF D
  <2>2. QED BY <2>1
<1> HIDE DEF g
\* A reader's place is the writer's, call by call.
<1>6. ASSUME NEW f, f = [n \in D |-> IF n = 1 THEN 0 ELSE f[n - 1] + Width(calls[n - 1])]
      PROVE  \A n \in D : f[n] = at[n]
  <2>1. \A n \in D : f[n] = IF n = 1 THEN 0 ELSE f[n - 1] + Width(calls[n - 1])
    BY <1>6, Zenon
  <2> DEFINE T == {n \in Nat : n \in D => f[n] = at[n]}
  <2>2. 0 \in T BY <1>4
  <2>3. ASSUME NEW n \in Nat, n \in T PROVE n + 1 \in T
    <3> SUFFICES ASSUME n + 1 \in D PROVE f[n + 1] = at[n + 1] OBVIOUS
    <3>1. CASE n = 0
      <4>1. n + 1 = 1 BY <3>1
      <4>2. QED BY <1>3, <2>1, <4>1 DEF Placed
    <3>2. CASE n # 0
      <4>1. n \in 1 .. L - 1 /\ n \in D /\ n + 1 # 1 /\ (n + 1) - 1 = n BY <1>4, <3>2
      <4>2. at[n + 1] = at[n] + Width(calls[n]) BY <1>3, <4>1 DEF Placed
      <4>3. f[n + 1] = f[n] + Width(calls[n]) BY <2>1, <4>1
      <4>4. f[n] = at[n] BY <2>3, <4>1
      <4>5. QED BY <4>2, <4>3, <4>4
    <3>3. QED BY <3>1, <3>2
  <2>4. \A n \in Nat : n \in T
    <3> HIDE DEF T
    <3>1. QED BY <2>2, <2>3, SetInduction
  <2>5. QED BY <1>4, <2>4
<1> DEFINE Back(f) ==
      /\ \A n \in 1 .. Len(calls) - 1 :
           IF calls[n].name = "put_bits"
           THEN Reader!BitsAt(f[n], calls[n].k) = LowBits(calls[n].value, calls[n].k)
           ELSE /\ Reader!OnesFrom(f[n], calls[n].u)
                /\ f[n] + calls[n].u \notin BodyOf(wire).ones
      /\ BodyOf(wire).bits - f[Len(calls)] \in 0 .. ByteBits - 1
      /\ \A i \in BodyOf(wire).ones : i < f[Len(calls)]
<1>7. ASSUME NEW f, \A n \in D : f[n] = at[n] PROVE Back(f)
  <2>1. f[L] = end
    <3>1. (L - 1) + 1 = L BY <1>4
    <3>2. at[L] = end BY <1>3, <3>1 DEF Placed
    <3>3. QED BY <1>4, <1>7, <3>2
  <2>2. ASSUME NEW n \in 1 .. L - 1
        PROVE  IF calls[n].name = "put_bits"
               THEN Reader!BitsAt(f[n], calls[n].k) = LowBits(calls[n].value, calls[n].k)
               ELSE /\ Reader!OnesFrom(f[n], calls[n].u)
                    /\ f[n] + calls[n].u \notin o
    <3>1. n \in D /\ f[n] = at[n]
      <4>1. n \in 1 .. L BY <1>4
      <4>2. QED BY <1>7, <4>1, Zenon
    <3>2. ReadsAt(f[n], calls[n], o) BY <1>3, <3>1 DEF Placed
    <3>3. QED BY <1>1, <3>2 DEF ReadsAt, Reader!BitsAt, Reader!OnesFrom
  <2>3. QED BY <1>1, <1>3, <2>1, <2>2
<1>8. \E f : f = [n \in D |-> IF n = 1 THEN 0 ELSE f[n - 1] + Width(calls[n - 1])]
  BY <1>5
<1>9. ASSUME NEW f, f = [n \in D |-> IF n = 1 THEN 0 ELSE f[n - 1] + Width(calls[n - 1])]
      PROVE  Back(f)
  <2>1. \A n \in D : f[n] = at[n] BY <1>6, <1>9, Zenon
  <2> HIDE DEF Back
  <2>2. QED BY <1>7, <2>1, Zenon
<1>10. QED BY <1>8, <1>9, Zenon DEF ReadsBack

(***************************************************************************)
(* ReadsBackCorrect: for every sequence of puts and however the bytes were *)
(* flushed, the reader of an accepted frame gets each codeword back and no *)
(* more (encoder.rs:324-368, bitreader.rs:67-128, decoder.rs:291-301).     *)
(***************************************************************************)
THEOREM ReadsBackCorrect == Spec => []ReadsBack
<1>1. Init => FInv /\ Readable
  <2> SUFFICES ASSUME Init PROVE FInv /\ Readable OBVIOUS
  <2>1. Sink!Init BY Initially DEF Init
  <2>2. QED BY <2>1, FrameInvariant, ReadableInit
<1>2. FInv /\ Readable /\ [Next]_vars => (FInv /\ Readable)'
  <2> SUFFICES ASSUME FInv, Readable, [Next]_vars PROVE (FInv /\ Readable)' OBVIOUS
  <2>1. [Sink!Next]_(Sink!sinkVars) BY FrameStep DEF FInv, Step
  <2>2. Readable' BY <2>1, ReadableStep
  <2>3. QED BY <2>2, FrameInvariant
<1>3. FInv /\ Readable => ReadsBack BY AcceptedReadsBack
<1>4. QED BY <1>1, <1>2, <1>3, PTL DEF Spec
=============================================================================
