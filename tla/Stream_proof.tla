---------------------------- MODULE Stream_proof ----------------------------
(***************************************************************************)
(* What the proofs about the readers of a file share: the arithmetic of    *)
(* the geometry, how the frames tile a stream and lie in its file, and     *)
(* the entries of a slice, and where the windows of the seek table lie.    *)
(***************************************************************************)
EXTENDS Stream, SequenceTheorems, WellFoundedInduction, TLAPS

-----------------------------------------------------------------------------
\* Arithmetic the geometry rests on.

LEMMA DivMod ==
  ASSUME NEW a \in Nat, NEW b \in Nat, b > 0
  PROVE  /\ a \div b \in Nat /\ a % b \in Nat /\ a % b < b
         /\ a = b * (a \div b) + (a % b)
  BY SMT

LEMMA DivOf ==
  ASSUME NEW q \in Nat, NEW b \in Nat, b > 0, NEW r \in Nat, r < b
  PROVE  (b * q + r) \div b = q
  BY SMT

LEMMA ModOf ==
  ASSUME NEW q \in Nat, NEW b \in Nat, b > 0, NEW r \in Nat, r < b
  PROVE  (b * q + r) % b = r
  BY SMT

LEMMA ProductInNat == ASSUME NEW a \in Nat, NEW b \in Nat PROVE a * b \in Nat
  BY SMT

LEMMA GeometryType ==
  ASSUME NEW h \in HeaderRecords
  PROVE  /\ RegularFrameSamples(h) \in Nat
         /\ FrameCount(h) \in Nat
         /\ LastFrameSamples(h) \in Nat
         /\ \A i \in Nat : FrameSamples(h, i) \in Nat
<1>1. RegularFrameSamples(h) \in Nat BY DEF RegularFrameSamples, HeaderRecords
<1>2. FrameCount(h) \in Nat /\ LastFrameSamples(h) \in Nat
  BY <1>1, DivMod DEF FrameCount, LastFrameSamples, FrameGeometry, HeaderRecords
<1>3. QED BY <1>1, <1>2 DEF FrameSamples

-----------------------------------------------------------------------------
\* Entries(a, b) is a sequence, and the buffer operations keep it one.

LEMMA SeqIntEqual ==
  ASSUME NEW s \in Seq(Int), NEW t \in Seq(Int), Len(s) = Len(t),
         \A i \in 1 .. Len(s) : s[i] = t[i]
  PROVE  s = t
  BY SMT

LEMMA SuffixElement ==
  ASSUME NEW s \in Seq(Int), NEW n \in Nat, n <= Len(s)
  PROVE  \A i \in 1 .. Len(s) - n : SubSeq(s, n + 1, Len(s))[i] = s[n + i]
  BY SMT

LEMMA EntriesType ==
  ASSUME NEW a \in Nat, NEW b \in Nat, a <= b
  PROVE  /\ Entries(a, b) \in Seq(Int) /\ Len(Entries(a, b)) = b - a
         /\ \A i \in 1 .. b - a : Entries(a, b)[i] = a + i - 1
  BY DEF Entries

LEMMA EntriesConcat ==
  ASSUME NEW a \in Nat, NEW b \in Nat, NEW c \in Nat, a <= b, b <= c
  PROVE  Entries(a, b) \o Entries(b, c) = Entries(a, c)
<1> DEFINE s == Entries(a, b)
           t == Entries(b, c)
           u == Entries(a, c)
<1>1. s \in Seq(Int) /\ Len(s) = b - a /\ \A i \in 1 .. b - a : s[i] = a + i - 1
  BY EntriesType
<1>2. t \in Seq(Int) /\ Len(t) = c - b /\ \A i \in 1 .. c - b : t[i] = b + i - 1
  BY EntriesType
<1>3. u \in Seq(Int) /\ Len(u) = c - a /\ \A i \in 1 .. c - a : u[i] = a + i - 1
  BY EntriesType
<1> HIDE DEF s, t, u
<1>4. /\ s \o t \in Seq(Int) /\ Len(s \o t) = Len(s) + Len(t)
      /\ \A i \in 1 .. Len(s) + Len(t) :
           (s \o t)[i] = IF i <= Len(s) THEN s[i] ELSE t[i - Len(s)]
  BY <1>1, <1>2, ConcatProperties, Zenon
<1>5. ASSUME NEW i \in 1 .. c - a PROVE (s \o t)[i] = u[i]
  <2>1. (s \o t)[i] = IF i <= b - a THEN s[i] ELSE t[i - (b - a)]
    BY <1>1, <1>2, <1>4
  <2>2. CASE i <= b - a BY <2>1, <2>2, <1>1, <1>3
  <2>3. CASE ~(i <= b - a)
    <3>1. i - (b - a) \in 1 .. c - b BY <2>3
    <3>2. t[i - (b - a)] = b + (i - (b - a)) - 1 BY <3>1, <1>2
    <3>3. QED BY <2>1, <2>3, <3>2, <1>3
  <2>4. QED BY <2>2, <2>3
<1>6. s \o t = u
  <2>1. Len(s \o t) = c - a BY <1>1, <1>2, <1>4
  <2>2. QED BY <2>1, <1>3, <1>4, <1>5, SeqIntEqual
<1>7. QED BY <1>6 DEF s, t, u

-----------------------------------------------------------------------------
\* The frames tile the stream: each but the last is regular, none reaches past the end.
LEMMA GeometryTiles ==
  ASSUME NEW h \in HeaderRecords, NEW i \in Nat, i < FrameCount(h)
  PROVE  /\ RegularFrameSamples(h) > 0
         /\ i * RegularFrameSamples(h) + FrameSamples(h, i) <= h.total
         /\ FrameSamples(h, i) <= RegularFrameSamples(h)
         /\ i + 1 < FrameCount(h) => FrameSamples(h, i) = RegularFrameSamples(h)
         /\ i + 1 = FrameCount(h) => i * RegularFrameSamples(h) + FrameSamples(h, i) = h.total
<1> DEFINE R == RegularFrameSamples(h)
           T == h.total
           q == T \div R
           r == T % R
<1>1. R \in Nat /\ T \in Nat BY GeometryType DEF HeaderRecords
<1>2. R > 0 /\ T > 0
  <2>1. CASE R = 0 \/ T = 0 BY <2>1 DEF FrameCount, FrameGeometry
  <2>2. QED BY <1>1, <2>1
<1> HIDE DEF R, T
<1>3. q \in Nat /\ r \in Nat /\ r < R /\ T = R * q + r BY <1>1, <1>2, DivMod
<1>4. FrameCount(h) = (IF r = 0 THEN q ELSE q + 1)
  BY <1>2 DEF FrameCount, FrameGeometry, R, T
<1>5. LastFrameSamples(h) = (IF r = 0 THEN R ELSE r)
  BY <1>2 DEF LastFrameSamples, FrameGeometry, R, T
<1> HIDE DEF q, r
<1>6. CASE i + 1 = FrameCount(h)
  <2>1. FrameSamples(h, i) = LastFrameSamples(h) BY <1>6 DEF FrameSamples
  <2>2. i * R + FrameSamples(h, i) = T
    <3>1. CASE r = 0
      <4>1. q = i + 1 /\ FrameSamples(h, i) = R BY <1>3, <1>4, <1>5, <1>6, <2>1, <3>1
      <4>2. R * (i + 1) = i * R + R BY <1>1
      <4>3. QED BY <1>1, <1>3, <3>1, <4>1, <4>2
    <3>2. CASE r # 0
      <4>1. q = i /\ FrameSamples(h, i) = r BY <1>3, <1>4, <1>5, <1>6, <2>1, <3>2
      <4>2. R * i = i * R BY <1>1
      <4>3. QED BY <1>3, <4>1, <4>2
    <3>3. QED BY <3>1, <3>2
  <2>3. FrameSamples(h, i) <= R BY <1>1, <1>3, <1>5, <2>1
  <2>4. QED BY <1>1, <1>2, <1>6, <2>2, <2>3 DEF R, T
<1>7. CASE i + 1 < FrameCount(h)
  <2>1. FrameSamples(h, i) = R BY <1>7 DEF FrameSamples, R
  <2>2. q \in Nat /\ i + 1 <= q BY <1>3, <1>4, <1>7
  <2>3. R * (i + 1) <= R * q BY <1>1, <2>2
  <2>4. R * (i + 1) = i * R + R BY <1>1
  <2>5. i * R + R <= T BY <1>1, <1>3, <2>3, <2>4
  <2>6. QED BY <1>1, <1>2, <1>7, <2>1, <2>5 DEF R, T
<1>8. FrameCount(h) \in Nat BY GeometryType
<1>9. QED BY <1>6, <1>7, <1>8

\* Every sample of a stream that opened lies in a frame of its table.
LEMMA SampleHasFrame ==
  ASSUME NEW h \in HeaderRecords, h.rate > 0, NEW s \in Nat, s < h.total
  PROVE  RegularFrameSamples(h) > 0 /\ SeekFrame(h, s) < FrameCount(h)
<1> DEFINE R == RegularFrameSamples(h)
           T == h.total
<1>1. R \in Nat /\ T \in Nat /\ T > 0 BY GeometryType DEF HeaderRecords
<1>2. R > 0
  <2>1. h.rate * 256 \in Nat /\ h.rate * 256 >= 245 BY DEF HeaderRecords
  <2>2. QED BY <2>1 DEF RegularFrameSamples
<1>3. FrameCount(h) = IF T % R = 0 THEN T \div R ELSE T \div R + 1
  BY <1>1, <1>2 DEF FrameCount, FrameGeometry
<1>4. SeekFrame(h, s) = s \div R BY DEF SeekFrame
<1> HIDE DEF R, T
<1>5. T \div R \in Nat /\ T % R \in Nat /\ T % R < R /\ T = R * (T \div R) + (T % R)
  BY <1>1, <1>2, DivMod
<1>6. s \div R \in Nat /\ s % R \in Nat /\ s = R * (s \div R) + (s % R)
  BY <1>1, <1>2, DivMod
<1> DEFINE q == T \div R
           k == s \div R
<1>7. q \in Nat /\ k \in Nat BY <1>5, <1>6
<1>8. R * k < T BY <1>1, <1>6 DEF T
<1> HIDE DEF q, k
<1>9. k <= q
  <2>1. SUFFICES ASSUME k >= q + 1 PROVE FALSE BY <1>7
  <2>2. R * k >= R * (q + 1) BY <1>1, <1>7, <2>1
  <2>3. R * (q + 1) = R * q + R BY <1>1, <1>7
  <2>4. R * q + R \in Nat /\ R * q \in Nat /\ R * k \in Nat BY <1>1, <1>7, ProductInNat
  <2>5. QED BY <1>1, <1>5, <1>8, <2>2, <2>3, <2>4 DEF q
<1>10. T % R = 0 => k # q
  <2>1. SUFFICES ASSUME T % R = 0, k = q PROVE FALSE OBVIOUS
  <2>2. QED BY <1>1, <1>5, <1>8, <2>1 DEF q
<1>11. k < FrameCount(h) BY <1>3, <1>7, <1>9, <1>10 DEF q
<1>12. QED BY <1>2, <1>4, <1>11 DEF R, k

\* The frame and the offset of a sample, as seek_to_sample computes them.
LEMMA SeekInside ==
  ASSUME NEW h \in HeaderRecords, h.rate > 0, NEW s \in Nat, s < h.total
  PROVE  /\ SeekFrame(h, s) \in Nat /\ SeekOffset(h, s) \in Nat
         /\ SeekOffset(h, s) < RegularFrameSamples(h)
         /\ SeekOffset(h, s) < FrameSamples(h, SeekFrame(h, s))
         /\ SeekFrame(h, s) * RegularFrameSamples(h) + SeekOffset(h, s) = s
<1> DEFINE R == RegularFrameSamples(h)
           k == SeekFrame(h, s)
           r == SeekOffset(h, s)
           c == FrameSamples(h, k)
<1>1. R \in Nat /\ h.total \in Nat BY GeometryType DEF HeaderRecords
<1>2. R > 0 /\ k < FrameCount(h) BY SampleHasFrame
<1>3. k = s \div R /\ r = s % R BY DEF SeekFrame, SeekOffset
<1> HIDE DEF R, k, r
<1>4. k \in Nat /\ r \in Nat /\ r < R /\ s = R * k + r BY <1>1, <1>2, <1>3, DivMod
<1>5. /\ k + 1 < FrameCount(h) => c = R
      /\ k + 1 = FrameCount(h) => k * R + c = h.total
  BY <1>2, <1>4, GeometryTiles DEF R
<1>6. c \in Nat /\ FrameCount(h) \in Nat BY <1>4, GeometryType
<1> HIDE DEF c
<1>7. R * k = k * R /\ k * R \in Nat BY <1>1, <1>4, ProductInNat
<1>8. r < c
  <2>1. k + 1 < FrameCount(h) \/ k + 1 = FrameCount(h) BY <1>2, <1>4, <1>6
  <2>2. QED BY <1>1, <1>4, <1>5, <1>6, <1>7, <2>1
<1>9. QED BY <1>4, <1>7, <1>8 DEF R, k, r, c

-----------------------------------------------------------------------------
\* Where the writer's frames lie.

LEMMA Layout ==
  ASSUME NEW f, WellFormed(f)
  PROVE  /\ FrameCount(f.h) \in Nat /\ DataStart(f) \in Nat
         /\ FrameIds(f) = 0 .. FrameCount(f.h) - 1
         /\ \A w \in FrameIds(f) :
              /\ f.table[w] \in Nat /\ f.size[w] \in Nat /\ f.place[w] \in Nat
              /\ w = 0 => f.place[w] = DataStart(f)
              /\ w > 0 => f.place[w] = f.place[w - 1] + f.size[w - 1]
<1>1. FrameCount(f.h) \in Nat BY GeometryType DEF WellFormed
<1>2. DataStart(f) \in Nat BY <1>1 DEF DataStart, WellFormed, HEADER_LEN, SeekTableLen
<1>3. /\ f.place \in [FrameIds(f) -> Nat]
      /\ f.size \in [FrameIds(f) -> Nat]
      /\ f.table \in [FrameIds(f) -> Nat]
  BY Zenon DEF WellFormed
<1>4. \A w \in FrameIds(f) :
         /\ w = 0 => f.place[w] = DataStart(f)
         /\ w > 0 => f.place[w] = f.place[w - 1] + f.size[w - 1]
  BY Zenon DEF WellFormed
<1>5. QED BY <1>1, <1>2, <1>3, <1>4 DEF FrameIds

\* No two frames start at the same byte.
LEMMA PlacesDiffer ==
  ASSUME NEW f, WellFormed(f), NEW v \in FrameIds(f), NEW w \in FrameIds(f),
         f.place[v] = f.place[w]
  PROVE  v = w
<1>1. FrameCount(f.h) \in Nat /\ FrameIds(f) = 0 .. FrameCount(f.h) - 1 BY Layout, Zenon
<1>2. \A x \in FrameIds(f) : f.size[x] > 4 BY Zenon DEF WellFormed
<1>3. \A x, y \in FrameIds(f) : x < y => f.place[x] + f.size[x] <= f.place[y]
  BY Zenon DEF WellFormed
<1>4. \A x \in FrameIds(f) : f.place[x] \in Nat /\ f.size[x] \in Nat BY Layout, Zenon
<1> HIDE DEF FrameIds
<1>5. f.place[v] \in Nat /\ f.size[v] \in Nat /\ f.size[v] > 4
      /\ f.place[w] \in Nat /\ f.size[w] \in Nat /\ f.size[w] > 4
  BY <1>2, <1>4
<1>6. v \in Int /\ w \in Int BY <1>1
<1>7. v < w => f.place[v] + f.size[v] <= f.place[w] BY <1>3
<1>8. w < v => f.place[w] + f.size[w] <= f.place[v] BY <1>3
<1>9. QED BY <1>5, <1>6, <1>7, <1>8
-----------------------------------------------------------------------------
\* Induction over the numbers, by a set that holds 0 and with n its successor.

LEMMA NatWellFounded ==
  \E rel : /\ IsWellFoundedOn(rel, Nat)
           /\ \A x, y \in Nat : <<x, y>> \in rel <=> x < y
<1> DEFINE rel == OpToRel(<, Nat)
<1>1. IsWellFoundedOn(rel, Nat) BY NatLessThanWellFounded
<1>2. rel = {p \in Nat \X Nat : p[1] < p[2]} BY DEF OpToRel
<1>3. \A x, y \in Nat : <<x, y>> \in rel <=> x < y
  <2> HIDE DEF rel
  <2> QED BY <1>2
<1> HIDE DEF rel
<1>4. QED BY <1>1, <1>3

LEMMA SetInduction ==
  ASSUME NEW S, 0 \in S, \A n \in Nat : n \in S => n + 1 \in S
  PROVE  \A n \in Nat : n \in S
<1> SUFFICES ASSUME ~(\A n \in Nat : n \in S) PROVE FALSE OBVIOUS
<1> DEFINE B == {n \in Nat : n \notin S}
<1>1. B \subseteq Nat /\ B # {} OBVIOUS
<1>2. PICK rel : IsWellFoundedOn(rel, Nat) /\ \A x, y \in Nat : <<x, y>> \in rel <=> x < y
  BY NatWellFounded
<1> HIDE DEF B
<1>3. PICK m \in B : \A y \in B : ~(<<y, m>> \in rel) BY <1>1, <1>2, WFMin
<1> USE DEF B
<1>4. m \in Nat /\ m \notin S /\ m # 0 BY <1>3
<1>5. m - 1 \in Nat /\ m - 1 < m /\ (m - 1) + 1 = m BY <1>4
<1>6. m - 1 \in S BY <1>2, <1>3, <1>4, <1>5
<1>7. QED BY <1>4, <1>5, <1>6

-----------------------------------------------------------------------------
\* g starts at a and adds one size of t after the other, up to n.
Sums(g, a, t, n) == \A i \in 0 .. n : g[i] = IF i = 0 THEN a ELSE g[i - 1] + t[i - 1]

LEMMA SumsExist ==
  ASSUME NEW n \in Nat, NEW a \in Nat, NEW t \in [0 .. n - 1 -> Nat]
  PROVE  \E g \in [0 .. n -> Nat] : Sums(g, a, t, n)
<1> DEFINE Has == {k \in Nat : k <= n => \E g \in [0 .. n -> Nat] : Sums(g, a, t, k)}
<1>1. 0 \in Has
  <2>1. [i \in 0 .. n |-> a] \in [0 .. n -> Nat] /\ Sums([i \in 0 .. n |-> a], a, t, 0)
    BY DEF Sums
  <2>2. QED BY <2>1
<1>2. ASSUME NEW k \in Nat, k \in Has PROVE k + 1 \in Has
  <2> SUFFICES ASSUME k + 1 <= n PROVE \E g \in [0 .. n -> Nat] : Sums(g, a, t, k + 1)
    OBVIOUS
  <2>1. PICK g \in [0 .. n -> Nat] : Sums(g, a, t, k) BY <1>2
  <2>2. k \in 0 .. n - 1 /\ k \in 0 .. n /\ k + 1 \in 0 .. n OBVIOUS
  <2>3. g[k] + t[k] \in Nat BY <2>2
  <2> DEFINE next == [g EXCEPT ![k + 1] = g[k] + t[k]]
  <2>4. next \in [0 .. n -> Nat] BY <2>3
  <2>5. next[k + 1] = next[k] + t[k] BY <2>2
  <2>6. \A i \in 0 .. k : next[i] = g[i] BY <2>2
  <2> HIDE DEF next
  <2>7. Sums(next, a, t, k + 1)
    <3> SUFFICES ASSUME NEW i \in 0 .. k + 1
                 PROVE  next[i] = IF i = 0 THEN a ELSE next[i - 1] + t[i - 1]
      BY DEF Sums
    <3>1. CASE i = k + 1
      <4>1. i - 1 = k /\ i # 0 BY <3>1
      <4>2. QED BY <2>5, <3>1, <4>1
    <3>2. CASE i \in 0 .. k
      <4>1. g[i] = IF i = 0 THEN a ELSE g[i - 1] + t[i - 1] BY <2>1, <3>2 DEF Sums
      <4>2. i # 0 => i - 1 \in 0 .. k BY <3>2
      <4>3. QED BY <2>6, <3>2, <4>1, <4>2
    <3>3. QED BY <3>1, <3>2
  <2>8. QED BY <2>4, <2>7
<1> HIDE DEF Has
<1>3. n \in Has BY <1>1, <1>2, SetInduction
<1>4. QED BY <1>3 DEF Has

\* The windows of a seek table, whatever sizes it stores, lie end to end.
EndToEnd(f, n) ==
  \E g \in [0 .. n -> Nat] :
    /\ Sums(g, DataStart(f), f.table, n)
    /\ Windows(f) = [j \in 1 .. n |-> Descriptor(f, j - 1, g[j - 1])]

LEMMA WindowsLie ==
  ASSUME NEW f, NEW n \in Nat, FrameCount(f.h) = n, DataStart(f) \in Nat,
         f.table \in [0 .. n - 1 -> Nat]
  PROVE  EndToEnd(f, n)
<1>1. PICK s \in [0 .. n -> Nat] : Sums(s, DataStart(f), f.table, n)
  BY SumsExist
<1>2. s = [i \in 0 .. FrameCount(f.h) |->
             IF i = 0 THEN DataStart(f) ELSE s[i - 1] + f.table[i - 1]]
  BY <1>1 DEF Sums
<1> DEFINE start == CHOOSE g : g = [i \in 0 .. FrameCount(f.h) |->
                      IF i = 0 THEN DataStart(f) ELSE g[i - 1] + f.table[i - 1]]
<1>3. start = [i \in 0 .. FrameCount(f.h) |->
                IF i = 0 THEN DataStart(f) ELSE start[i - 1] + f.table[i - 1]]
  BY <1>2, Zenon
<1>4. Windows(f) = [j \in 1 .. FrameCount(f.h) |-> Descriptor(f, j - 1, start[j - 1])]
  BY Zenon DEF Windows
<1> HIDE DEF start
<1>5. /\ start = [i \in 0 .. n |->
                   IF i = 0 THEN DataStart(f) ELSE start[i - 1] + f.table[i - 1]]
      /\ Windows(f) = [j \in 1 .. n |-> Descriptor(f, j - 1, start[j - 1])]
  BY <1>3, <1>4, Zenon
<1>6. \A i \in 0 .. n : start[i] = IF i = 0 THEN DataStart(f) ELSE start[i - 1] + f.table[i - 1]
  BY <1>5, Zenon
<1>7. DOMAIN start = 0 .. n /\ start = [i \in 0 .. n |-> start[i]]
  BY <1>5, Zenon
<1> DEFINE Known == {k \in Nat : k <= n => start[k] \in Nat}
<1>8. 0 \in Known
  <2>1. 0 \in 0 .. n OBVIOUS
  <2>2. start[0] = DataStart(f) BY <1>6, <2>1
  <2>3. QED BY <2>2
<1>9. ASSUME NEW k \in Nat, k \in Known PROVE k + 1 \in Known
  <2> SUFFICES ASSUME k + 1 <= n PROVE start[k + 1] \in Nat OBVIOUS
  <2>1. start[k] \in Nat /\ f.table[k] \in Nat BY <1>9
  <2>2. k + 1 \in 0 .. n /\ (k + 1) - 1 = k /\ k + 1 # 0 OBVIOUS
  <2>3. start[k + 1] = start[k] + f.table[k] BY <1>6, <2>2
  <2>4. QED BY <2>1, <2>3
<1> HIDE DEF Known
<1>10. \A k \in Nat : k \in Known BY <1>8, <1>9, SetInduction
<1>11. \A k \in 0 .. n : start[k] \in Nat BY <1>10 DEF Known
<1>12. start \in [0 .. n -> Nat] BY <1>7, <1>11
<1>13. Sums(start, DataStart(f), f.table, n) BY <1>6 DEF Sums
<1>14. QED BY <1>5, <1>12, <1>13 DEF EndToEnd
=============================================================================
