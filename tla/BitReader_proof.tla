-------------------------- MODULE BitReader_proof --------------------------
(***************************************************************************)
(* For every byte width, cache width and body: the cache holds the body's  *)
(* bits, and BitReader implements BitCursor.                               *)
(***************************************************************************)
EXTENDS BitReader, TLAPS

-----------------------------------------------------------------------------
\* Arithmetic of the two refill paths.

LEMMA DivMod ==
  ASSUME NEW a \in Nat, NEW b \in Nat \ {0}
  PROVE  /\ a \div b \in Nat /\ a % b \in Nat /\ a % b < b
         /\ a = b * (a \div b) + (a % b)
  BY SMT

LEMMA DivUnique ==
  ASSUME NEW a \in Nat, NEW b \in Nat \ {0}, NEW q \in Int, NEW r \in 0 .. b - 1,
         a = b * q + r
  PROVE  a \div b = q
<1> DEFINE p == a \div b
           s == a % b
<1>1. p \in Nat /\ s \in Nat /\ s < b /\ a = b * p + s BY DivMod
<1> HIDE DEF p, s
<1>2. b * (p - q) = r - s BY <1>1, SMT
<1>3. ~(p - q >= 1)
  <2> SUFFICES ASSUME p - q >= 1 PROVE FALSE OBVIOUS
  <2>1. b * (p - q) >= b BY <1>1, SMT
  <2>2. QED BY <1>1, <1>2, <2>1, SMT
<1>4. ~(p - q <= -1)
  <2> SUFFICES ASSUME p - q <= -1 PROVE FALSE OBVIOUS
  <2>1. b * (p - q) <= -b BY <1>1, SMT
  <2>2. QED BY <1>1, <1>2, <2>1, SMT
<1>5. QED BY <1>1, <1>3, <1>4 DEF p

\* The bulk path advances by whole bytes and counts exactly their bits.
LEMMA BulkAdvance ==
  ASSUME NEW B \in Nat \ {0}, NEW C \in Nat, C >= 2, NEW c \in Nat, c < (C - 1) * B,
         NEW n, n = (C * B - 1 - c) \div B
  PROVE  /\ n \in 0 .. C
         /\ c + n * B = (C - 1) * B + (c % B)
         /\ c % B \in 0 .. B - 1
<1> DEFINE q == c \div B
           r == c % B
<1>1. q \in Nat /\ r \in Nat /\ r < B /\ c = B * q + r BY DivMod
<1> HIDE DEF q, r
<1>2. C * B - 1 - c \in Nat
  <2>1. (C - 1) * B = C * B - B BY SMT
  <2>2. C * B \in Nat /\ (C - 1) * B \in Nat BY SMT
  <2>3. QED BY <2>1, <2>2, SMT
<1>3. C * B - 1 - c = B * (C - 1 - q) + (B - 1 - r) BY <1>1, SMT
<1>4. n = C - 1 - q
  <2>1. B - 1 - r \in 0 .. B - 1 /\ C - 1 - q \in Int BY <1>1, SMT
  <2>2. QED BY <1>2, <1>3, <2>1, DivUnique
<1>5. q <= C - 1
  <2> SUFFICES ASSUME q >= C PROVE FALSE BY <1>1, SMT
  <2>1. B * q >= B * C BY <1>1, SMT
  <2>2. (C - 1) * B = B * C - B BY SMT
  <2>3. QED BY <1>1, <2>1, <2>2, SMT
<1>6. c + n * B = (C - 1) * B + r BY <1>1, <1>4, SMT
<1>7. QED BY <1>1, <1>4, <1>5, <1>6 DEF r

\* The tail path loads as many bytes as reach Full bits, at most.
LEMMA TailNeeds ==
  ASSUME NEW B \in Nat \ {0}, NEW C \in Nat, C >= 2, NEW c \in Nat, c < (C - 1) * B,
         NEW n, n = ((C - 1) * B - c + B - 1) \div B
  PROVE  /\ n \in Nat /\ n > 0
         /\ c + n * B >= (C - 1) * B
         /\ c + n * B <= C * B - 1
<1> DEFINE a == (C - 1) * B - c + B - 1
<1>1. a \in Nat /\ a >= B /\ a = C * B - c - 1
  <2>1. (C - 1) * B = C * B - B BY SMT
  <2>2. C * B \in Nat /\ (C - 1) * B \in Nat BY SMT
  <2>3. QED BY <2>1, <2>2, SMT
<1>2. n \in Nat /\ a % B < B /\ a % B \in Nat /\ a = B * n + (a % B)
  BY <1>1, DivMod
<1> HIDE DEF a
<1>3. n > 0 BY <1>1, <1>2, SMT
<1>4. n * B = B * n BY <1>2, SMT
<1>5. (C - 1) * B = C * B - B /\ C * B \in Nat /\ B * n \in Nat BY <1>2, SMT
<1>6. QED BY <1>1, <1>2, <1>3, <1>4, <1>5, SMT

-----------------------------------------------------------------------------
\* The inductive invariant.

\* A unary read in progress has swallowed ones only.
RunSound ==
  /\ phase = "idle" => run = 0
  /\ run <= Unread
  /\ \A i \in 0 .. run - 1 : Unread - run + i \in body.ones

\* The body is the one the reader began with.
Typed == body \in Bodies /\ ReaderTypeOK

IInv == Typed /\ CacheSound /\ RunSound

LEMMA WordFacts ==
  /\ Full \in Nat /\ Full > 0 /\ Word \in Nat
  /\ Word = Full + ByteBits
  /\ Full = (CacheBytes - 1) * ByteBits /\ Word = CacheBytes * ByteBits
<1>1. CacheBytes \in Nat /\ CacheBytes >= 2 /\ ByteBits \in Nat /\ ByteBits > 0
  BY WordAssumption
<1>2. Word = CacheBytes * ByteBits /\ Full = (CacheBytes - 1) * ByteBits
  BY DEF Word, Full
<1>3. (CacheBytes - 1) * ByteBits = CacheBytes * ByteBits - ByteBits BY <1>1, SMT
<1>4. CacheBytes * ByteBits \in Nat /\ CacheBytes * ByteBits >= 2 * ByteBits BY <1>1, SMT
<1>5. QED BY <1>1, <1>2, <1>3, <1>4, SMT

LEMMA BodyFacts ==
  ASSUME NEW b \in Bodies
  PROVE  /\ b.bits \in Nat /\ b.ones \subseteq 0 .. b.bits - 1
         /\ b.bits \div ByteBits \in Nat
         /\ (b.bits \div ByteBits) * ByteBits = b.bits
<1>1. b.bits \in Nat /\ b.bits % ByteBits = 0 /\ b.ones \subseteq 0 .. b.bits - 1
  BY BodiesAssumption
<1>2. ByteBits \in Nat \ {0} BY WordAssumption
<1>3. /\ b.bits \div ByteBits \in Nat
      /\ b.bits = ByteBits * (b.bits \div ByteBits) + (b.bits % ByteBits)
  BY <1>1, <1>2, DivMod
<1> DEFINE d == b.bits \div ByteBits
           s == b.bits
<1>4. d * ByteBits = s
  <2>1. d \in Nat /\ s = ByteBits * d + 0 /\ ByteBits \in Nat BY <1>1, <1>2, <1>3
  <2> HIDE DEF d, s
  <2>2. QED BY <2>1, SMT
<1>5. QED BY <1>1, <1>3, <1>4

\* Multiplying by the byte width keeps order.
LEMMA BitsOfBytes ==
  ASSUME NEW a \in Nat, NEW b \in Nat
  PROVE  /\ a * ByteBits \in Nat
         /\ a <= b => a * ByteBits <= b * ByteBits
         /\ (a + b) * ByteBits = a * ByteBits + b * ByteBits
<1>1. ByteBits \in Nat BY WordAssumption
<1>2. QED BY <1>1, SMT

LEMMA TypeFacts ==
  ASSUME Typed
  PROVE  /\ pos \in Nat /\ Bytes \in Nat /\ pos <= Bytes
         /\ body.bits \in Nat /\ body.ones \subseteq 0 .. body.bits - 1
         /\ Bytes * ByteBits = body.bits
         /\ bcount \in Nat /\ bcount < Word /\ run \in Nat
         /\ pos * ByteBits \in Nat /\ pos * ByteBits <= body.bits
         /\ Unread \in Nat /\ Unread = pos * ByteBits - bcount
<1>1. /\ body.bits \in Nat /\ body.ones \subseteq 0 .. body.bits - 1
      /\ Bytes \in Nat /\ Bytes * ByteBits = body.bits
  BY BodyFacts DEF Typed, ReaderTypeOK, Bytes
<1>2. pos \in Nat /\ pos <= Bytes BY <1>1 DEF Typed, ReaderTypeOK
<1>3. bcount \in Nat /\ bcount < Word /\ run \in Nat BY WordFacts DEF Typed, ReaderTypeOK
<1>4. pos * ByteBits \in Nat /\ pos * ByteBits <= body.bits
  BY <1>1, <1>2, BitsOfBytes
<1>5. Unread \in Nat /\ Unread = pos * ByteBits - bcount
  <2>1. bcount <= pos * ByteBits BY DEF Typed, ReaderTypeOK
  <2>2. QED BY <1>3, <1>4, <2>1 DEF Unread
<1>6. QED BY <1>1, <1>2, <1>3, <1>4, <1>5

(***************************************************************************)
(* Loading n bytes sets only bits of the body, and all that fit.           *)
(***************************************************************************)
LEMMA LoadedBits ==
  ASSUME Typed, NEW n \in Nat
  PROVE  /\ Loaded(n) \subseteq 0 .. Word - 1
         /\ \A i \in Loaded(n) : Unread + i \in body.ones
         /\ \A i \in 0 .. Word - 1 :
              (bcount <= i /\ i < bcount + n * ByteBits /\ Unread + i \in body.ones)
                => i \in Loaded(n)
<1>1. /\ pos \in Nat /\ bcount \in Nat /\ pos * ByteBits \in Nat /\ n * ByteBits \in Nat
      /\ Word \in Nat
  BY WordFacts, BitsOfBytes, TypeFacts
<1>2. Unread = pos * ByteBits - bcount BY DEF Unread
<1> DEFINE P == pos * ByteBits
           N == n * ByteBits
<1>3. Loaded(n) = {bcount + i : i \in {j \in 0 .. N - 1 : P + j \in body.ones /\ bcount + j < Word}}
  BY DEF Loaded
<1>4. P \in Nat /\ N \in Nat /\ Unread = P - bcount BY <1>1, <1>2
<1> HIDE DEF P, N
<1>5. ASSUME NEW i \in Loaded(n) PROVE i \in 0 .. Word - 1 /\ Unread + i \in body.ones
  <2>1. PICK j \in 0 .. N - 1 : P + j \in body.ones /\ bcount + j < Word /\ i = bcount + j
    BY <1>3
  <2>2. Unread + i = P + j BY <1>1, <1>4, <2>1, SMT
  <2>3. i \in 0 .. Word - 1 BY <1>1, <1>4, <2>1, SMT
  <2>4. QED BY <2>1, <2>2, <2>3
<1>6. ASSUME NEW i \in 0 .. Word - 1, bcount <= i, i < bcount + N, Unread + i \in body.ones
      PROVE  i \in Loaded(n)
  <2>1. i - bcount \in 0 .. N - 1 /\ bcount + (i - bcount) = i BY <1>1, <1>4, <1>6, SMT
  <2>2. P + (i - bcount) = Unread + i BY <1>1, <1>4, SMT
  <2>3. P + (i - bcount) \in body.ones /\ bcount + (i - bcount) < Word
    BY <1>1, <1>6, <2>1, <2>2, SMT
  <2>4. QED BY <1>3, <2>1, <2>3
<1>7. QED BY <1>5, <1>6 DEF N

-----------------------------------------------------------------------------
(***************************************************************************)
(* What every refill guarantees, Kept included: the same bits are unread,  *)
(* and fewer than Full are valid only at the end of the body.              *)
(***************************************************************************)
Loads(r) ==
  /\ r.pos \in 0 .. Bytes
  /\ r.cache \subseteq 0 .. Word - 1
  /\ r.count \in 0 .. Word - 1
  /\ r.pos * ByteBits - r.count = Unread
  /\ \A i \in r.cache : Unread + i \in body.ones
  /\ \A i \in 0 .. r.count - 1 : Unread + i \in body.ones => i \in r.cache

LEMMA KeptLoads == ASSUME Typed, CacheSound PROVE Loads(Kept)
  BY TypeFacts DEF Loads, Kept, Typed, ReaderTypeOK, CacheSound

\* The two ways to load n bytes differ in n only.
LEMMA LoadingLoads ==
  ASSUME Typed, CacheSound, NEW n \in Nat, NEW m \in Nat, NEW c \in 0 .. Word - 1,
         n <= m, pos + n <= Bytes, c = bcount + n * ByteBits
  PROVE  Loads([pos |-> pos + n, cache |-> bcache \cup Loaded(m), count |-> c])
<1>1. /\ pos \in Nat /\ bcount \in Nat /\ pos * ByteBits \in Nat /\ Unread \in Nat
      /\ Unread = pos * ByteBits - bcount /\ bcount < Word /\ Bytes \in Nat
  BY TypeFacts
<1>2. /\ n * ByteBits \in Nat /\ m * ByteBits \in Nat /\ n * ByteBits <= m * ByteBits
      /\ (pos + n) * ByteBits = pos * ByteBits + n * ByteBits
  BY <1>1, BitsOfBytes
<1>3. /\ Loaded(m) \subseteq 0 .. Word - 1
      /\ \A i \in Loaded(m) : Unread + i \in body.ones
      /\ \A i \in 0 .. Word - 1 :
           (bcount <= i /\ i < bcount + m * ByteBits /\ Unread + i \in body.ones)
             => i \in Loaded(m)
  BY LoadedBits
<1>4. pos + n \in 0 .. Bytes BY <1>1
<1>5. (pos + n) * ByteBits - c = Unread BY <1>1, <1>2, SMT
<1>6. bcache \cup Loaded(m) \subseteq 0 .. Word - 1 BY <1>3 DEF Typed, ReaderTypeOK
<1>7. \A i \in bcache \cup Loaded(m) : Unread + i \in body.ones BY <1>3 DEF CacheSound
<1>8. ASSUME NEW i \in 0 .. c - 1, Unread + i \in body.ones
      PROVE  i \in bcache \cup Loaded(m)
  <2>1. CASE i < bcount
    <3>1. i \in 0 .. bcount - 1 BY <1>1, <2>1
    <3>2. QED BY <1>8, <3>1 DEF CacheSound
  <2>2. CASE bcount <= i
    <3>1. i \in 0 .. Word - 1 /\ i < bcount + m * ByteBits BY <1>1, <1>2, WordFacts
    <3>2. QED BY <1>3, <1>8, <2>2, <3>1
  <2>3. QED BY <1>1, <2>1, <2>2
<1>9. QED BY <1>4, <1>5, <1>6, <1>7, <1>8 DEF Loads

LEMMA RefillLoads ==
  ASSUME Typed, CacheSound
  PROVE  Loads(Refill) /\ (Refill.count < Full => Refill.pos = Bytes)
<1>1. /\ pos \in Nat /\ Bytes \in Nat /\ pos <= Bytes /\ bcount \in Nat /\ bcount < Word
  BY TypeFacts
<1>2. /\ ByteBits \in Nat \ {0} /\ CacheBytes \in Nat /\ CacheBytes >= 2
      /\ Full \in Nat /\ Word \in Nat /\ Word = Full + ByteBits
      /\ Full = (CacheBytes - 1) * ByteBits /\ Word = CacheBytes * ByteBits
  BY WordAssumption, WordFacts
<1>3. CASE bcount >= Full
  <2>1. Refill = Kept BY <1>3 DEF Refill
  <2>2. ~(Kept.count < Full) BY <1>1, <1>2, <1>3 DEF Kept
  <2>3. QED BY <2>1, <2>2, KeptLoads
<1>4. CASE bcount < Full /\ pos + CacheBytes <= Bytes
  <2> DEFINE n == (Word - 1 - bcount) \div ByteBits
             c == Full + (bcount % ByteBits)
  <2>1. Refill = [pos |-> pos + n, cache |-> bcache \cup Loaded(CacheBytes), count |-> c]
    BY <1>1, <1>2, <1>4 DEF Refill, Bulk
  <2>2. n = (CacheBytes * ByteBits - 1 - bcount) \div ByteBits BY <1>2
  <2>3. /\ n \in 0 .. CacheBytes
        /\ bcount + n * ByteBits = (CacheBytes - 1) * ByteBits + (bcount % ByteBits)
        /\ bcount % ByteBits \in 0 .. ByteBits - 1
    BY <1>1, <1>2, <1>4, <2>2, BulkAdvance
  <2>4. c = bcount + n * ByteBits /\ c \in 0 .. Word - 1 /\ ~(c < Full)
    <3> DEFINE r == bcount % ByteBits
               p == n * ByteBits
    <3>1. bcount + p = Full + r /\ r \in 0 .. ByteBits - 1 /\ c = Full + r BY <1>2, <2>3
    <3> HIDE DEF r, p, c
    <3>2. c \in 0 .. Word - 1 /\ ~(c < Full) BY <1>2, <3>1
    <3>3. QED BY <3>1, <3>2 DEF p
  <2> HIDE DEF n, c
  <2>5. n \in Nat /\ n <= CacheBytes /\ pos + n <= Bytes BY <1>1, <1>2, <1>4, <2>3
  <2>6. Loads([pos |-> pos + n, cache |-> bcache \cup Loaded(CacheBytes), count |-> c])
    BY <1>2, <2>4, <2>5, LoadingLoads
  <2>7. ~(Refill.count < Full) BY <2>1, <2>4
  <2>8. QED BY <2>1, <2>6, <2>7
<1>5. CASE bcount < Full /\ ~(pos + CacheBytes <= Bytes)
  <2> DEFINE m == (Full - bcount + ByteBits - 1) \div ByteBits
             n == Least(Bytes - pos, m)
             c == bcount + n * ByteBits
  <2>1. Refill = [pos |-> pos + n, cache |-> bcache \cup Loaded(n), count |-> c]
    BY <1>1, <1>2, <1>5 DEF Refill, ByteWise
  <2>2. m = ((CacheBytes - 1) * ByteBits - bcount + ByteBits - 1) \div ByteBits BY <1>2
  <2>3. /\ m \in Nat /\ m > 0
        /\ bcount + m * ByteBits >= Full /\ bcount + m * ByteBits <= Word - 1
    BY <1>1, <1>2, <1>5, <2>2, TailNeeds
  <2> HIDE DEF m
  <2>4. n \in Nat /\ n <= m /\ pos + n <= Bytes /\ (n = m \/ pos + n = Bytes)
    BY <1>1, <2>3 DEF Least
  <2> HIDE DEF n
  <2>5. n * ByteBits \in Nat /\ m * ByteBits \in Nat /\ n * ByteBits <= m * ByteBits
    BY <2>3, <2>4, BitsOfBytes
  <2>6. c \in 0 .. Word - 1 BY <1>1, <1>2, <2>3, <2>5, SMT
  <2>7. Loads([pos |-> pos + n, cache |-> bcache \cup Loaded(n), count |-> c])
    BY <2>4, <2>6, LoadingLoads
  <2>8. c < Full => pos + n = Bytes
    <3>1. n = m => c >= Full BY <2>3
    <3>2. c \in Int /\ Full \in Int BY <1>2, <2>6
    <3> HIDE DEF c
    <3>3. QED BY <2>4, <3>1, <3>2
  <2> HIDE DEF c
  <2>9. QED BY <2>1, <2>7, <2>8
<1>6. QED BY <1>1, <1>2, <1>3, <1>4, <1>5

-----------------------------------------------------------------------------
\* Handing out k valid bits of what was loaded.

LEMMA ShiftedSound ==
  ASSUME NEW r, Loads(r), Typed, NEW k \in Nat, k <= r.count
  PROVE  /\ ShiftRight(r.cache, k) \subseteq 0 .. Word - 1
         /\ r.count - k \in 0 .. Word - 1
         /\ r.count - k <= r.pos * ByteBits
         /\ r.pos * ByteBits - (r.count - k) = Unread + k
         /\ \A i \in ShiftRight(r.cache, k) : Unread + k + i \in body.ones
         /\ \A i \in 0 .. r.count - k - 1 :
              Unread + k + i \in body.ones => i \in ShiftRight(r.cache, k)
<1>1. Unread \in Nat /\ Word \in Nat BY TypeFacts, WordFacts
<1>2. /\ r.pos \in Nat /\ r.count \in 0 .. Word - 1 /\ r.cache \subseteq 0 .. Word - 1
      /\ r.pos * ByteBits - r.count = Unread
      /\ \A i \in r.cache : Unread + i \in body.ones
      /\ \A i \in 0 .. r.count - 1 : Unread + i \in body.ones => i \in r.cache
  BY TypeFacts DEF Loads
<1>3. r.pos * ByteBits \in Nat BY <1>2, BitsOfBytes
<1> DEFINE c == r.count
           P == r.pos * ByteBits
           S == ShiftRight(r.cache, k)
<1>4. S = {p - k : p \in {q \in r.cache : q >= k}} BY DEF ShiftRight
<1>5. c \in 0 .. Word - 1 /\ P \in Nat /\ P - c = Unread /\ k <= c BY <1>2, <1>3
<1> HIDE DEF c, P, S
<1>6. c - k \in 0 .. Word - 1 /\ c - k <= P /\ P - (c - k) = Unread + k BY <1>1, <1>5, SMT
<1>7. ASSUME NEW i \in S PROVE i \in 0 .. Word - 1 /\ Unread + k + i \in body.ones
  <2>1. PICK p \in r.cache : p >= k /\ i = p - k BY <1>4
  <2>2. p \in 0 .. Word - 1 /\ Unread + p \in body.ones BY <1>2
  <2>3. Unread + k + i = Unread + p BY <1>1, <2>1, <2>2
  <2>4. QED BY <1>1, <2>1, <2>2, <2>3
<1>8. ASSUME NEW i \in 0 .. c - k - 1, Unread + k + i \in body.ones PROVE i \in S
  <2>1. i + k \in 0 .. c - 1 /\ Unread + (i + k) = Unread + k + i /\ (i + k) - k = i
    BY <1>1, <1>5
  <2>2. i + k \in r.cache BY <1>2, <1>8, <2>1 DEF c
  <2>3. i + k >= k BY <1>5
  <2>4. QED BY <1>4, <2>1, <2>2, <2>3
<1>9. QED BY <1>6, <1>7, <1>8 DEF c, P, S

\* A run of ones shorter than the valid width, and one that fills it.
LEMMA RunOfOnes ==
  ASSUME NEW r, Loads(r), Typed, NEW n \in Nat, TrailingOnes(r.cache, n)
  PROVE  /\ \A i \in 0 .. n - 1 : Unread + i \in body.ones
         /\ n < r.count => Unread + n \notin body.ones
<1>1. \A i \in 0 .. n - 1 : i \in r.cache BY DEF TrailingOnes
<1>2. n \notin r.cache BY DEF TrailingOnes
<1>3. ASSUME n < r.count PROVE Unread + n \notin body.ones
  <2>1. r.count \in Int BY WordFacts DEF Loads
  <2>2. n \in 0 .. r.count - 1 BY <1>3, <2>1
  <2>3. QED BY <1>2, <2>2 DEF Loads
<1>4. QED BY <1>1, <1>3 DEF Loads

-----------------------------------------------------------------------------
\* From what was loaded to the next state, with h more bits handed out.
LEMMA NextSound ==
  ASSUME Typed, NEW r, Loads(r), NEW h \in Nat, body' = body, pos' = r.pos,
         bcache' \subseteq 0 .. Word - 1, bcount' \in 0 .. Word - 1,
         bcount' <= r.pos * ByteBits, r.pos * ByteBits - bcount' = Unread + h,
         \A i \in bcache' : Unread + h + i \in body.ones,
         \A i \in 0 .. bcount' - 1 : Unread + h + i \in body.ones => i \in bcache',
         phase' \in {"idle", "unary"}, run' \in Nat
  PROVE  Typed' /\ CacheSound' /\ Unread' = Unread + h
<1>1. Unread' = Unread + h BY DEF Unread
<1>2. Bytes' = Bytes BY DEF Bytes
<1>3. Typed' BY <1>2 DEF Typed, ReaderTypeOK, Loads, Word
<1>4. CacheSound' BY <1>1 DEF CacheSound
<1>5. QED BY <1>1, <1>3, <1>4

LEMMA InitSound == ReaderInit => IInv /\ Cursor!Init
<1> SUFFICES ASSUME ReaderInit PROVE IInv /\ Cursor!Init OBVIOUS
<1>1. /\ body \in Bodies /\ pos = 0 /\ bcache = {} /\ bcount = 0 /\ phase = "idle" /\ run = 0
      /\ answer = BitsRead({})
  BY DEF ReaderInit
<1>2. Bytes \in Nat BY <1>1, BodyFacts DEF Bytes
<1>3. ByteBits \in Nat /\ Word \in Nat /\ Word > 0 BY WordAssumption, WordFacts
<1>4. pos * ByteBits = 0
  <2>1. 0 * ByteBits = 0 BY <1>3, SMT
  <2>2. QED BY <1>1, <2>1
<1>5. Unread = 0 BY <1>1, <1>4 DEF Unread
<1>6. Typed BY <1>1, <1>2, <1>3, <1>4 DEF Typed, ReaderTypeOK
<1>7. CacheSound BY <1>1 DEF CacheSound
<1>8. RunSound BY <1>1, <1>5 DEF RunSound
<1>9. Unread - run = 0 BY <1>1, <1>5
<1>10. Cursor!Init BY <1>1, <1>9 DEF Cursor!Init, Cursor!BitsRead, BitsRead
<1>11. QED BY <1>6, <1>7, <1>8, <1>10 DEF IInv

LEMMA ReadBitsStep ==
  ASSUME IInv, NEW k \in Widths, ReadBits(k)
  PROVE  IInv' /\ Cursor!ReadBits(k)
<1> DEFINE r == IF bcount < k THEN Refill ELSE Kept
<1>1. Typed /\ CacheSound /\ phase = "idle" /\ run = 0 BY DEF IInv, RunSound, ReadBits
<1>2. /\ pos \in Nat /\ bcount \in Nat /\ Unread \in Nat /\ body.bits \in Nat
      /\ Bytes * ByteBits = body.bits /\ Bytes \in Nat
  BY <1>1, TypeFacts
<1>3. k \in Nat /\ k <= Full /\ Full \in Nat /\ Word \in Nat
  BY WidthsAssumption, WordFacts
<1>4. Loads(r) BY <1>1, KeptLoads, RefillLoads
<1>5. /\ body' = body /\ pos' = r.pos /\ phase' = phase /\ run' = run
      /\ IF r.count < k
         THEN answer' = Truncated /\ bcache' = r.cache /\ bcount' = r.count
         ELSE /\ answer' = BitsRead(r.cache \cap 0 .. k - 1)
              /\ bcache' = ShiftRight(r.cache, k)
              /\ bcount' = r.count - k
  BY DEF ReadBits
<1>6. r.count < k => r.pos = Bytes
  <2> SUFFICES ASSUME r.count < k PROVE r.pos = Bytes OBVIOUS
  <2>1. bcount < k
    <3> SUFFICES ASSUME ~(bcount < k) PROVE FALSE OBVIOUS
    <3>1. r.count = bcount BY DEF Kept
    <3>2. QED BY <3>1
  <2>2. r = Refill BY <2>1
  <2>3. Refill.count < Full
    <3>1. Refill.count < k /\ Refill.count \in Int BY <1>4, <2>2, <1>3 DEF Loads
    <3>2. QED BY <3>1, <1>3
  <2>4. QED BY <1>1, <2>2, <2>3, RefillLoads
<1> HIDE DEF r
<1>7. /\ r.pos \in Nat /\ r.pos <= Bytes /\ r.count \in 0 .. Word - 1
      /\ r.pos * ByteBits - r.count = Unread /\ r.pos * ByteBits \in Nat
      /\ r.pos * ByteBits <= body.bits
  <2>1. /\ r.pos \in Nat /\ r.pos <= Bytes /\ r.count \in 0 .. Word - 1
        /\ r.pos * ByteBits - r.count = Unread
    BY <1>2, <1>4 DEF Loads
  <2>2. r.pos * ByteBits \in Nat /\ r.pos * ByteBits <= Bytes * ByteBits
    BY <1>2, <2>1, BitsOfBytes
  <2>3. QED BY <1>2, <2>1, <2>2
<1>8. Unread - run = Unread BY <1>1, <1>2
<1>9. CASE r.count < k
  <2>1. answer' = Truncated /\ bcache' = r.cache /\ bcount' = r.count BY <1>5, <1>9
  <2>2. /\ r.count <= r.pos * ByteBits /\ r.pos * ByteBits - r.count = Unread + 0
    BY <1>2, <1>7
  <2>3. /\ \A i \in r.cache : Unread + 0 + i \in body.ones
        /\ \A i \in 0 .. r.count - 1 : Unread + 0 + i \in body.ones => i \in r.cache
        /\ r.cache \subseteq 0 .. Word - 1
    <3>1. Unread + 0 = Unread BY <1>2
    <3>2. QED BY <1>4, <3>1 DEF Loads
  <2>4. Typed' /\ CacheSound' /\ Unread' = Unread + 0
    <3>1. phase' \in {"idle", "unary"} /\ run' \in Nat BY <1>1, <1>5
    <3>2. QED BY <1>1, <1>4, <1>5, <1>7, <2>1, <2>2, <2>3, <3>1, NextSound
  <2>5. ~(Unread + k <= body.bits)
    <3>1. r.pos * ByteBits = body.bits BY <1>2, <1>6, <1>9
    <3>2. QED BY <1>2, <1>3, <1>7, <1>9, <3>1
  <2>6. Unread' - run' = Unread BY <1>1, <1>2, <1>5, <2>4
  <2>7. Cursor!ReadBits(k)
    BY <1>5, <1>8, <2>1, <2>5, <2>6 DEF Cursor!ReadBits, Cursor!Truncated, Truncated
  <2>8. RunSound' BY <1>1, <1>2, <1>5, <2>4 DEF RunSound
  <2>9. QED BY <2>4, <2>7, <2>8 DEF IInv
<1>10. CASE ~(r.count < k)
  <2>1. /\ answer' = BitsRead(r.cache \cap 0 .. k - 1)
        /\ bcache' = ShiftRight(r.cache, k) /\ bcount' = r.count - k
    BY <1>5, <1>10
  <2>2. k <= r.count BY <1>3, <1>7, <1>10
  <2>3. /\ bcache' \subseteq 0 .. Word - 1 /\ bcount' \in 0 .. Word - 1
        /\ bcount' <= r.pos * ByteBits /\ r.pos * ByteBits - bcount' = Unread + k
        /\ \A i \in bcache' : Unread + k + i \in body.ones
        /\ \A i \in 0 .. bcount' - 1 : Unread + k + i \in body.ones => i \in bcache'
    BY <1>1, <1>3, <1>4, <2>1, <2>2, ShiftedSound
  <2>4. Typed' /\ CacheSound' /\ Unread' = Unread + k
    <3>1. phase' \in {"idle", "unary"} /\ run' \in Nat BY <1>1, <1>5
    <3>2. QED BY <1>1, <1>3, <1>4, <1>5, <2>3, <3>1, NextSound
  <2>5. Unread + k <= body.bits BY <1>2, <1>3, <1>7, <2>2
  <2>6. Unread' - run' = Unread + k BY <1>1, <1>2, <1>3, <1>5, <2>4
  <2>7. r.cache \cap 0 .. k - 1 = {i \in 0 .. k - 1 : Unread + i \in body.ones}
    <3>1. ASSUME NEW i \in 0 .. k - 1 PROVE i \in r.cache <=> Unread + i \in body.ones
      <4>1. i \in 0 .. r.count - 1 BY <1>3, <1>7, <2>2
      <4>2. QED BY <1>4, <4>1 DEF Loads
    <3>2. QED BY <3>1
  <2>8. Cursor!ReadBits(k)
    BY <1>5, <1>8, <2>1, <2>5, <2>6, <2>7
    DEF Cursor!ReadBits, Cursor!BitsRead, Cursor!BitsAt, BitsRead
  <2>9. RunSound' BY <1>1, <1>2, <1>3, <1>5, <2>4 DEF RunSound
  <2>10. QED BY <2>4, <2>8, <2>9 DEF IInv
<1>11. QED BY <1>9, <1>10

\* Entering read_unary changes nothing the caller can see.
LEMMA ReadUnaryStep ==
  ASSUME IInv, ReadUnary
  PROVE  IInv' /\ UNCHANGED <<body, Unread - run, answer>>
<1>1. Typed /\ CacheSound /\ run = 0 BY DEF IInv, RunSound, ReadUnary
<1>2. UNCHANGED <<body, pos, bcache, bcount, answer>> /\ run' = 0 /\ phase' = "unary"
  BY DEF ReadUnary
<1>3. Unread \in Nat BY <1>1, TypeFacts
<1>4. Unread' = Unread BY <1>2 DEF Unread
<1>5. Typed' BY <1>1, <1>2 DEF Typed, ReaderTypeOK, Bytes, Word
<1>6. CacheSound' BY <1>1, <1>2, <1>4 DEF CacheSound
<1>7. RunSound' BY <1>2, <1>3, <1>4 DEF RunSound
<1>8. (Unread - run)' = Unread - run BY <1>1, <1>2, <1>4
<1>9. QED BY <1>2, <1>5, <1>6, <1>7, <1>8 DEF IInv

\* A turn of the loop swallows ones unseen, or is the caller's whole read.
LEMMA UnaryTurnStep ==
  ASSUME IInv, ReaderUnaryTurn
  PROVE  /\ IInv'
         /\ \/ \E n \in 0 .. body.bits : Cursor!ReadUnary(n)
            \/ UNCHANGED <<body, Unread - run, answer>>
<1> DEFINE r == IF bcount = 0 THEN Refill ELSE Kept
           h == Unread - run
<1>1. /\ Typed /\ CacheSound /\ run \in Nat /\ run <= Unread
      /\ \A i \in 0 .. run - 1 : h + i \in body.ones
  BY TypeFacts DEF IInv, RunSound
<1>2. /\ bcount \in Nat /\ Unread \in Nat /\ body.bits \in Nat
      /\ Bytes * ByteBits = body.bits /\ Bytes \in Nat
  BY <1>1, TypeFacts
<1>3. Full \in Nat /\ Full > 0 /\ Word \in Nat /\ Word > 0 BY WordFacts, WordAssumption
<1>4. Loads(r) BY <1>1, KeptLoads, RefillLoads
<1>5. PICK ones \in 0 .. Word :
        /\ TrailingOnes(r.cache, ones)
        /\ IF Exhausted(r)
           THEN Return(Truncated) /\ bcache' = r.cache /\ bcount' = 0
           ELSE IF Ends(r, ones)
           THEN /\ Return(OnesRead(run + ones))
                /\ bcache' = ShiftRight(r.cache, ones + 1)
                /\ bcount' = r.count - (ones + 1)
           ELSE Swallow(r) /\ UNCHANGED <<phase, answer>>
  BY DEF ReaderUnaryTurn
<1>6. body' = body /\ pos' = r.pos /\ phase = "unary" BY DEF ReaderUnaryTurn
<1>7. r.count = 0 => r.pos = Bytes
  <2> SUFFICES ASSUME r.count = 0 PROVE r.pos = Bytes OBVIOUS
  <2>1. bcount = 0
    <3> SUFFICES ASSUME bcount # 0 PROVE FALSE OBVIOUS
    <3>1. r.count = bcount BY DEF Kept
    <3>2. QED BY <3>1
  <2>2. r = Refill BY <2>1
  <2>3. Refill.count < Full BY <1>3, <2>2
  <2>4. QED BY <1>1, <2>2, <2>3, RefillLoads
<1> HIDE DEF r
<1>8. /\ ones \in Nat
      /\ \A i \in 0 .. ones - 1 : Unread + i \in body.ones
      /\ ones < r.count => Unread + ones \notin body.ones
  <2>1. ones \in Nat BY <1>3
  <2>2. QED BY <1>1, <1>4, <1>5, <2>1, RunOfOnes
<1>9. /\ r.pos \in Nat /\ r.pos <= Bytes /\ r.count \in 0 .. Word - 1
      /\ r.pos * ByteBits - r.count = Unread /\ r.pos * ByteBits \in Nat
      /\ r.pos * ByteBits <= body.bits
  <2>1. /\ r.pos \in Nat /\ r.pos <= Bytes /\ r.count \in 0 .. Word - 1
        /\ r.pos * ByteBits - r.count = Unread
    BY <1>2, <1>4 DEF Loads
  <2>2. r.pos * ByteBits \in Nat /\ r.pos * ByteBits <= Bytes * ByteBits
    BY <1>2, <2>1, BitsOfBytes
  <2>3. QED BY <1>2, <2>1, <2>2
<1>10. h \in Nat /\ h + run = Unread BY <1>1, <1>2
<1> HIDE DEF h
<1>11. CASE Exhausted(r)
  <2>1. /\ phase' = "idle" /\ answer' = Truncated /\ run' = 0
        /\ bcache' = r.cache /\ bcount' = 0
    BY <1>5, <1>11 DEF Return
  <2>2. r.count = 0 /\ r.pos = Bytes BY <1>7, <1>11 DEF Exhausted
  <2>3. Unread = body.bits BY <1>2, <1>9, <2>2
  <2>4. Typed' /\ CacheSound' /\ Unread' = Unread + 0
    <3>1. /\ bcache' \subseteq 0 .. Word - 1 /\ bcount' \in 0 .. Word - 1
          /\ bcount' <= r.pos * ByteBits /\ r.pos * ByteBits - bcount' = Unread + 0
      BY <1>2, <1>3, <1>4, <1>9, <2>1, <2>2 DEF Loads
    <3>2. Unread + 0 = Unread BY <1>2
    <3>3. /\ \A i \in bcache' : Unread + 0 + i \in body.ones
          /\ \A i \in 0 .. bcount' - 1 : Unread + 0 + i \in body.ones => i \in bcache'
      BY <1>4, <2>1, <2>2, <3>2 DEF Loads
    <3>4. phase' \in {"idle", "unary"} /\ run' \in Nat BY <2>1
    <3>5. 0 \in Nat OBVIOUS
    <3>6. QED BY <1>1, <1>4, <1>6, <3>1, <3>3, <3>4, <3>5, NextSound
  <2>5. Unread' - run' = body.bits BY <1>2, <2>1, <2>3, <2>4
  <2>6. RunSound' BY <1>2, <2>1, <2>4 DEF RunSound
  <2>7. run \in 0 .. body.bits BY <1>1, <1>2, <2>3
  <2>8. Cursor!ReadUnary(run)
    <3>1. h + run = body.bits BY <1>10, <2>3
    <3>2. QED BY <1>1, <1>6, <2>1, <2>5, <3>1
          DEF h, Cursor!ReadUnary, Cursor!OnesFrom, Cursor!Truncated, Truncated
  <2>9. QED BY <2>4, <2>6, <2>7, <2>8 DEF IInv
<1>12. CASE ~Exhausted(r) /\ Ends(r, ones)
  <2> DEFINE n == run + ones
             k == ones + 1
  <2>1. /\ phase' = "idle" /\ answer' = OnesRead(n) /\ run' = 0
        /\ bcache' = ShiftRight(r.cache, k) /\ bcount' = r.count - k
    BY <1>5, <1>12 DEF Return
  <2>2. ones < r.count BY <1>12 DEF Ends
  <2>3. n \in Nat /\ k \in Nat /\ k <= r.count /\ h + n = Unread + ones
        /\ Unread + k = h + n + 1 /\ h + n < body.bits
    BY <1>1, <1>2, <1>8, <1>9, <1>10, <2>2
  <2>4. OnesRead(n) = [ones |-> n] BY DEF OnesRead
  <2>5. Typed' /\ CacheSound' /\ Unread' = Unread + k
    <3>1. /\ ShiftRight(r.cache, k) \subseteq 0 .. Word - 1
          /\ r.count - k \in 0 .. Word - 1
          /\ r.count - k <= r.pos * ByteBits
          /\ r.pos * ByteBits - (r.count - k) = Unread + k
          /\ \A i \in ShiftRight(r.cache, k) : Unread + k + i \in body.ones
          /\ \A i \in 0 .. r.count - k - 1 :
               Unread + k + i \in body.ones => i \in ShiftRight(r.cache, k)
      <4>1. k \in Nat /\ k <= r.count BY <2>3
      <4> HIDE DEF k
      <4>2. QED BY <1>1, <1>4, <4>1, ShiftedSound
    <3>2. phase' \in {"idle", "unary"} /\ run' \in Nat BY <2>1
    <3>3. k \in Nat BY <2>3
    <3> HIDE DEF k
    <3>4. QED BY <1>1, <1>4, <1>6, <2>1, <3>1, <3>2, <3>3, NextSound
  <2>6. Unread' - run' = h + n + 1
    <3>1. Unread' = h + n + 1 /\ run' = 0 BY <2>1, <2>3, <2>5
    <3>2. QED BY <1>10, <2>3, <3>1
  <2>7. ASSUME NEW i \in 0 .. n - 1 PROVE h + i \in body.ones
    <3>1. CASE i < run
      <4>1. i \in 0 .. run - 1 BY <1>1, <3>1
      <4>2. QED BY <1>1, <4>1
    <3>2. CASE run <= i
      <4>1. i - run \in 0 .. ones - 1 /\ Unread + (i - run) = h + i
        BY <1>1, <1>2, <1>8, <1>10, <3>2
      <4>2. QED BY <1>8, <4>1
    <3>3. QED BY <1>1, <3>1, <3>2
  <2>8. h + n \notin body.ones BY <1>8, <2>2, <2>3
  <2>9. n \in 0 .. body.bits /\ h + n # body.bits BY <1>2, <1>10, <2>3
  <2>10. RunSound' BY <1>2, <2>1, <2>3, <2>5 DEF RunSound
  <2> HIDE DEF n, k
  <2>11. Cursor!ReadUnary(n)
    BY <1>6, <2>1, <2>3, <2>4, <2>6, <2>7, <2>8, <2>9
    DEF h, Cursor!ReadUnary, Cursor!OnesFrom, Cursor!OnesRead
  <2>12. QED BY <2>5, <2>9, <2>10, <2>11 DEF IInv
<1>13. CASE ~Exhausted(r) /\ ~Ends(r, ones)
  <2> DEFINE c == r.count
  <2>1. /\ run' = run + c /\ bcache' = {} /\ bcount' = 0
        /\ phase' = phase /\ answer' = answer
    BY <1>5, <1>13 DEF Swallow
  <2>2. c \in Nat /\ c <= ones BY <1>3, <1>8, <1>9, <1>13 DEF Ends
  <2>3. Typed' /\ CacheSound' /\ Unread' = Unread + c
    <3>1. /\ bcount' \in 0 .. Word - 1 /\ bcount' <= r.pos * ByteBits
          /\ r.pos * ByteBits - bcount' = Unread + c
      BY <1>2, <1>3, <1>9, <2>1
    <3>2. phase' \in {"idle", "unary"} /\ run' \in Nat BY <1>1, <1>6, <2>1, <2>2
    <3>3. /\ bcache' \subseteq 0 .. Word - 1
          /\ \A i \in bcache' : Unread + c + i \in body.ones
          /\ \A i \in 0 .. bcount' - 1 : Unread + c + i \in body.ones => i \in bcache'
      BY <2>1
    <3>4. QED BY <1>1, <1>4, <1>6, <2>2, <3>1, <3>2, <3>3, NextSound
  <2> HIDE DEF c
  <2>4. (Unread - run)' = Unread - run BY <1>1, <1>2, <2>1, <2>2, <2>3
  <2>5. ASSUME NEW i \in 0 .. run' - 1 PROVE h + i \in body.ones
    <3>1. CASE i < run
      <4>1. i \in 0 .. run - 1 BY <1>1, <3>1
      <4>2. QED BY <1>1, <4>1
    <3>2. CASE run <= i
      <4>1. i - run \in 0 .. ones - 1 /\ Unread + (i - run) = h + i
        BY <1>1, <1>2, <1>8, <1>10, <2>1, <2>2, <3>2
      <4>2. QED BY <1>8, <4>1
    <3>3. QED BY <1>1, <2>1, <2>2, <3>1, <3>2
  <2>6. RunSound'
    <3>1. run' <= Unread' BY <1>1, <1>2, <2>1, <2>2, <2>3
    <3>2. QED BY <1>6, <2>1, <2>4, <2>5, <3>1 DEF RunSound, h
  <2>7. QED BY <1>6, <2>1, <2>3, <2>4, <2>6 DEF IInv
<1>14. QED BY <1>11, <1>12, <1>13

\* Every step keeps the invariant and is a step of the cursor, or a stutter.
LEMMA StepSound ==
  ASSUME IInv, [ReaderNext]_readerVars
  PROVE  IInv' /\ [Cursor!Next]_(Cursor!cursorVars)
<1>1. Cursor!cursorVars = <<body, Unread - run, answer>> BY DEF Cursor!cursorVars
<1>2. ASSUME NEW k \in Widths, ReadBits(k) PROVE IInv' /\ Cursor!Next
  BY <1>2, ReadBitsStep DEF Cursor!Next
<1>3. CASE ReadUnary BY <1>1, <1>3, ReadUnaryStep DEF Cursor!cursorVars
<1>4. CASE ReaderUnaryTurn
  BY <1>1, <1>4, UnaryTurnStep DEF Cursor!Next, Cursor!cursorVars
<1>5. CASE UNCHANGED readerVars
  <2>1. UNCHANGED <<body, Unread - run, answer>> BY <1>5 DEF readerVars, Unread
  <2>2. IInv' BY <1>5 DEF readerVars, IInv, Typed, ReaderTypeOK, CacheSound, RunSound, Unread, Bytes, Word
  <2>3. QED BY <2>1, <2>2 DEF Cursor!cursorVars
<1>6. QED BY <1>2, <1>3, <1>4, <1>5 DEF ReaderNext

-----------------------------------------------------------------------------
(***************************************************************************)
(* The reader never claims more bits than the word or the body holds.      *)
(***************************************************************************)
THEOREM TypeCorrect == ReaderSpec => []ReaderTypeOK
<1>1. ReaderInit => IInv BY InitSound
<1>2. IInv /\ [ReaderNext]_readerVars => IInv' BY StepSound
<1>3. IInv => ReaderTypeOK BY DEF IInv, Typed
<1>4. QED BY <1>1, <1>2, <1>3, PTL DEF ReaderSpec

(***************************************************************************)
(* Stale bits in the cache are always bits of the body: the bulk refill    *)
(* may OR the same byte in twice (bitreader.rs:16-21).                     *)
(***************************************************************************)
THEOREM CacheCorrect == ReaderSpec => []CacheSound
<1>1. ReaderInit => IInv BY InitSound
<1>2. IInv /\ [ReaderNext]_readerVars => IInv' BY StepSound
<1>3. IInv => CacheSound BY DEF IInv
<1>4. QED BY <1>1, <1>2, <1>3, PTL DEF ReaderSpec

(***************************************************************************)
(* The cached reader implements the plain cursor over the body's bits.     *)
(***************************************************************************)
THEOREM Refines == ReaderSpec => ReadsTheBody
<1>1. ReaderInit => IInv /\ Cursor!Init BY InitSound
<1>2. IInv /\ [ReaderNext]_readerVars => IInv' /\ [Cursor!Next]_(Cursor!cursorVars) BY StepSound
<1>3. QED BY <1>1, <1>2, PTL DEF ReaderSpec, ReadsTheBody, Cursor!Spec
=============================================================================
