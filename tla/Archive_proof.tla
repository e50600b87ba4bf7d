--------------------------- MODULE Archive_proof ---------------------------
(***************************************************************************)
(* For every width of the counts, every request and any tags: the encoder  *)
(* writes files of the kind its readers assume, made of the values that    *)
(* the readers give out; a scan does not outlive the file it read, finds   *)
(* the tags there are and nothing else; and tags survive a new encoding.   *)
(***************************************************************************)
EXTENDS Archive, Stream_proof

-----------------------------------------------------------------------------
(***************************************************************************)
(* The invariant.  Once the arguments are accepted, the blobs are those of *)
(* the reader's geometry, and the cursor stands behind the last of them;   *)
(* the places follow each other from the end of the seek table on.         *)
(***************************************************************************)
H == HeaderOf(TotalSamples)
N == FrameCount(H)
R == RegularFrameSamples(H)
Working == pc \in {"frames", "data", "written"}

Accepted ==
  /\ req \in RequestRecords /\ EncodeError(req) = NoError
  /\ req.format = 1 => req.key = ZeroDigest

BlobInv ==
  /\ blobs \in Seq(Blobs) /\ Len(blobs) <= N
  /\ \A i \in 1 .. Len(blobs) :
       /\ blobs[i].first = (i - 1) * R * req.channels
       /\ blobs[i].values = FrameSamples(H, i - 1) * req.channels
       /\ blobs[i].bytes > 4 /\ blobs[i].values <= 8 * (blobs[i].bytes - 4)
  /\ cursor = (IF Len(blobs) < N THEN Len(blobs) * R ELSE TotalSamples) * req.channels

PlaceInv ==
  /\ Len(blobs) = N
  /\ places \in Seq(Nat) /\ Len(places) <= N
  /\ end \in Nat /\ end > HEADER_LEN
  /\ end = IF Len(places) = 0 THEN HEADER_LEN + 4 * N + 4
           ELSE places[Len(places)] + blobs[Len(places)].bytes
  /\ \A i \in 1 .. Len(places) :
       /\ places[i] + blobs[i].bytes <= end
       /\ i = 1 => places[i] = HEADER_LEN + 4 * N + 4
       /\ i > 1 => places[i] = places[i - 1] + blobs[i - 1].bytes
  /\ \A i, j \in 1 .. Len(places) : i < j => places[i] + blobs[i].bytes <= places[j]

Encoding ==
  /\ pc \in {"idle", "refused", "frames", "data", "written"}
  /\ Working => Accepted /\ BlobInv
  /\ pc = "frames" => places = <<>>
  /\ pc \in {"data", "written"} => PlaceInv
  /\ pc = "written" => Len(places) = N

-----------------------------------------------------------------------------
\* What accepted arguments give.
LEMMA Shape ==
  ASSUME Accepted
  PROVE  /\ req.channels \in Nat /\ req.channels > 0 /\ req.channels \in 1 .. MAX_NCH
         /\ req.bps \in 16 .. 24 /\ req.rate \in 1 .. MAX_SAMPLE_RATE /\ req.format \in {1, 2}
         /\ req.values \in Nat /\ req.values % req.channels = 0 /\ req.key \in Digests
         /\ TotalSamples \in Nat /\ H \in HeaderRecords
         /\ H.total = TotalSamples /\ H.rate = req.rate
<1>1. req.channels # 0 /\ ~(req.channels > MAX_NCH) /\ req.bps \in 16 .. 24
      /\ req.rate # 0 /\ ~(req.rate > MAX_SAMPLE_RATE) /\ req.values % req.channels = 0
  BY DEF Accepted, EncodeError, NoError
<1>2. /\ req.values \in Nat /\ req.channels \in Nat /\ req.bps \in Nat /\ req.rate \in Nat
      /\ req.format \in {1, 2} /\ req.key \in Digests
  BY DEF Accepted, RequestRecords
<1>3. MAX_NCH \in Nat /\ MAX_SAMPLE_RATE \in Nat BY SMT DEF MAX_NCH, MAX_SAMPLE_RATE
<1>4. req.channels > 0 /\ req.channels \in 1 .. MAX_NCH BY <1>1, <1>2, <1>3
<1>5. req.rate \in 1 .. MAX_SAMPLE_RATE BY <1>1, <1>2, <1>3
<1>6. TotalSamples \in Nat
  <2>1. req.values \div req.channels \in Nat BY <1>2, <1>4, DivMod
  <2>2. QED BY <2>1, WidthAssumption, DivMod DEF TotalSamples
<1>7. H \in HeaderRecords
  BY <1>2, <1>6 DEF H, HeaderOf, HeaderRecords
<1>8. H.total = TotalSamples /\ H.rate = req.rate BY DEF H, HeaderOf
<1>9. QED BY <1>1, <1>2, <1>4, <1>5, <1>6, <1>7, <1>8

\* The encoder's geometry is the readers', and no frame of it is empty.
LEMMA SameGeometry ==
  ASSUME Accepted
  PROVE  /\ R \in Nat /\ R > 0 /\ N \in Nat /\ Regular = R
         /\ Geometry = FrameGeometry(H)
         /\ N = 0 => TotalSamples = 0
         /\ \A i \in 0 .. N - 1 :
              /\ Share(i) = FrameSamples(H, i)
              /\ FrameSamples(H, i) \in Nat /\ FrameSamples(H, i) > 0
<1>1. req.rate \in Nat /\ req.rate >= 1 /\ TotalSamples \in Nat /\ H \in HeaderRecords
      /\ H.total = TotalSamples /\ H.rate = req.rate
  <2>1. MAX_SAMPLE_RATE \in Nat BY SMT DEF MAX_SAMPLE_RATE
  <2>2. QED BY <2>1, Shape
<1>2. R = (req.rate * 256) \div 245 /\ Regular = R BY <1>1 DEF R, RegularFrameSamples, Regular
<1>3. R \in Nat /\ R > 0
  <2>1. req.rate * 256 \in Nat /\ req.rate * 256 >= 245 BY <1>1
  <2>2. QED BY <1>2, <2>1
<1>4. N \in Nat BY <1>1, GeometryType DEF N
<1>5. RegularFrameSamples(H) = R BY DEF R
<1> HIDE DEF R
<1>7. PICK T \in Nat : T = TotalSamples BY <1>1
<1>8. /\ T \div R \in Nat /\ T % R \in Nat /\ T % R < R /\ T = R * (T \div R) + (T % R)
  BY <1>3, DivMod
<1>9. FrameGeometry(H) =
        IF T = 0 THEN <<0, 0>>
        ELSE IF T % R = 0 THEN <<T \div R, R>> ELSE <<T \div R + 1, T % R>>
  BY <1>1, <1>3, <1>5, <1>7 DEF FrameGeometry
<1>6. Geometry = FrameGeometry(H)
  BY <1>2, <1>7, <1>9 DEF Geometry
<1>10. N = 0 => T = 0
  <2>1. CASE T % R = 0 BY <1>3, <1>7, <1>8, <1>9, <2>1, SMT DEF N, FrameCount
  <2>2. CASE T % R # 0 BY <1>8, <1>9, <2>2 DEF N, FrameCount
  <2>3. QED BY <2>1, <2>2
<1>11. LastFrameSamples(H) \in Nat /\ (N > 0 => LastFrameSamples(H) > 0)
  BY <1>3, <1>8, <1>9 DEF N, FrameCount, LastFrameSamples
<1>12. ASSUME NEW i \in 0 .. N - 1
       PROVE  /\ Share(i) = FrameSamples(H, i)
              /\ FrameSamples(H, i) \in Nat /\ FrameSamples(H, i) > 0
  <2>1. Share(i) = FrameSamples(H, i)
    BY <1>2, <1>5, <1>6, Zenon DEF Share, FrameSamples, FrameCount, LastFrameSamples
  <2>2. FrameSamples(H, i) \in {R, LastFrameSamples(H)} BY <1>5 DEF FrameSamples
  <2>3. N > 0 BY <1>4, <1>12
  <2>4. QED BY <1>3, <1>11, <2>1, <2>2, <2>3
<1>13. QED BY <1>2, <1>3, <1>4, <1>6, <1>7, <1>10, <1>12

\* A body holds at least a bit per residual.
LEMMA BlobSize ==
  ASSUME NEW n \in Nat, n > 0, NEW slack \in Nat
  PROVE  /\ BlobBytes(n, slack) \in Nat /\ BlobBytes(n, slack) > 4
         /\ n <= 8 * (BlobBytes(n, slack) - 4)
<1>1. PICK q \in Nat : q = (n + 7) \div 8 /\ 8 * q >= n BY SMT
<1>2. q > 0 BY <1>1
<1>3. BlobBytes(n, slack) = q + slack + 4 BY <1>1 DEF BlobBytes
<1>4. QED BY <1>1, <1>2, <1>3

-----------------------------------------------------------------------------
\* What the steps use of the geometry, also of that of the next request.
Measured ==
  /\ req.channels \in Nat /\ req.channels > 0
  /\ R \in Nat /\ R > 0 /\ N \in Nat /\ TotalSamples \in Nat
  /\ N = 0 => TotalSamples = 0

LEMMA AcceptedMeasured == Accepted => Measured
BY Shape, SameGeometry DEF Measured

LEMMA NextMeasured == Accepted' => Measured'
BY AcceptedMeasured, PTL

LEMMA RequestStays ==
  ASSUME req' = req
  PROVE  /\ H' = H /\ N' = N /\ R' = R /\ TotalSamples' = TotalSamples
         /\ Accepted' = Accepted
<1>1. TotalSamples' = TotalSamples BY DEF TotalSamples
<1>2. H' = H BY <1>1 DEF H, HeaderOf
<1>3. QED BY <1>1, <1>2 DEF N, R, Accepted

\* Nothing of the encoder's has changed but where it stands.
LEMMA EncodingStays ==
  ASSUME Encoding, UNCHANGED <<req, cursor, blobs, places, end>>, pc' = pc \/ pc' = "idle"
  PROVE  Encoding'
<1>1. H' = H /\ N' = N /\ R' = R /\ TotalSamples' = TotalSamples /\ Accepted' = Accepted
  BY RequestStays
<1>2. BlobInv' = BlobInv BY <1>1 DEF BlobInv
<1>3. PlaceInv' = PlaceInv BY <1>1 DEF PlaceInv
<1>4. CASE pc' = pc BY <1>1, <1>2, <1>3, <1>4 DEF Encoding, Working
<1>5. CASE pc' = "idle" BY <1>5 DEF Encoding, Working
<1>6. QED BY <1>4, <1>5

LEMMA BeginStep ==
  ASSUME Encoding, NEW r \in Requests, Begin(r)
  PROVE  Encoding'
<1>1. CASE EncodeError(r) # NoError BY <1>1 DEF Begin, Encoding, Working
<1>2. CASE EncodeError(r) = NoError
  <2>1. pc' = "frames" /\ req' = r /\ cursor' = 0 /\ blobs' = <<>>
        /\ places' = <<>>
    BY <1>2 DEF Begin
  <2>2. r \in RequestRecords /\ (r.format = 1 => r.key = ZeroDigest)
    BY RequestsAssumption
  <2>3. Accepted' BY <1>2, <2>1, <2>2 DEF Accepted
  <2>4. Measured' BY <2>3, NextMeasured
  <2>5. BlobInv'
    <3>1. PICK n : n = N' OBVIOUS
    <3>2. PICK t : t = TotalSamples' OBVIOUS
    <3>3. PICK ch : ch = req'.channels OBVIOUS
    <3>4. PICK p : p = R' OBVIOUS
    <3>5. n \in Nat /\ t \in Nat /\ (n = 0 => t = 0) /\ ch \in Nat /\ p \in Nat
      BY <2>4, <3>1, <3>2, <3>3, <3>4 DEF Measured
    <3>6. blobs' \in Seq(Blobs) /\ Len(blobs') = 0 BY <2>1
    <3>7. 0 = (IF 0 < n THEN 0 * p ELSE t) * ch BY <3>5, SMT
    <3>8. \A i \in 1 .. Len(blobs') : FALSE BY <3>6
    <3>9. cursor' = (IF Len(blobs') < N' THEN Len(blobs') * R' ELSE TotalSamples') * req'.channels
      BY <2>1, <3>1, <3>2, <3>3, <3>4, <3>6, <3>7
    <3>10. Len(blobs') <= N' BY <3>1, <3>5, <3>6
    <3>11. QED BY <3>6, <3>8, <3>9, <3>10 DEF BlobInv
  <2>6. QED BY <2>1, <2>3, <2>5 DEF Encoding, Working
<1>3. QED BY <1>1, <1>2

LEMMA EncodeFrameStep ==
  ASSUME Encoding, NEW slack \in Slack, EncodeFrame(slack)
  PROVE  Encoding'
<1>1. pc = "frames" /\ pc' = "frames" /\ req' = req BY DEF EncodeFrame
<1>2. Accepted /\ BlobInv /\ Measured BY <1>1, AcceptedMeasured DEF Encoding, Working
<1>3. H' = H /\ N' = N /\ R' = R /\ TotalSamples' = TotalSamples /\ Accepted' = Accepted
  BY <1>1, RequestStays
<1>4. PICK ch, k, p, n, t : ch = req.channels /\ k = Len(blobs) /\ p = R /\ n = N /\ t = TotalSamples
  OBVIOUS
<1>5. /\ ch \in Nat /\ ch > 0 /\ k \in Nat /\ p \in Nat /\ n \in Nat /\ t \in Nat
      /\ blobs \in Seq(Blobs) /\ slack \in Nat
  BY <1>2, <1>4, WidthAssumption DEF Measured, BlobInv
<1>6. k < n
  <2>1. Geometry[1] = N BY <1>2, SameGeometry DEF N, FrameCount
  <2>2. QED BY <1>4, <2>1 DEF EncodeFrame
<1>7. PICK s \in Nat : s = FrameSamples(H, k) /\ s > 0 /\ Share(k) = s
  <2>1. k \in 0 .. N - 1 BY <1>4, <1>5, <1>6
  <2>2. QED BY <1>2, <2>1, SameGeometry
<1>8. PICK v \in Nat : v = s * ch /\ v > 0
  <2>1. s * ch \in Nat BY <1>5, ProductInNat
  <2>2. s * ch > 0 BY <1>5, <1>7, SMT
  <2>3. QED BY <2>1, <2>2
<1>9. PICK b : b = [first |-> cursor, values |-> v, bytes |-> BlobBytes(v, slack)] OBVIOUS
<1>10. /\ blobs' = Append(blobs, b) /\ cursor' = cursor + v
  BY <1>4, <1>7, <1>8, <1>9 DEF EncodeFrame
<1>11. cursor = (k * p) * ch /\ cursor \in Nat
  <2>1. cursor = (k * p) * ch BY <1>2, <1>4, <1>6 DEF BlobInv
  <2>2. QED BY <1>5, <2>1, SMT
<1>12. /\ b.bytes \in Nat /\ b.bytes > 4 /\ b.values = v /\ v <= 8 * (b.bytes - 4)
       /\ b.first = (k * p) * ch /\ b \in Blobs
  BY <1>5, <1>8, <1>9, <1>11, BlobSize DEF Blobs
<1>13. /\ blobs' \in Seq(Blobs) /\ Len(blobs') = k + 1
       /\ \A i \in 1 .. k : blobs'[i] = blobs[i]
       /\ blobs'[k + 1] = b
  BY <1>4, <1>5, <1>10, <1>12
<1>14. ASSUME NEW i \in 1 .. k + 1
       PROVE  /\ blobs'[i].first = (i - 1) * R * req.channels
              /\ blobs'[i].values = FrameSamples(H, i - 1) * req.channels
              /\ blobs'[i].bytes > 4 /\ blobs'[i].values <= 8 * (blobs'[i].bytes - 4)
  <2>1. CASE i \in 1 .. k BY <1>2, <1>4, <1>13, <2>1 DEF BlobInv
  <2>2. CASE i = k + 1
    <3>1. i - 1 = k BY <1>5, <2>2
    <3>2. QED BY <1>4, <1>7, <1>8, <1>12, <1>13, <2>2, <3>1
  <2>3. QED BY <1>5, <2>1, <2>2
<1>15. cursor + v = (IF k + 1 < n THEN (k + 1) * p ELSE t) * ch
  <2>1. RegularFrameSamples(H) = p BY <1>4 DEF R
  <2>2. H \in HeaderRecords /\ H.total = t /\ FrameCount(H) = n
    BY <1>2, <1>4, Shape DEF N
  <2>3. CASE k + 1 < n
    <3>1. s = p BY <1>5, <1>6, <1>7, <2>1, <2>2, <2>3, GeometryTiles
    <3>2. (k * p) * ch + p * ch = ((k + 1) * p) * ch BY <1>5, SMT
    <3>3. QED BY <1>8, <1>11, <2>3, <3>1, <3>2
  <2>4. CASE ~(k + 1 < n)
    <3>1. k + 1 = n BY <1>5, <1>6, <2>4
    <3>2. k * p + s = t BY <1>5, <1>6, <1>7, <2>1, <2>2, <3>1, GeometryTiles
    <3>3. (k * p) * ch + s * ch = (k * p + s) * ch BY <1>5, SMT
    <3>4. QED BY <1>8, <1>11, <2>4, <3>2, <3>3
  <2>5. QED BY <2>3, <2>4
<1>16. BlobInv'
  <2>1. Len(blobs') <= N' BY <1>3, <1>4, <1>5, <1>6, <1>13
  <2>2. cursor' = (IF Len(blobs') < N' THEN Len(blobs') * R' ELSE TotalSamples') * req'.channels
    BY <1>1, <1>3, <1>4, <1>10, <1>13, <1>15
  <2>3. QED BY <1>1, <1>3, <1>13, <1>14, <2>1, <2>2 DEF BlobInv
<1>17. places' = <<>> BY <1>1 DEF EncodeFrame, Encoding
<1>18. QED BY <1>1, <1>2, <1>3, <1>16, <1>17 DEF Encoding, Working

LEMMA WriteHeaderStep == ASSUME Encoding, WriteHeader PROVE Encoding'
<1>1. /\ pc = "frames" /\ pc' = "data" /\ req' = req /\ blobs' = blobs /\ cursor' = cursor
      /\ places' = places /\ end' = HEADER_LEN + 4 * Len(blobs) + 4
  BY DEF WriteHeader
<1>2. Accepted /\ BlobInv /\ Measured BY <1>1, AcceptedMeasured DEF Encoding, Working
<1>3. H' = H /\ N' = N /\ R' = R /\ TotalSamples' = TotalSamples /\ Accepted' = Accepted
  BY <1>1, RequestStays
<1>4. BlobInv' BY <1>1, <1>2, <1>3 DEF BlobInv
<1>5. N \in Nat /\ Len(blobs) = N
  <2>1. Geometry[1] = N BY <1>2, SameGeometry DEF N, FrameCount
  <2>2. QED BY <1>2, <2>1 DEF WriteHeader, Measured
<1>6. places = <<>> => PlaceInv'
  <2> SUFFICES ASSUME places = <<>> PROVE PlaceInv' OBVIOUS
  <2>1. places' \in Seq(Nat) /\ Len(places') = 0 BY <1>1
  <2>2. end' = HEADER_LEN + 4 * N' + 4 /\ end' \in Nat /\ end' > HEADER_LEN
    BY <1>1, <1>3, <1>5 DEF HEADER_LEN
  <2>3. Len(blobs') = N' BY <1>1, <1>3, <1>5
  <2>4. \A i \in 1 .. Len(places') : FALSE BY <2>1
  <2>5. Len(places') <= N' BY <1>3, <1>5, <2>1
  <2>6. QED BY <2>1, <2>2, <2>3, <2>4, <2>5 DEF PlaceInv
<1>7. places = <<>> BY <1>1 DEF Encoding
<1>8. QED BY <1>1, <1>2, <1>3, <1>4, <1>6, <1>7 DEF Encoding, Working

LEMMA WriteBlobStep == ASSUME Encoding, WriteBlob PROVE Encoding'
<1>1. /\ pc = "data" /\ pc' = "data" /\ req' = req /\ blobs' = blobs /\ cursor' = cursor
  BY DEF WriteBlob
<1>2. Accepted /\ BlobInv /\ PlaceInv /\ Measured BY <1>1, AcceptedMeasured DEF Encoding, Working
<1>3. H' = H /\ N' = N /\ R' = R /\ TotalSamples' = TotalSamples /\ Accepted' = Accepted
  BY <1>1, RequestStays
<1>4. BlobInv' BY <1>1, <1>2, <1>3 DEF BlobInv
<1>5. PICK k, n, e, s : k = Len(places) /\ n = N /\ e = end /\ s = blobs[k + 1].bytes OBVIOUS
<1>6. /\ k \in Nat /\ n \in Nat /\ e \in Nat /\ e > HEADER_LEN /\ places \in Seq(Nat)
      /\ Len(blobs) = n /\ k < n
      /\ places' = Append(places, e) /\ end' = e + s
  BY <1>2, <1>5 DEF PlaceInv, Measured, WriteBlob
<1>15. k \in Nat BY <1>6
<1>7. s \in Nat /\ \A i \in 1 .. n : blobs[i].bytes \in Nat
  <2>1. \A i \in 1 .. n : blobs[i] \in Blobs BY <1>2, <1>6 DEF BlobInv
  <2>2. \A i \in 1 .. n : blobs[i].bytes \in Nat BY <2>1 DEF Blobs
  <2>3. k + 1 \in 1 .. n BY <1>6
  <2>4. QED BY <1>5, <2>2, <2>3
<1>8. /\ places' \in Seq(Nat) /\ Len(places') = k + 1
      /\ \A i \in 1 .. k : places'[i] = places[i] /\ places[i] \in Nat
      /\ places'[k + 1] = e
  BY <1>5, <1>6
<1>9. e = IF k = 0 THEN HEADER_LEN + 4 * n + 4 ELSE places[k] + blobs[k].bytes
  BY <1>2, <1>5 DEF PlaceInv
<1>10. /\ \A i \in 1 .. k : places[i] + blobs[i].bytes <= e
       /\ \A i \in 1 .. k : i = 1 => places[i] = HEADER_LEN + 4 * n + 4
       /\ \A i \in 1 .. k : i > 1 => places[i] = places[i - 1] + blobs[i - 1].bytes
       /\ \A i, j \in 1 .. k : i < j => places[i] + blobs[i].bytes <= places[j]
  BY <1>2, <1>5 DEF PlaceInv
<1>11. ASSUME NEW i \in 1 .. k + 1
       PROVE  /\ places'[i] + blobs[i].bytes <= e + s
              /\ i = 1 => places'[i] = HEADER_LEN + 4 * n + 4
              /\ i > 1 => places'[i] = places'[i - 1] + blobs[i - 1].bytes
  <2>1. CASE i \in 1 .. k
    <3>1. places'[i] = places[i] /\ places[i] \in Nat /\ blobs[i].bytes \in Nat
      BY <1>6, <1>7, <1>8, <2>1
    <3>2. places[i] + blobs[i].bytes <= e BY <1>10, <2>1
    <3>3. places'[i] + blobs[i].bytes <= e + s BY <1>6, <1>7, <3>1, <3>2
    <3>4. i > 1 => places'[i - 1] = places[i - 1]
      <4>1. i > 1 => i - 1 \in 1 .. k BY <1>6, <2>1
      <4>2. QED BY <1>8, <4>1
    <3>5. QED BY <1>10, <2>1, <3>1, <3>3, <3>4
  <2>2. CASE i = k + 1
    <3>1. places'[i] = e /\ blobs[i].bytes = s BY <1>5, <1>8, <2>2
    <3>2. i = 1 => k = 0 BY <1>6, <2>2
    <3>3. i > 1 => i - 1 = k /\ k # 0 /\ k \in 1 .. k BY <1>6, <2>2
    <3>4. i > 1 => places'[i - 1] = places[k] BY <1>8, <3>3
    <3>5. places'[i] + blobs[i].bytes <= e + s BY <1>6, <1>7, <3>1
    <3>6. i = 1 => e = HEADER_LEN + 4 * n + 4 BY <1>9, <3>2
    <3>7. i > 1 => e = places'[i - 1] + blobs[i - 1].bytes BY <1>9, <3>3, <3>4
    <3>8. QED BY <3>1, <3>5, <3>6, <3>7
  <2>3. i \in 1 .. k \/ i = k + 1 BY <1>15
  <2>4. QED BY <2>1, <2>2, <2>3
<1>12. ASSUME NEW i \in 1 .. k + 1, NEW j \in 1 .. k + 1, i < j
       PROVE  places'[i] + blobs[i].bytes <= places'[j]
  <2>1. i \in 1 .. k /\ places'[i] = places[i] BY <1>6, <1>8, <1>12
  <2>2. CASE j \in 1 .. k BY <1>8, <1>10, <1>12, <2>1, <2>2
  <2>3. CASE j = k + 1 BY <1>8, <1>10, <2>1, <2>3
  <2>4. j \in 1 .. k \/ j = k + 1 BY <1>15
  <2>5. QED BY <2>2, <2>3, <2>4
<1>13. PlaceInv'
  <2>1. Len(blobs') = N' /\ Len(places') <= N' BY <1>1, <1>3, <1>5, <1>6, <1>8
  <2>2. end' \in Nat /\ end' > HEADER_LEN BY <1>6, <1>7 DEF HEADER_LEN
  <2>3. end' = places'[Len(places')] + blobs'[Len(places')].bytes /\ Len(places') # 0
    BY <1>1, <1>5, <1>6, <1>8
  <2>4. \A i \in 1 .. Len(places') :
          /\ places'[i] + blobs'[i].bytes <= end'
          /\ i = 1 => places'[i] = HEADER_LEN + 4 * N' + 4
          /\ i > 1 => places'[i] = places'[i - 1] + blobs'[i - 1].bytes
    BY <1>1, <1>3, <1>5, <1>6, <1>8, <1>11
  <2>5. \A i, j \in 1 .. Len(places') : i < j => places'[i] + blobs'[i].bytes <= places'[j]
    BY <1>1, <1>8, <1>12
  <2>6. QED BY <1>8, <2>1, <2>2, <2>3, <2>4, <2>5 DEF PlaceInv
<1>14. QED BY <1>1, <1>2, <1>3, <1>4, <1>13 DEF Encoding, Working

LEMMA ReturnStep == ASSUME Encoding, Return PROVE Encoding'
<1>1. /\ pc = "data" /\ pc' = "written" /\ Len(places) = Len(blobs)
      /\ UNCHANGED <<req, cursor, blobs, places, end>>
  BY DEF Return
<1>2. Accepted /\ BlobInv /\ PlaceInv BY <1>1 DEF Encoding, Working
<1>3. H' = H /\ N' = N /\ R' = R /\ TotalSamples' = TotalSamples /\ Accepted' = Accepted
  BY <1>1, RequestStays
<1>4. BlobInv' /\ PlaceInv' BY <1>1, <1>2, <1>3 DEF BlobInv, PlaceInv
<1>5. Len(places') = N' BY <1>1, <1>2, <1>3 DEF PlaceInv
<1>6. QED BY <1>1, <1>2, <1>3, <1>4, <1>5 DEF Encoding, Working

LEMMA EncodingHolds == Spec => []Encoding
<1>1. Init => Encoding BY DEF Init, EncoderInit, Encoding, Working
<1>2. ASSUME Encoding, [Next]_vars PROVE Encoding'
  <2>1. CASE Encode
    <3>1. ASSUME NEW r \in Requests, Begin(r) PROVE Encoding' BY <1>2, <3>1, BeginStep
    <3>2. ASSUME NEW slack \in Slack, EncodeFrame(slack) PROVE Encoding'
      BY <1>2, <3>2, EncodeFrameStep
    <3>3. CASE WriteHeader BY <1>2, <3>3, WriteHeaderStep
    <3>4. CASE WriteBlob BY <1>2, <3>4, WriteBlobStep
    <3>5. CASE Return BY <1>2, <3>5, ReturnStep
    <3>6. QED BY <2>1, <3>1, <3>2, <3>3, <3>4, <3>5 DEF Encode, EncoderNext
  <2>2. ASSUME NEW t \in Tags, Tag(t) PROVE Encoding'
    BY <1>2, <2>2, EncodingStays DEF Tag, encoderBut
  <2>3. ASSUME NEW s \in StrayEntries, NEW w \in 0 .. Len(blobs) - 1, Damage(w, s) PROVE Encoding'
    BY <1>2, <2>3, EncodingStays DEF Damage, encoderBut
  <2>4. CASE LoseByte BY <1>2, <2>4, EncodingStays DEF LoseByte, encoderBut
  <2>5. CASE Scan BY <1>2, <2>5, EncodingStays DEF Scan, encoderVars
  <2>6. ASSUME NEW r \in CombinedByteRange(scan.info), Slice(r) PROVE Encoding'
    BY <1>2, <2>6, EncodingStays DEF Slice
  <2>7. CASE Restore BY <1>2, <2>7, EncodingStays DEF Restore, encoderBut
  <2>8. CASE UNCHANGED vars BY <1>2, <2>8, EncodingStays DEF vars, encoderVars
  <2>9. QED BY <1>2, <2>1, <2>2, <2>3, <2>4, <2>5, <2>6, <2>7, <2>8 DEF Next
<1>3. QED BY <1>1, <1>2, PTL DEF Spec

(***************************************************************************)
(* EncodesTheInputCorrect: frame w is made of the values that the readers  *)
(* give out as frame w, and together the frames hold the whole input when  *)
(* its samples can be counted in 32 bits (encoder.rs:127-150).             *)
(***************************************************************************)
THEOREM EncodesTheInputCorrect == Spec => []EncodesTheInput
<1>1. ASSUME Encoding PROVE EncodesTheInput
  <2> SUFFICES ASSUME pc = "written" PROVE EncodesTheInput BY DEF EncodesTheInput
  <2>1. Accepted /\ BlobInv /\ PlaceInv /\ Measured
    BY <1>1, AcceptedMeasured DEF Encoding, Working
  <2>2. Len(blobs) = N /\ N \in Nat /\ DOMAIN blobs = 1 .. Len(blobs)
    BY <2>1 DEF PlaceInv, BlobInv, Measured
  <2>3. cursor = TotalSamples * req.channels BY <2>1, <2>2 DEF BlobInv
  <2>4. \A i \in DOMAIN blobs :
          /\ blobs[i].first = (i - 1) * R * req.channels
          /\ blobs[i].values = FrameSamples(H, i - 1) * req.channels
    BY <2>1, <2>2 DEF BlobInv
  <2>5. Samples < U32 => cursor = req.values
    <3> SUFFICES ASSUME req.values \div req.channels < U32 PROVE cursor = req.values BY DEF Samples
    <3>1. PICK q, ch, v : q = req.values \div req.channels /\ ch = req.channels /\ v = req.values
      OBVIOUS
    <3>2. ch \in Nat /\ ch > 0 /\ v \in Nat /\ v % ch = 0 BY <2>1, <3>1, Shape
    <3>3. q \in Nat /\ v = ch * q + 0 BY <3>1, <3>2, DivMod
    <3>4. q % U32 = q BY <3>1, <3>3, WidthAssumption, SMT
    <3>5. TotalSamples = q BY <3>1, <3>4 DEF TotalSamples
    <3>6. q * ch = v BY <3>2, <3>3, SMT
    <3>7. QED BY <2>3, <3>1, <3>5, <3>6
  <2>6. QED BY <2>2, <2>3, <2>4, <2>5 DEF EncodesTheInput, H, N, R, TotalSamples
<1>2. QED BY EncodingHolds, <1>1, PTL

\* The file as the readers' assumption on files wants it, part by part.
LEMMA WrittenFields ==
  ASSUME Encoding, pc = "written"
  PROVE  /\ Written.h = H /\ Written.id3 = 0 /\ Written.bad = {} /\ Written.tableCrc = TRUE
         /\ Written.len = end /\ Written.key = req.key
         /\ FrameIds(Written) = 0 .. N - 1 /\ Len(blobs) = N /\ N \in Nat
         /\ Written.size = [w \in 0 .. N - 1 |-> blobs[w + 1].bytes]
         /\ Written.table = [w \in 0 .. N - 1 |-> blobs[w + 1].bytes % U32]
         /\ Written.place = [w \in 0 .. N - 1 |-> places[w + 1]]
         /\ DataStart(Written) = HEADER_LEN + 4 * N + 4
         /\ \A i \in 1 .. N : /\ blobs[i].bytes \in Nat /\ places[i] \in Nat
                              /\ i \in 1 .. Len(places)
<1>1. Accepted /\ BlobInv /\ PlaceInv /\ Measured /\ Len(places) = N
  BY AcceptedMeasured DEF Encoding, Working
<1>2. Len(blobs) = N /\ N \in Nat BY <1>1 DEF PlaceInv, Measured
<1>3. Written.h = H BY DEF Written, H
<1>4. Written.id3 = 0 /\ Written.bad = {} /\ Written.tableCrc = TRUE
      /\ Written.len = end /\ Written.key = req.key
  BY DEF Written
<1>5. /\ Written.size = [w \in 0 .. N - 1 |-> blobs[w + 1].bytes]
      /\ Written.table = [w \in 0 .. N - 1 |-> blobs[w + 1].bytes % U32]
      /\ Written.place = [w \in 0 .. N - 1 |-> places[w + 1]]
  BY <1>2 DEF Written
<1>6. FrameIds(Written) = 0 .. N - 1 BY <1>3 DEF FrameIds, N
<1>7. DataStart(Written) = HEADER_LEN + 4 * N + 4
  <2>1. SeekTableLen(Written.h) = 4 * N + 4 BY <1>3 DEF SeekTableLen, N
  <2>2. QED BY <1>2, <1>4, <2>1 DEF DataStart, HEADER_LEN
<1>8. ASSUME NEW i \in 1 .. N
      PROVE  blobs[i].bytes \in Nat /\ places[i] \in Nat /\ i \in 1 .. Len(places)
  <2>1. blobs[i] \in Blobs BY <1>1, <1>2 DEF BlobInv
  <2>2. places[i] \in Nat BY <1>1 DEF PlaceInv
  <2>3. QED BY <1>1, <2>1, <2>2 DEF Blobs
<1>9. QED BY <1>2, <1>3, <1>4, <1>5, <1>6, <1>7, <1>8

(***************************************************************************)
(* WritesWellFormedCorrect: what encode returns is a file as the readers'  *)
(* theorems assume one, with an intact seek table, as long as every frame  *)
(* has a size that an entry can hold (encoder.rs:156-186).                 *)
(***************************************************************************)
THEOREM WritesWellFormedCorrect == Spec => []WritesWellFormed
<1>1. ASSUME Encoding PROVE WritesWellFormed
  <2> SUFFICES ASSUME pc = "written", EveryBlobFits
               PROVE  /\ HeaderError(end, HeaderOf(TotalSamples)) = NoError
                      /\ WellFormed(Written) /\ TableIntact(Written)
    BY DEF WritesWellFormed
  <2>1. Accepted /\ BlobInv /\ PlaceInv /\ Measured /\ Len(places) = N
    BY <1>1, AcceptedMeasured DEF Encoding, Working
  <2>2. HeaderError(end, HeaderOf(TotalSamples)) = NoError
    <3>1. ~(end < HEADER_LEN) BY <2>1 DEF PlaceInv, HEADER_LEN
    <3>2. QED BY <2>1, <3>1, Shape DEF HeaderError, HeaderOf
  <2>3. TableIntact(Written)
    <3>1. ASSUME NEW w \in 0 .. N - 1 PROVE blobs[w + 1].bytes % U32 = blobs[w + 1].bytes
      <4>1. w + 1 \in 1 .. N /\ N \in Nat BY <2>1 DEF Measured
      <4>2. w + 1 \in DOMAIN blobs /\ blobs[w + 1].bytes \in Nat
        BY <1>1, <2>1, <4>1, WrittenFields DEF BlobInv
      <4>3. blobs[w + 1].bytes < U32 BY <4>2 DEF EveryBlobFits
      <4>4. QED BY <4>2, <4>3, WidthAssumption, SMT
    <3>2. QED BY <1>1, <3>1, WrittenFields DEF TableIntact
  <2>4. WellFormed(Written)
    <3>1. Written.h \in HeaderRecords /\ Written.id3 \in Nat /\ Written.len \in Nat
          /\ Written.key \in Digests /\ Written.tableCrc \in BOOLEAN
          /\ Written.bad \subseteq FrameIds(Written)
      <4>1. /\ Written.h = H /\ Written.id3 = 0 /\ Written.bad = {} /\ Written.len = end
            /\ Written.key = req.key /\ Written.tableCrc = TRUE
        BY <1>1, WrittenFields, Zenon
      <4>2. H \in HeaderRecords /\ end \in Nat /\ req.key \in Digests
        BY <2>1, Shape DEF PlaceInv
      <4>3. Written.h \in HeaderRecords /\ Written.len \in Nat /\ Written.key \in Digests
        BY <4>1, <4>2, Zenon
      <4>4. Written.id3 \in Nat BY <4>1
      <4>5. Written.tableCrc \in BOOLEAN BY <4>1, Zenon
      <4>6. QED BY <4>1, <4>3, <4>4, <4>5, Zenon
    <3>2. {Written.size, Written.place, Written.table} \subseteq [FrameIds(Written) -> Nat]
      <4>1. ASSUME NEW w \in 0 .. N - 1
            PROVE  blobs[w + 1].bytes \in Nat /\ places[w + 1] \in Nat
        <5>1. w + 1 \in 1 .. N BY <2>1 DEF Measured
        <5>2. QED BY <1>1, <5>1, WrittenFields
      <4>2. Written.size \in [0 .. N - 1 -> Nat] /\ Written.place \in [0 .. N - 1 -> Nat]
        BY <1>1, <4>1, WrittenFields
      <4>3. Written.table = Written.size BY <2>3 DEF TableIntact
      <4>4. QED BY <1>1, <4>2, <4>3, WrittenFields
    <3>3. Written.h.format = 1 => Written.key = ZeroDigest
      <4>1. H.format = req.format BY DEF H, HeaderOf
      <4>2. QED BY <1>1, <2>1, <4>1, WrittenFields DEF Accepted
    <3>4. ASSUME NEW w \in FrameIds(Written)
          PROVE  /\ Written.size[w] > 4
                 /\ FrameSamples(Written.h, w) * Written.h.channels <= 8 * (Written.size[w] - 4)
                 /\ w = 0 => Written.place[w] = DataStart(Written)
                 /\ w > 0 => Written.place[w] = Written.place[w - 1] + Written.size[w - 1]
      <4>1. w \in 0 .. N - 1 /\ N \in Nat BY <1>1, WrittenFields
      <4>2. w + 1 \in 1 .. N /\ (w + 1) - 1 = w BY <4>1
      <4>3. /\ Written.size[w] = blobs[w + 1].bytes /\ Written.place[w] = places[w + 1]
            /\ Written.h = H /\ H.channels = req.channels /\ w + 1 \in 1 .. Len(places)
        BY <1>1, <4>1, <4>2, WrittenFields DEF H, HeaderOf
      <4>4. /\ blobs[w + 1].values = FrameSamples(H, w) * req.channels
            /\ blobs[w + 1].bytes > 4
            /\ blobs[w + 1].values <= 8 * (blobs[w + 1].bytes - 4)
        BY <1>1, <2>1, <4>2, WrittenFields DEF BlobInv
      <4>5. w = 0 => places[w + 1] = HEADER_LEN + 4 * N + 4 BY <2>1, <4>3 DEF PlaceInv
      <4>6. w > 0 => places[w + 1] = places[w] + blobs[w].bytes
        <5>1. w > 0 => w + 1 > 1 BY <4>1
        <5>2. QED BY <2>1, <4>2, <4>3, <5>1 DEF PlaceInv
      <4>7. w > 0 => Written.place[w - 1] = places[w] /\ Written.size[w - 1] = blobs[w].bytes
        <5>1. w > 0 => w - 1 \in 0 .. N - 1 /\ (w - 1) + 1 = w BY <4>1
        <5>2. QED BY <1>1, <5>1, WrittenFields
      <4>8. DataStart(Written) = HEADER_LEN + 4 * N + 4 BY <1>1, WrittenFields
      <4>9. QED BY <4>3, <4>4, <4>5, <4>6, <4>7, <4>8
    <3>5. ASSUME NEW v \in FrameIds(Written), NEW w \in FrameIds(Written), v < w
          PROVE  Written.place[v] + Written.size[v] <= Written.place[w]
      <4>1. v \in 0 .. N - 1 /\ w \in 0 .. N - 1 /\ N \in Nat BY <1>1, WrittenFields
      <4>2. v + 1 \in 1 .. Len(places) /\ w + 1 \in 1 .. Len(places) /\ v + 1 < w + 1
        BY <2>1, <3>5, <4>1
      <4>3. places[v + 1] + blobs[v + 1].bytes <= places[w + 1] BY <2>1, <4>2 DEF PlaceInv
      <4>4. Written.place[v] = places[v + 1] /\ Written.size[v] = blobs[v + 1].bytes
            /\ Written.place[w] = places[w + 1]
        BY <1>1, <4>1, WrittenFields
      <4>5. QED BY <4>3, <4>4
    <3>6. QED BY <3>1, <3>2, <3>3, <3>4, <3>5, Zenon DEF WellFormed
  <2>5. QED BY <2>2, <2>3, <2>4
<1>2. QED BY EncodingHolds, <1>1, PTL

-----------------------------------------------------------------------------
(***************************************************************************)
(* What a scan reports ends where the file ended when it was made, and a   *)
(* file only grows while its scan is kept.                                 *)
(***************************************************************************)
Ends(info, fileLen) ==
  /\ \A r \in info.id3v1 : /\ r.start \in Int /\ r.len = ID3V1_SIZE
                           /\ r.start + r.len = fileLen
  /\ \A r \in info.apev2 : /\ r.start \in Int /\ r.len \in Int /\ r.len >= FOOTER_SIZE
                           /\ r.start + r.len <= fileLen

ScanInv ==
  /\ scan.fileLen \in Nat /\ Ends(scan.info, scan.fileLen)
  /\ kept.len \in Nat
  /\ pc # "written" => scan = NoScan
  /\ pc = "written" => "len" \in DOMAIN file /\ file.len \in Nat /\ scan.fileLen <= file.len

LEMMA NoScanEnds == Ends(NoScan.info, NoScan.fileLen) /\ NoScan.fileLen = 0
  BY DEF Ends, NoScan, NoTags

LEMMA DetectedEnds ==
  ASSUME NEW buf, buf.len \in Nat, NEW eos
  PROVE  Ends(detect_trailers(buf, eos), buf.len)
<1>1. CASE eos >= buf.len BY <1>1 DEF detect_trailers, NoTags, Ends
<1>2. CASE ~(eos >= buf.len)
  <2>1. /\ detect_trailers(buf, eos).id3v1 = DetectId3v1(buf, eos)
        /\ detect_trailers(buf, eos).apev2 = DetectApe(buf, eos)
    BY <1>2 DEF detect_trailers
  <2>2. \A r \in DetectId3v1(buf, eos) :
          r.start \in Int /\ r.len = ID3V1_SIZE /\ r.start + r.len = buf.len
    BY DEF DetectId3v1, ID3V1_SIZE
  <2>3. ApeSearchEnd(buf, eos) \in Int /\ ApeSearchEnd(buf, eos) <= buf.len
    BY DEF ApeSearchEnd, ID3V1_SIZE
  <2>4. ASSUME NEW r \in DetectApe(buf, eos)
        PROVE  /\ r.start \in Int /\ r.len \in Int /\ r.len >= FOOTER_SIZE
               /\ r.start + r.len <= buf.len
    <3>1. PICK upper : upper = ApeSearchEnd(buf, eos) OBVIOUS
    <3>2. PICK b : /\ ApeLength(b) \in FOOTER_SIZE .. upper - eos
                   /\ r = [start |-> upper - ApeLength(b), len |-> ApeLength(b)]
      BY <3>1 DEF DetectApe
    <3>3. PICK n : n = ApeLength(b) OBVIOUS
    <3>4. n \in Int /\ n >= FOOTER_SIZE BY <3>2, <3>3
    <3>5. r.start = upper - n /\ r.len = n BY <3>2, <3>3
    <3>6. QED BY <2>3, <3>1, <3>4, <3>5
  <2>5. QED BY <2>1, <2>2, <2>4 DEF Ends
<1>3. QED BY <1>1, <1>2

\* A window over a scan's ranges has a length.
LEMMA CombinedLength ==
  ASSUME ScanInv, NEW c \in CombinedByteRange(scan.info)
  PROVE  c.len \in Nat
<1> DEFINE tags == scan.info.id3v1 \cup scan.info.apev2
<1>1. \A r \in tags : r.start \in Int /\ r.len \in Int /\ r.len >= 0
  BY DEF ScanInv, Ends, ID3V1_SIZE, FOOTER_SIZE
<1>2. PICK s \in tags, e \in tags :
        (\A q \in tags : s.start <= q.start) /\ c = [start |-> s.start, len |-> EndOf(e) - s.start]
  BY DEF CombinedByteRange
<1> HIDE DEF tags
<1>3. c.len = EndOf(e) - s.start BY <1>2
<1>4. EndOf(e) = e.start + e.len BY DEF EndOf
<1>5. s.start <= e.start BY <1>2
<1>6. e.start \in Int /\ e.len \in Int /\ e.len >= 0 /\ s.start \in Int BY <1>1
<1>7. QED BY <1>3, <1>4, <1>5, <1>6

LEMMA ScanStays ==
  ASSUME ScanInv, UNCHANGED <<pc, scan, file, kept>>
  PROVE  ScanInv'
  BY DEF ScanInv, Ends

LEMMA NoScanStays ==
  ASSUME ScanInv, scan' = NoScan, kept'.len \in Nat,
         pc' = "written" => "len" \in DOMAIN file' /\ file'.len \in Nat
  PROVE  ScanInv'
<1>1. Ends(scan'.info, scan'.fileLen) /\ scan'.fileLen = 0 BY NoScanEnds
<1>2. QED BY <1>1 DEF ScanInv, Ends

LEMMA ScanStep == ASSUME Encoding, ScanInv, [Next]_vars PROVE ScanInv'
<1>1. CASE Encode
  <2>1. scan' = scan /\ kept' = kept BY <1>1 DEF Encode
  <2>2. pc # "written" /\ scan = NoScan
    BY <1>1 DEF Encode, EncoderNext, Begin, EncodeFrame, WriteHeader, WriteBlob, Return, ScanInv
  <2>3. pc' = "written" => "len" \in DOMAIN file' /\ file'.len \in Nat
    <3>1. CASE Return
      <4>1. file' = Written /\ end \in Nat BY <3>1 DEF Return, Encoding, PlaceInv
      <4>2. "len" \in DOMAIN Written /\ Written.len = end BY DEF Written
      <4>3. QED BY <4>1, <4>2
    <3>2. CASE ~Return
      BY <1>1, <3>2 DEF Encode, EncoderNext, Begin, EncodeFrame, WriteHeader, WriteBlob
    <3>3. QED BY <3>1, <3>2
  <2>4. QED BY <2>1, <2>2, <2>3, NoScanStays DEF ScanInv
<1>2. ASSUME NEW t \in Tags, Tag(t) PROVE ScanInv'
  <2>1. pc = "written" /\ pc' = pc /\ scan' = scan /\ kept' = kept
        /\ file' = [file EXCEPT !.len = @ + t.len]
    BY <1>2 DEF Tag, encoderBut
  <2>2. t.len \in Nat BY ArchiveAssumption DEF Block
  <2>3. "len" \in DOMAIN file /\ file.len \in Nat /\ scan.fileLen <= file.len /\ scan.fileLen \in Nat
    BY <2>1 DEF ScanInv
  <2>4. "len" \in DOMAIN file' /\ file'.len = file.len + t.len BY <2>1, <2>3
  <2>5. file'.len \in Nat /\ scan.fileLen <= file'.len BY <2>2, <2>3, <2>4
  <2>6. QED BY <2>1, <2>4, <2>5 DEF ScanInv, Ends
<1>3. ASSUME NEW s, NEW w, Damage(w, s) PROVE ScanInv'
  <2>1. pc = "written" /\ scan' = NoScan /\ kept' = kept
        /\ file' = [file EXCEPT !.table[w] = s, !.tableCrc = FALSE]
    BY <1>3 DEF Damage
  <2>2. "len" \in DOMAIN file' /\ file'.len = file.len
    BY <2>1 DEF ScanInv
  <2>3. QED BY <2>1, <2>2, NoScanStays DEF ScanInv
<1>4. CASE LoseByte
  <2>1. pc = "written" /\ scan' = NoScan /\ kept' = kept /\ file.len >= end
        /\ file' = [file EXCEPT !.len = @ - 1]
    BY <1>4 DEF LoseByte, encoderBut
  <2>2. end \in Nat /\ end > 0 BY <2>1 DEF Encoding, PlaceInv, HEADER_LEN
  <2>3. "len" \in DOMAIN file /\ file.len \in Nat BY <2>1 DEF ScanInv
  <2>4. "len" \in DOMAIN file' /\ file'.len = file.len - 1 BY <2>1, <2>3
  <2>5. file'.len \in Nat BY <2>1, <2>2, <2>3, <2>4
  <2>6. QED BY <2>1, <2>4, <2>5, NoScanStays DEF ScanInv
<1>5. CASE Scan
  <2>1. pc = "written" /\ pc' = pc /\ file' = file /\ kept' = kept BY <1>5 DEF Scan, encoderVars
  <2>2. "len" \in DOMAIN file /\ file.len \in Nat BY <2>1 DEF ScanInv
  <2>3. PICK info : scan' = [error |-> ScanError(file), fileLen |-> file.len, info |-> info]
                    /\ (info = NoTags \/ info = detect_trailers(Buf, EndOfStream(file)))
    BY <1>5 DEF Scan
  <2>4. Ends(info, file.len)
    <3>1. Buf.len = file.len BY DEF Buf
    <3>2. Ends(detect_trailers(Buf, EndOfStream(file)), Buf.len) BY <2>2, <3>1, DetectedEnds
    <3>3. Ends(NoTags, file.len) BY DEF Ends, NoTags
    <3>4. QED BY <2>3, <3>1, <3>2, <3>3
  <2>5. scan'.fileLen = file.len /\ scan'.info = info BY <2>3
  <2>6. QED BY <2>1, <2>2, <2>4, <2>5 DEF ScanInv, Ends
<1>6. ASSUME NEW r \in CombinedByteRange(scan.info), Slice(r) PROVE ScanInv'
  <2>1. pc' = "idle" /\ scan' = NoScan /\ kept'.len = r.len BY <1>6 DEF Slice
  <2>2. r.len \in Nat BY CombinedLength
  <2>3. QED BY <2>1, <2>2, NoScanStays
<1>7. CASE Restore
  <2>1. pc = "written" /\ scan' = NoScan /\ kept' = Nothing
        /\ file' = [file EXCEPT !.len = @ + kept.len]
    BY <1>7 DEF Restore
  <2>2. "len" \in DOMAIN file /\ file.len \in Nat /\ kept.len \in Nat BY <2>1 DEF ScanInv
  <2>3. "len" \in DOMAIN file' /\ file'.len = file.len + kept.len BY <2>1, <2>2
  <2>4. file'.len \in Nat BY <2>2, <2>3
  <2>5. Nothing.len \in Nat BY DEF Nothing
  <2>6. QED BY <2>1, <2>3, <2>4, <2>5, NoScanStays
<1>8. CASE UNCHANGED vars BY <1>8, ScanStays DEF vars, encoderVars
<1>9. QED BY <1>1, <1>2, <1>3, <1>4, <1>5, <1>6, <1>7, <1>8 DEF Next

LEMMA ScanInit == ASSUME Init PROVE ScanInv
<1>1. pc = "idle" /\ scan = NoScan /\ kept = Nothing BY DEF Init, EncoderInit
<1>2. kept.len = 0 BY <1>1 DEF Nothing
<1>3. QED BY <1>1, <1>2, NoScanEnds DEF ScanInv

LEMMA ScanHolds == Spec => []ScanInv
<1>1. Init => ScanInv BY ScanInit
<1>2. Encoding /\ ScanInv /\ [Next]_vars => ScanInv' BY ScanStep
<1>3. QED BY <1>1, <1>2, EncodingHolds, PTL DEF Spec

(***************************************************************************)
(* StaleScanRefusedCorrect: once the file has grown, no ID3v1 range of an  *)
(* older scan lifts, and an APE range still lies inside the file           *)
(* (trailers.rs:229-237, 283-286).                                         *)
(***************************************************************************)
THEOREM StaleScanRefusedCorrect == Spec => []StaleScanRefused
<1>1. ScanInv => StaleScanRefused
  <2> SUFFICES ASSUME ScanInv, pc = "written" PROVE StaleScanRefused
    BY DEF StaleScanRefused
  <2>1. file.len \in Nat /\ scan.fileLen \in Nat /\ scan.fileLen <= file.len BY DEF ScanInv
  <2>2. ASSUME NEW r \in scan.info.id3v1 PROVE Id3v1Lifts(r, file.len) <=> file.len = scan.fileLen
    BY <2>1 DEF ScanInv, Ends, Id3v1Lifts, EndOf
  <2>3. ASSUME NEW r \in scan.info.apev2 PROVE ApeV2Lifts(r, file.len)
    <3>1. /\ r.start \in Int /\ r.len \in Int /\ r.len >= FOOTER_SIZE
          /\ r.start + r.len <= scan.fileLen
      BY DEF ScanInv, Ends
    <3>2. r.start + r.len \in Int BY <3>1
    <3>3. r.start + r.len <= file.len BY <2>1, <3>1, <3>2
    <3>4. QED BY <3>1, <3>3 DEF ApeV2Lifts, EndOf
  <2>4. QED BY <2>2, <2>3 DEF StaleScanRefused
<1>2. QED BY <1>1, ScanHolds, PTL
-----------------------------------------------------------------------------
\* What lies behind a stream: blocks one after the other, from lo up to hi.

BlockEnd(b) == b.at + b.len

Apart(B) == \A b, c \in B : b # c => BlockEnd(b) <= c.at \/ BlockEnd(c) <= b.at

Kinds(B) ==
  \A b \in B : (b.kind # "other" => b.len > 0) /\ (b.kind = "id3v1" => b.len = ID3V1_SIZE)

\* A slice may cut an APE tag down to less than its footer, but only in front
\* of the tag it begins with.
Covered(B) ==
  \A b \in B : b.kind = "ape" /\ b.len < FOOTER_SIZE =>
    \E c \in B : c.kind # "id3v1" /\ c.len > 0 /\ BlockEnd(b) <= c.at

Trailing(B, lo, hi) ==
  /\ B \subseteq Block
  /\ \A b \in B : lo <= b.at /\ BlockEnd(b) <= hi
  /\ Apart(B) /\ Kinds(B) /\ Covered(B)

LEMMA BlockParts ==
  ASSUME NEW b \in Block
  PROVE  /\ b.at \in Nat /\ b.len \in Nat /\ b.tagSize \in Nat /\ b.hasHeader \in BOOLEAN
         /\ b.kind \in {"id3v1", "ape", "other"}
         /\ BlockEnd(b) = b.at + b.len /\ BlockEnd(b) \in Nat /\ b.at <= BlockEnd(b)
         /\ EndOf(Extent(b)) = BlockEnd(b)
  BY DEF Block, BlockEnd, EndOf, Extent

LEMMA BlockIsRecord ==
  ASSUME NEW b \in Block
  PROVE  \E k \in {"id3v1", "ape", "other"}, a \in Nat, n \in Nat, t \in Nat, h \in BOOLEAN :
           b = [kind |-> k, at |-> a, len |-> n, tagSize |-> t, hasHeader |-> h]
<1>1. b = [kind |-> b.kind, at |-> b.at, len |-> b.len, tagSize |-> b.tagSize,
           hasHeader |-> b.hasHeader]
  BY DEF Block
<1>2. QED BY <1>1, BlockParts

LEMMA MovedBlock ==
  ASSUME NEW b \in Block, NEW x \in Nat, NEW m, m = [b EXCEPT !.at = x]
  PROVE  /\ m \in Block /\ m.at = x /\ m.len = b.len /\ m.kind = b.kind
         /\ m.tagSize = b.tagSize /\ m.hasHeader = b.hasHeader
         /\ BlockEnd(m) = x + b.len
  BY DEF Block, BlockEnd

\* A block of which the last byte is lost.
Cut(b) == [b EXCEPT !.kind = "other", !.len = @ - 1]

LEMMA CutBlock ==
  ASSUME NEW b \in Block, b.len > 0, NEW m, m = Cut(b)
  PROVE  /\ m \in Block /\ m.at = b.at /\ m.len = b.len - 1 /\ m.kind = "other"
         /\ BlockEnd(m) = BlockEnd(b) - 1
<1>1. PICK k \in {"id3v1", "ape", "other"}, a \in Nat, n \in Nat, t \in Nat, h \in BOOLEAN :
        b = [kind |-> k, at |-> a, len |-> n, tagSize |-> t, hasHeader |-> h]
  BY BlockIsRecord
<1>2. PICK o \in {"id3v1", "ape", "other"} : o = "other" OBVIOUS
<1>3. PICK l : l = n - 1 OBVIOUS
<1>4. b.at = a /\ b.len = n BY <1>1
<1>5. l \in Nat BY <1>3, <1>4
<1>6. m = [kind |-> o, at |-> a, len |-> l, tagSize |-> t, hasHeader |-> h]
  BY <1>1, <1>2, <1>3 DEF Cut
<1>7. /\ m \in Block /\ m.kind = o /\ m.at = a /\ m.len = l /\ BlockEnd(m) = a + l
  BY <1>5, <1>6 DEF Block, BlockEnd
<1>8. BlockEnd(b) = a + n BY <1>4 DEF BlockEnd
<1>9. QED BY <1>2, <1>3, <1>4, <1>7, <1>8

\* What is left of a block in a slice that begins before it ends.
LEMMA SlicedBlock ==
  ASSUME NEW b \in Block, NEW s \in Nat, s < BlockEnd(b), NEW m, m = Sliced(b, s)
  PROVE  /\ m \in Block /\ m.tagSize = b.tagSize /\ m.hasHeader = b.hasHeader
         /\ BlockEnd(m) = BlockEnd(b) - s
         /\ b.at >= s => m.at = b.at - s /\ m.len = b.len /\ m.kind = b.kind
         /\ b.at < s => /\ m.at = 0 /\ m.len = BlockEnd(b) - s
                        /\ m.kind = IF b.kind = "ape" THEN "ape" ELSE "other"
<1>1. CASE b.at >= s BY <1>1 DEF Block, BlockEnd, Sliced
<1>2. CASE b.at < s
  <2>1. PICK k \in {"id3v1", "ape", "other"}, a \in Nat, n \in Nat, t \in Nat, h \in BOOLEAN :
          b = [kind |-> k, at |-> a, len |-> n, tagSize |-> t, hasHeader |-> h]
    BY BlockIsRecord
  <2>2. b.at = a /\ b.len = n /\ b.kind = k /\ b.tagSize = t /\ b.hasHeader = h BY <2>1
  <2>3. PICK o \in {"id3v1", "ape", "other"} : o = IF b.kind = "ape" THEN "ape" ELSE "other"
    OBVIOUS
  <2>4. PICK l : l = n - (s - a) OBVIOUS
  <2>5. l \in Nat /\ BlockEnd(b) = a + n /\ l = BlockEnd(b) - s
    BY <1>2, <2>2, <2>4 DEF BlockEnd
  <2>6. PICK z \in Nat : z = 0 OBVIOUS
  <2>7. m = [kind |-> o, at |-> z, len |-> l, tagSize |-> t, hasHeader |-> h]
    <3>1. ~(b.at >= s) BY <1>2, <2>2
    <3>2. QED BY <2>1, <2>2, <2>3, <2>4, <2>6, <3>1 DEF Sliced
  <2>8. /\ m \in Block /\ m.kind = o /\ m.at = z /\ m.len = l /\ m.tagSize = t
        /\ m.hasHeader = h /\ BlockEnd(m) = z + l
    BY <2>5, <2>7 DEF Block, BlockEnd
  <2>9. QED BY <1>2, <2>2, <2>3, <2>5, <2>6, <2>8
<1>3. b.at \in Nat BY DEF Block
<1>4. QED BY <1>1, <1>2, <1>3

LEMMA TrailingParts ==
  ASSUME NEW B, NEW lo, NEW hi, Trailing(B, lo, hi)
  PROVE  \A b \in B :
           /\ b \in Block /\ b.at \in Nat /\ b.len \in Nat /\ BlockEnd(b) \in Nat
           /\ b.tagSize \in Nat
           /\ b.kind \in {"id3v1", "ape", "other"}
           /\ BlockEnd(b) = b.at + b.len /\ b.at <= BlockEnd(b)
           /\ lo <= b.at /\ BlockEnd(b) <= hi
           /\ b.kind # "other" => b.len > 0
           /\ b.kind = "id3v1" => b.len = ID3V1_SIZE
<1> SUFFICES ASSUME NEW b \in B
             PROVE  /\ b \in Block /\ b.at \in Nat /\ b.len \in Nat /\ BlockEnd(b) \in Nat
                    /\ b.tagSize \in Nat
                    /\ b.kind \in {"id3v1", "ape", "other"}
                    /\ BlockEnd(b) = b.at + b.len /\ b.at <= BlockEnd(b)
                    /\ lo <= b.at /\ BlockEnd(b) <= hi
                    /\ b.kind # "other" => b.len > 0
                    /\ b.kind = "id3v1" => b.len = ID3V1_SIZE
  OBVIOUS
<1>1. b \in Block BY DEF Trailing
<1>2. lo <= b.at /\ BlockEnd(b) <= hi BY DEF Trailing
<1>3. (b.kind # "other" => b.len > 0) /\ (b.kind = "id3v1" => b.len = ID3V1_SIZE)
  BY DEF Trailing, Kinds
<1>4. QED BY <1>1, <1>2, <1>3, BlockParts

\* A tagger appends a tag.
LEMMA TrailingGrows ==
  ASSUME NEW B, NEW lo \in Nat, NEW hi \in Nat, lo <= hi, Trailing(B, lo, hi),
         NEW t \in Block, t.at = hi, t.len > 0,
         t.kind = "id3v1" => t.len = ID3V1_SIZE, t.kind = "ape" => t.len >= FOOTER_SIZE
  PROVE  Trailing(B \cup {t}, lo, hi + t.len)
<1> DEFINE C == B \cup {t}
<1>1. t.len \in Nat /\ BlockEnd(t) = hi + t.len /\ BlockEnd(t) \in Nat BY BlockParts
<1>2. \A b \in B : /\ b \in Block /\ b.at \in Nat /\ BlockEnd(b) \in Nat /\ lo <= b.at
                   /\ BlockEnd(b) <= hi
  BY TrailingParts
<1>3. C \subseteq Block BY <1>2
<1>4. ASSUME NEW b \in C PROVE lo <= b.at /\ BlockEnd(b) <= hi + t.len
  <2>1. CASE b \in B BY <1>1, <1>2, <2>1
  <2>2. CASE b = t BY <1>1, <2>2
  <2>3. QED BY <2>1, <2>2
<1>5. Apart(C)
  <2> SUFFICES ASSUME NEW b \in C, NEW c \in C, b # c
               PROVE  BlockEnd(b) <= c.at \/ BlockEnd(c) <= b.at
    BY DEF Apart
  <2>1. CASE b \in B /\ c \in B BY <2>1 DEF Trailing, Apart
  <2>2. CASE b = t BY <1>2, <2>2
  <2>3. CASE c = t BY <1>2, <2>3
  <2>4. QED BY <2>1, <2>2, <2>3
<1>6. Kinds(C)
  <2> SUFFICES ASSUME NEW b \in C
               PROVE  (b.kind # "other" => b.len > 0) /\ (b.kind = "id3v1" => b.len = ID3V1_SIZE)
    BY DEF Kinds
  <2>1. CASE b \in B BY <2>1, TrailingParts
  <2>2. CASE b = t BY <2>2
  <2>3. QED BY <2>1, <2>2
<1>7. Covered(C)
  <2> SUFFICES ASSUME NEW b \in C, b.kind = "ape", b.len < FOOTER_SIZE
               PROVE  \E c \in C : c.kind # "id3v1" /\ c.len > 0 /\ BlockEnd(b) <= c.at
    BY DEF Covered
  <2>1. b \in B
    <3>1. b = t => t.len >= FOOTER_SIZE OBVIOUS
    <3>2. QED BY <1>1, <3>1 DEF FOOTER_SIZE
  <2>2. QED BY <2>1 DEF Trailing, Covered
<1>8. QED BY <1>3, <1>4, <1>5, <1>6, <1>7 DEF Trailing

\* The last byte is lost: what ended there is no tag any more.
LEMMA TrailingCut ==
  ASSUME NEW B, NEW lo \in Nat, NEW hi \in Nat, Trailing(B, lo, hi),
         NEW last, last = {b \in B : BlockEnd(b) = hi},
         \A b \in last : b.kind # "other"
  PROVE  Trailing((B \ last) \cup {Cut(b) : b \in last}, lo, hi - 1)
<1> DEFINE C == (B \ last) \cup {Cut(b) : b \in last}
<1>1. \A b \in B : /\ b \in Block /\ b.at \in Nat /\ b.len \in Nat /\ BlockEnd(b) \in Nat
                   /\ BlockEnd(b) = b.at + b.len
                   /\ lo <= b.at /\ BlockEnd(b) <= hi
                   /\ b.kind # "other" => b.len > 0
                   /\ b.kind = "id3v1" => b.len = ID3V1_SIZE
  BY TrailingParts
<1>2. \A b \in last : b \in B /\ b.len > 0 /\ BlockEnd(b) = hi /\ b.kind # "other" BY <1>1
<1>3. \A b \in B \ last : BlockEnd(b) <= hi - 1 BY <1>1
<1>4. \A b \in last : /\ Cut(b) \in Block /\ Cut(b).at = b.at /\ Cut(b).len = b.len - 1
                      /\ Cut(b).kind = "other" /\ BlockEnd(Cut(b)) = hi - 1
  BY <1>1, <1>2, CutBlock
<1>5. ASSUME NEW c \in C
      PROVE  \E b \in B : /\ c.at = b.at /\ BlockEnd(c) <= BlockEnd(b) /\ BlockEnd(c) \in Int
                          /\ BlockEnd(c) <= hi - 1 /\ lo <= c.at /\ c \in Block
                          /\ c.kind # "other" => c = b /\ b \notin last
                          /\ (c = b /\ b \notin last) \/ (b \in last /\ c = Cut(b))
  <2>1. CASE c \in B \ last BY <1>1, <1>3, <2>1
  <2>2. CASE c \in {Cut(b) : b \in last}
    <3>1. PICK b \in last : c = Cut(b) BY <2>2
    <3>2. BlockEnd(c) = hi - 1 /\ BlockEnd(b) = hi /\ c.at = b.at /\ lo <= b.at
      BY <1>1, <1>2, <1>4, <3>1
    <3>3. QED BY <1>2, <1>4, <3>1, <3>2
  <2>3. QED BY <2>1, <2>2
<1> HIDE DEF C
<1>6. Apart(C)
  <2> SUFFICES ASSUME NEW x \in C, NEW y \in C, x # y
               PROVE  BlockEnd(x) <= y.at \/ BlockEnd(y) <= x.at
    BY DEF Apart
  <2>1. PICK b \in B : /\ x.at = b.at /\ BlockEnd(x) <= BlockEnd(b) /\ BlockEnd(x) \in Int
                       /\ (x = b /\ b \notin last) \/ (b \in last /\ x = Cut(b))
    BY <1>5
  <2>2. PICK c \in B : /\ y.at = c.at /\ BlockEnd(y) <= BlockEnd(c) /\ BlockEnd(y) \in Int
                       /\ (y = c /\ c \notin last) \/ (c \in last /\ y = Cut(c))
    BY <1>5
  <2>3. b # c BY <2>1, <2>2
  <2>4. BlockEnd(b) <= c.at \/ BlockEnd(c) <= b.at BY <2>3 DEF Trailing, Apart
  <2>5. b.at \in Nat /\ c.at \in Nat /\ BlockEnd(b) \in Nat /\ BlockEnd(c) \in Nat BY <1>1
  <2>6. QED BY <2>1, <2>2, <2>4, <2>5
<1>7. Kinds(C)
  <2> SUFFICES ASSUME NEW c \in C, c.kind # "other"
               PROVE  c.len > 0 /\ (c.kind = "id3v1" => c.len = ID3V1_SIZE)
    BY DEF Kinds
  <2>1. c \in B BY <1>5
  <2>2. QED BY <1>1, <2>1
<1>8. Covered(C)
  <2> SUFFICES ASSUME NEW b \in C, b.kind = "ape", b.len < FOOTER_SIZE
               PROVE  \E c \in C : c.kind # "id3v1" /\ c.len > 0 /\ BlockEnd(b) <= c.at
    BY DEF Covered
  <2>1. b \in B /\ b \notin last BY <1>5
  <2>2. PICK c \in B : c.kind # "id3v1" /\ c.len > 0 /\ BlockEnd(b) <= c.at
    BY <2>1 DEF Trailing, Covered
  <2>3. CASE c \notin last
    <3>1. c \in C BY <2>3 DEF C
    <3>2. QED BY <2>2, <3>1
  <2>4. CASE c \in last
    <3>1. c.kind = "ape" BY <1>2, <2>2, <2>4, TrailingParts
    <3>2. c.len >= FOOTER_SIZE
      <4>1. SUFFICES ASSUME c.len < FOOTER_SIZE PROVE FALSE
        BY <1>1 DEF FOOTER_SIZE
      <4>2. PICK d \in B : d.len > 0 /\ BlockEnd(c) <= d.at
        BY <3>1, <4>1 DEF Trailing, Covered
      <4>3. BlockEnd(c) = hi BY <1>2, <2>4
      <4>4. BlockEnd(d) = d.at + d.len /\ BlockEnd(d) <= hi /\ d.at \in Nat /\ d.len \in Nat
        BY <1>1
      <4>5. QED BY <4>2, <4>3, <4>4
    <3>3. Cut(c) \in C BY <2>4 DEF C
    <3>4. Cut(c).kind # "id3v1" /\ Cut(c).len > 0 /\ BlockEnd(b) <= Cut(c).at
      <4>1. Cut(c).kind = "other" /\ Cut(c).len = c.len - 1 /\ Cut(c).at = c.at
        BY <1>4, <2>4
      <4>2. c.len \in Nat BY <1>1
      <4>3. QED BY <2>2, <3>2, <4>1, <4>2 DEF FOOTER_SIZE
    <3>5. QED BY <3>3, <3>4
  <2>5. QED BY <2>3, <2>4
<1>9. QED
  <2>1. C \subseteq Block /\ \A c \in C : lo <= c.at /\ BlockEnd(c) <= hi - 1 BY <1>5
  <2>2. Trailing(C, lo, hi - 1) BY <1>6, <1>7, <1>8, <2>1 DEF Trailing
  <2>3. QED BY <2>2 DEF C

-----------------------------------------------------------------------------
\* What a scan of a file finds among the blocks behind its stream.

SearchEnd(info, len) == IF info.id3v1 = {} THEN len ELSE len - ID3V1_SIZE

LEMMA ApeLengthType ==
  ASSUME NEW b \in Block
  PROVE  ApeLength(b) \in Nat
  BY DEF ApeLength, Block, HEADER_SIZE

LEMMA DetectedParts ==
  ASSUME NEW buf, buf.len \in Nat, NEW eos \in Nat, NEW info, info = detect_trailers(buf, eos)
  PROVE  /\ \A r \in info.id3v1 :
              /\ r = [start |-> buf.len - ID3V1_SIZE, len |-> ID3V1_SIZE]
              /\ Id3v1At(buf, buf.len - ID3V1_SIZE) /\ eos <= buf.len - ID3V1_SIZE
         /\ eos <= buf.len - ID3V1_SIZE /\ Id3v1At(buf, buf.len - ID3V1_SIZE)
              => info.id3v1 = {[start |-> buf.len - ID3V1_SIZE, len |-> ID3V1_SIZE]}
         /\ SearchEnd(info, buf.len) \in Int
         /\ \A r \in info.apev2 : \E b \in buf.blocks :
              /\ b.kind = "ape" /\ BlockEnd(b) = SearchEnd(info, buf.len)
              /\ ApeLength(b) \in FOOTER_SIZE .. SearchEnd(info, buf.len) - eos
              /\ r = [start |-> SearchEnd(info, buf.len) - ApeLength(b), len |-> ApeLength(b)]
         /\ \A b \in buf.blocks :
              /\ b \in Block
              /\ b.kind = "ape" /\ BlockEnd(b) = SearchEnd(info, buf.len)
              /\ ApeLength(b) \in FOOTER_SIZE .. SearchEnd(info, buf.len) - eos
              => [start |-> SearchEnd(info, buf.len) - ApeLength(b), len |-> ApeLength(b)]
                   \in info.apev2
<1> DEFINE upper == SearchEnd(info, buf.len)
<1>1. SearchEnd(info, buf.len) \in Int /\ SearchEnd(info, buf.len) <= buf.len
  BY DEF SearchEnd, ID3V1_SIZE
<1>2. CASE eos >= buf.len
  <2>1. info = NoTags BY <1>2 DEF detect_trailers
  <2>2. info.id3v1 = {} /\ info.apev2 = {} BY <2>1 DEF NoTags
  <2>3. ~(eos <= buf.len - ID3V1_SIZE) BY <1>2 DEF ID3V1_SIZE
  <2>4. ASSUME NEW b, ApeLength(b) \in FOOTER_SIZE .. upper - eos PROVE FALSE
    <3>1. FOOTER_SIZE <= upper - eos BY <1>1, <2>4 DEF FOOTER_SIZE
    <3>2. QED BY <1>1, <1>2, <3>1 DEF FOOTER_SIZE
  <2>5. QED BY <1>1, <2>2, <2>3, <2>4
<1>3. CASE ~(eos >= buf.len)
  <2>1. info.id3v1 = DetectId3v1(buf, eos) /\ info.apev2 = DetectApe(buf, eos)
    BY <1>3 DEF detect_trailers
  <2>2. ApeSearchEnd(buf, eos) = upper BY <2>1 DEF ApeSearchEnd, SearchEnd
  <2>3. (buf.len - eos >= ID3V1_SIZE) <=> (eos <= buf.len - ID3V1_SIZE) BY DEF ID3V1_SIZE
  <2>4. \A r \in info.id3v1 :
              /\ r = [start |-> buf.len - ID3V1_SIZE, len |-> ID3V1_SIZE]
              /\ Id3v1At(buf, buf.len - ID3V1_SIZE) /\ eos <= buf.len - ID3V1_SIZE
    BY <2>1, <2>3, Zenon DEF DetectId3v1
  <2>5. eos <= buf.len - ID3V1_SIZE /\ Id3v1At(buf, buf.len - ID3V1_SIZE)
              => info.id3v1 = {[start |-> buf.len - ID3V1_SIZE, len |-> ID3V1_SIZE]}
    BY <2>1, <2>3, Zenon DEF DetectId3v1
  <2>6. PICK u : u = upper OBVIOUS
  <2>7. u \in Int BY <1>1, <2>6
  <2>8. info.apev2 = IF u < eos + FOOTER_SIZE THEN {}
                     ELSE {[start |-> u - ApeLength(b), len |-> ApeLength(b)] :
                            b \in {f \in FootersAt(buf, u - FOOTER_SIZE) :
                                     ApeLength(f) \in FOOTER_SIZE .. u - eos}}
    BY <2>1, <2>2, <2>6, Zenon DEF DetectApe
  <2>9. ASSUME NEW b \in buf.blocks
        PROVE  b \in FootersAt(buf, u - FOOTER_SIZE)
                 <=> b.kind = "ape" /\ BlockEnd(b) = u
    <3>1. (u - FOOTER_SIZE) + FOOTER_SIZE = u BY <2>7 DEF FOOTER_SIZE
    <3>2. QED BY <2>9, <3>1, Zenon DEF FootersAt, BlockEnd
  <2>10. FootersAt(buf, u - FOOTER_SIZE) \subseteq buf.blocks BY DEF FootersAt
  <2>11. ASSUME NEW r \in info.apev2
         PROVE  \E b \in buf.blocks :
                  /\ b.kind = "ape" /\ BlockEnd(b) = u
                  /\ ApeLength(b) \in FOOTER_SIZE .. u - eos
                  /\ r = [start |-> u - ApeLength(b), len |-> ApeLength(b)]
    <3>1. PICK b \in FootersAt(buf, u - FOOTER_SIZE) :
            /\ ApeLength(b) \in FOOTER_SIZE .. u - eos
            /\ r = [start |-> u - ApeLength(b), len |-> ApeLength(b)]
      BY <2>8, <2>11, Zenon
    <3>2. QED BY <2>9, <2>10, <3>1, Zenon
  <2>12. ASSUME NEW b \in buf.blocks, b \in Block, b.kind = "ape", BlockEnd(b) = u,
                ApeLength(b) \in FOOTER_SIZE .. u - eos
         PROVE  [start |-> u - ApeLength(b), len |-> ApeLength(b)] \in info.apev2
    <3>1. b \in FootersAt(buf, u - FOOTER_SIZE) BY <2>9, <2>12, Zenon
    <3>2. ~(u < eos + FOOTER_SIZE)
      <4>1. FOOTER_SIZE <= u - eos BY <2>7, <2>12 DEF FOOTER_SIZE
      <4>2. QED BY <2>7, <4>1 DEF FOOTER_SIZE
    <3>3. QED BY <2>8, <2>12, <3>1, <3>2, Zenon
  <2>13. QED BY <1>1, <2>4, <2>5, <2>6, <2>11, <2>12, Zenon
<1>4. QED BY <1>2, <1>3

\* Two blocks of metadata never end at the same byte.
LEMMA EndsDiffer ==
  ASSUME NEW B, NEW lo, NEW hi, Trailing(B, lo, hi), NEW b \in B, NEW c \in B,
         b.len > 0, c.len > 0, BlockEnd(b) = BlockEnd(c)
  PROVE  b = c
<1>1. SUFFICES ASSUME b # c PROVE FALSE OBVIOUS
<1>2. BlockEnd(b) <= c.at \/ BlockEnd(c) <= b.at BY <1>1 DEF Trailing, Apart
<1>3. /\ b.at \in Nat /\ b.len \in Nat /\ BlockEnd(b) = b.at + b.len
      /\ c.at \in Nat /\ c.len \in Nat /\ BlockEnd(c) = c.at + c.len
  BY TrailingParts
<1>4. PICK p, q, m, n : p = b.at /\ q = c.at /\ m = b.len /\ n = c.len OBVIOUS
<1>5. p \in Nat /\ q \in Nat /\ m \in Nat /\ n \in Nat /\ m > 0 /\ n > 0 /\ p + m = q + n
  BY <1>3, <1>4
<1>6. p + m <= q \/ q + n <= p BY <1>2, <1>3, <1>4
<1>7. QED BY <1>5, <1>6

Scanned(info, buf, eos, lo) ==
  /\ buf.len \in Nat /\ eos \in Nat /\ Trailing(buf.blocks, lo, buf.len)
  /\ info = detect_trailers(buf, eos)

LEMMA DetectedTags ==
  ASSUME NEW info, NEW buf, NEW eos, NEW lo, Scanned(info, buf, eos, lo)
  PROVE  /\ \A r \in info.id3v1 :
              /\ r.start = buf.len - ID3V1_SIZE /\ r.len = ID3V1_SIZE
              /\ r.start \in Nat /\ eos <= r.start
              /\ \E d \in buf.blocks : /\ d.kind = "id3v1" /\ d.at = r.start
                                       /\ BlockEnd(d) = buf.len /\ r = Extent(d)
         /\ \A b \in buf.blocks : b.kind = "ape" /\ BlockEnd(b) = SearchEnd(info, buf.len)
              => b.len >= FOOTER_SIZE
         /\ \A r \in info.apev2 :
              /\ r.len \in Nat /\ r.len >= FOOTER_SIZE /\ r.start \in Nat /\ eos <= r.start
              /\ r.start + r.len = SearchEnd(info, buf.len)
              /\ \E b \in buf.blocks :
                   /\ b.kind = "ape" /\ BlockEnd(b) = SearchEnd(info, buf.len)
                   /\ r.len = ApeLength(b) /\ b.len >= FOOTER_SIZE
         /\ \A q, r \in info.apev2 : q = r
<1> DEFINE upper == SearchEnd(info, buf.len)
<1> USE DEF Scanned
<1>1. \A b \in buf.blocks : /\ b \in Block /\ b.at \in Nat /\ b.len \in Nat
                            /\ BlockEnd(b) = b.at + b.len /\ BlockEnd(b) <= buf.len
                            /\ b.kind # "other" => b.len > 0
                            /\ b.kind = "id3v1" => b.len = ID3V1_SIZE
  BY TrailingParts
<1>2. ID3V1_SIZE \in Nat /\ FOOTER_SIZE \in Nat BY DEF ID3V1_SIZE, FOOTER_SIZE
<1>3. upper \in Int BY DetectedParts
<1>4. ASSUME NEW r \in info.id3v1
      PROVE  /\ r.start = buf.len - ID3V1_SIZE /\ r.len = ID3V1_SIZE
             /\ r.start \in Nat /\ eos <= r.start
             /\ \E d \in buf.blocks : /\ d.kind = "id3v1" /\ d.at = r.start
                                      /\ BlockEnd(d) = buf.len /\ r = Extent(d)
  <2>1. /\ r = [start |-> buf.len - ID3V1_SIZE, len |-> ID3V1_SIZE]
        /\ Id3v1At(buf, buf.len - ID3V1_SIZE) /\ eos <= buf.len - ID3V1_SIZE
    BY <1>4, DetectedParts
  <2>2. r.start = buf.len - ID3V1_SIZE /\ r.len = ID3V1_SIZE BY <2>1
  <2>3. r.start \in Nat /\ eos <= r.start BY <1>2, <2>1, <2>2
  <2>4. PICK d \in buf.blocks : d.kind = "id3v1" /\ d.at = r.start
    BY <2>1, <2>2 DEF Id3v1At
  <2>5. d.len = ID3V1_SIZE /\ BlockEnd(d) = d.at + d.len BY <1>1, <2>4
  <2>6. BlockEnd(d) = buf.len BY <1>2, <2>2, <2>4, <2>5
  <2>7. r = Extent(d) BY <2>1, <2>2, <2>4, <2>5 DEF Extent
  <2>8. QED BY <2>2, <2>3, <2>4, <2>6, <2>7
<1>5. ASSUME NEW b \in buf.blocks, b.kind = "ape", BlockEnd(b) = upper
      PROVE  b.len >= FOOTER_SIZE
  <2>1. SUFFICES ASSUME b.len < FOOTER_SIZE PROVE FALSE BY <1>1, <1>2
  <2>2. PICK c \in buf.blocks : c.kind # "id3v1" /\ c.len > 0 /\ BlockEnd(b) <= c.at
    BY <1>5, <2>1 DEF Trailing, Covered
  <2>3. c.at \in Nat /\ c.len \in Nat /\ BlockEnd(c) = c.at + c.len /\ BlockEnd(c) <= buf.len
    BY <1>1
  <2>4. CASE info.id3v1 = {}
    <3>1. upper = buf.len BY <2>4 DEF SearchEnd
    <3>2. QED BY <1>5, <2>2, <2>3, <3>1
  <2>5. CASE info.id3v1 # {}
    <3>1. upper = buf.len - ID3V1_SIZE BY <2>5 DEF SearchEnd
    <3>2. PICK d \in buf.blocks : /\ d.kind = "id3v1" /\ d.at = buf.len - ID3V1_SIZE
                                  /\ BlockEnd(d) = buf.len
      BY <1>4, <2>5
    <3>3. BlockEnd(c) <= d.at \/ BlockEnd(d) <= c.at BY <2>2, <3>2 DEF Trailing, Apart
    <3>4. QED BY <1>2, <1>5, <2>2, <2>3, <3>1, <3>2, <3>3
  <2>6. QED BY <2>4, <2>5
<1>6. ASSUME NEW r \in info.apev2
      PROVE  \E b \in buf.blocks :
              /\ b.kind = "ape" /\ BlockEnd(b) = upper /\ b.len >= FOOTER_SIZE
              /\ ApeLength(b) \in FOOTER_SIZE .. upper - eos
              /\ r = [start |-> upper - ApeLength(b), len |-> ApeLength(b)]
  <2>1. PICK b \in buf.blocks :
              /\ b.kind = "ape" /\ BlockEnd(b) = upper
              /\ ApeLength(b) \in FOOTER_SIZE .. upper - eos
              /\ r = [start |-> upper - ApeLength(b), len |-> ApeLength(b)]
    BY <1>6, DetectedParts
  <2>2. QED BY <1>5, <2>1
<1>7. ASSUME NEW r \in info.apev2
      PROVE  /\ r.len \in Nat /\ r.len >= FOOTER_SIZE /\ r.start \in Nat /\ eos <= r.start
             /\ r.start + r.len = upper
             /\ \E b \in buf.blocks : /\ b.kind = "ape" /\ BlockEnd(b) = upper
                                      /\ r.len = ApeLength(b) /\ b.len >= FOOTER_SIZE
  <2>1. PICK b \in buf.blocks :
              /\ b.kind = "ape" /\ BlockEnd(b) = upper /\ b.len >= FOOTER_SIZE
              /\ ApeLength(b) \in FOOTER_SIZE .. upper - eos
              /\ r = [start |-> upper - ApeLength(b), len |-> ApeLength(b)]
    BY <1>6, <1>7
  <2>2. PICK n : n = ApeLength(b) OBVIOUS
  <2>3. PICK u \in Int : u = upper BY <1>3
  <2>4. r.start = u - n /\ r.len = n BY <2>1, <2>2, <2>3
  <2>5. n \in FOOTER_SIZE .. u - eos BY <2>1, <2>2, <2>3
  <2>6. n \in Nat /\ n >= FOOTER_SIZE /\ u - n \in Nat /\ eos <= u - n /\ (u - n) + n = u
    BY <1>2, <2>5
  <2>7. QED BY <2>1, <2>2, <2>3, <2>4, <2>6
<1>8. ASSUME NEW q \in info.apev2, NEW r \in info.apev2 PROVE q = r
  <2>1. PICK b \in buf.blocks :
              /\ b.kind = "ape" /\ BlockEnd(b) = upper
              /\ q = [start |-> upper - ApeLength(b), len |-> ApeLength(b)]
    BY <1>6
  <2>2. PICK c \in buf.blocks :
              /\ c.kind = "ape" /\ BlockEnd(c) = upper
              /\ r = [start |-> upper - ApeLength(c), len |-> ApeLength(c)]
    BY <1>6
  <2>3. b.len > 0 /\ c.len > 0 BY <1>1, <2>1, <2>2
  <2>4. b = c BY <2>1, <2>2, <2>3, EndsDiffer
  <2>5. QED BY <2>1, <2>2, <2>4
<1>9. QED BY <1>4, <1>5, <1>7, <1>8

\* The window over what a scan found, and what it leaves of the file.
LEMMA CombinedSpan ==
  ASSUME NEW info, NEW buf, NEW eos, NEW lo, Scanned(info, buf, eos, lo),
         NEW c \in CombinedByteRange(info)
  PROVE  /\ c.start \in Nat /\ c.len \in Nat /\ c.len >= FOOTER_SIZE /\ eos <= c.start
         /\ c.start + c.len = buf.len
         /\ \A r \in info.id3v1 \cup info.apev2 : c.start <= r.start
         /\ \E r \in info.id3v1 \cup info.apev2 : c.start = r.start
         /\ \A i \in info.id3v1, a \in info.apev2 : c.len = i.len + a.len
<1> DEFINE tags == info.id3v1 \cup info.apev2
           upper == SearchEnd(info, buf.len)
<1>1. ID3V1_SIZE = 128 /\ FOOTER_SIZE = 32 /\ buf.len \in Nat /\ eos \in Nat
  BY DEF ID3V1_SIZE, FOOTER_SIZE, Scanned
<1>2. PICK s \in tags, e \in tags :
        /\ \A q \in tags : s.start <= q.start
        /\ \A q \in tags : EndOf(q) <= EndOf(e)
        /\ c = [start |-> s.start, len |-> EndOf(e) - s.start]
  BY DEF CombinedByteRange
<1>3. \A r \in info.id3v1 : /\ r.start = buf.len - 128 /\ r.len = 128
                            /\ r.start \in Nat /\ eos <= r.start
  <2>1. \A r \in info.id3v1 : /\ r.start = buf.len - ID3V1_SIZE /\ r.len = ID3V1_SIZE
                              /\ r.start \in Nat /\ eos <= r.start
    BY DetectedTags, SMT
  <2>2. QED BY <1>1, <2>1
<1>4. \A r \in info.apev2 : /\ r.len \in Nat /\ r.len >= 32 /\ r.start \in Nat /\ eos <= r.start
                            /\ r.start + r.len = upper
  <2>1. \A r \in info.apev2 : /\ r.len \in Nat /\ r.len >= FOOTER_SIZE /\ r.start \in Nat
                              /\ eos <= r.start /\ r.start + r.len = SearchEnd(info, buf.len)
    BY DetectedTags, SMT
  <2>2. QED BY <1>1, <2>1
<1>5. upper = IF info.id3v1 = {} THEN buf.len ELSE buf.len - 128 BY <1>1 DEF SearchEnd
<1> HIDE DEF upper
<1>6. \A r \in tags : /\ r.start \in Nat /\ r.len \in Nat /\ eos <= r.start /\ r.len >= 32
                      /\ EndOf(r) = r.start + r.len /\ EndOf(r) <= buf.len
  BY <1>1, <1>3, <1>4, <1>5 DEF EndOf
<1>7. EndOf(e) = buf.len
  <2>1. CASE info.id3v1 = {}
    <3>1. e \in info.apev2 BY <2>1
    <3>2. QED BY <1>1, <1>4, <1>5, <2>1, <3>1 DEF EndOf
  <2>2. CASE info.id3v1 # {}
    <3>1. PICK i \in info.id3v1 : TRUE BY <2>2
    <3>2. EndOf(i) = buf.len BY <1>1, <1>3, <3>1 DEF EndOf
    <3>3. EndOf(i) <= EndOf(e) BY <1>2, <3>1
    <3>4. EndOf(e) <= buf.len /\ EndOf(e) \in Nat BY <1>6
    <3>5. QED BY <1>1, <3>2, <3>3, <3>4
  <2>3. QED BY <2>1, <2>2
<1>8. c.start = s.start /\ c.len = buf.len - s.start BY <1>2, <1>7
<1>9. c.len >= 32 /\ c.len \in Nat /\ c.start + c.len = buf.len
  <2>1. EndOf(s) = s.start + s.len /\ s.len >= 32 /\ EndOf(s) <= buf.len /\ s.start \in Nat
        /\ s.len \in Nat
    BY <1>6
  <2>2. QED BY <1>1, <1>8, <2>1
<1>10. ASSUME NEW i \in info.id3v1, NEW a \in info.apev2 PROVE c.len = i.len + a.len
  <2>1. i.start = buf.len - 128 /\ i.len = 128 /\ i.start \in Nat BY <1>3
  <2>2. a.len \in Nat /\ a.len >= 32 /\ a.start \in Nat /\ a.start + a.len = buf.len - 128
    BY <1>1, <1>4, <1>5
  <2>3. s.start = a.start
    <3>1. s.start <= a.start BY <1>2
    <3>2. CASE s \in info.apev2
      <4>1. s = a BY <3>2, DetectedTags
      <4>2. QED BY <4>1
    <3>3. CASE s \in info.id3v1
      <4>1. s.start = buf.len - 128 BY <1>3, <3>3
      <4>2. QED BY <2>2, <3>1, <4>1
    <3>4. QED BY <3>2, <3>3
  <2>4. QED BY <1>1, <1>8, <2>1, <2>2, <2>3
<1>11. QED BY <1>1, <1>2, <1>6, <1>8, <1>9, <1>10

-----------------------------------------------------------------------------
\* Two files with the same tags at their end, one of them z bytes longer in front.

Alike(m, b, z) ==
  /\ m \in Block /\ b \in Block
  /\ m.kind = "ape" <=> b.kind = "ape"
  /\ m.kind = "id3v1" => b.kind = "id3v1" /\ b.at = m.at + z
  /\ b.kind = "id3v1" /\ z <= b.at => m.kind = "id3v1" /\ b.at = m.at + z
  /\ BlockEnd(b) = BlockEnd(m) + z /\ ApeLength(m) = ApeLength(b)

SameEnd(p, q, z, eos, lo) ==
  /\ p.len \in Nat /\ z \in Nat /\ eos <= z /\ q.len = p.len + z
  /\ Scanned(detect_trailers(q, eos), q, eos, lo)
  /\ \A m \in p.blocks : \E b \in q.blocks : Alike(m, b, z)
  /\ \A b \in q.blocks :
       /\ z < BlockEnd(b) /\ b.at < q.len
       /\ b.kind = "id3v1" => z <= b.at
       => \E m \in p.blocks : Alike(m, b, z)
  /\ \A r \in detect_trailers(q, eos).id3v1 : z <= r.start
  /\ \A r \in detect_trailers(q, eos).apev2 : z <= r.start

LEMMA SameSizes ==
  ASSUME NEW p, NEW q, NEW z, NEW eos, NEW lo, SameEnd(p, q, z, eos, lo)
  PROVE  Sizes(detect_trailers(p, 0)) = Sizes(detect_trailers(q, eos))
<1>1. PICK old : old = detect_trailers(q, eos) OBVIOUS
<1>2. PICK new : new = detect_trailers(p, 0) OBVIOUS
<1>3. /\ p.len \in Nat /\ q.len \in Nat /\ z \in Nat /\ eos \in Nat /\ eos <= z
      /\ q.len = p.len + z /\ Trailing(q.blocks, lo, q.len) /\ Scanned(old, q, eos, lo)
  BY <1>1 DEF SameEnd, Scanned
<1>4. ID3V1_SIZE = 128 /\ FOOTER_SIZE = 32 BY DEF ID3V1_SIZE, FOOTER_SIZE
<1>5. \A m \in p.blocks : \E b \in q.blocks : Alike(m, b, z) BY DEF SameEnd
<1>6. \A b \in q.blocks :
        /\ z < BlockEnd(b) /\ b.at < q.len
        /\ b.kind = "id3v1" => z <= b.at
        => \E m \in p.blocks : Alike(m, b, z)
  BY DEF SameEnd
<1>7. \A r \in old.id3v1 : z <= r.start BY <1>1 DEF SameEnd
<1>8. \A r \in old.apev2 : z <= r.start BY <1>1 DEF SameEnd
<1>9. \A b \in q.blocks : /\ b \in Block /\ b.at \in Nat /\ b.len \in Nat
                          /\ BlockEnd(b) = b.at + b.len /\ BlockEnd(b) <= q.len
                          /\ b.kind # "other" => b.len > 0
  BY <1>3, TrailingParts
<1>10. \A r \in old.id3v1 : r.len = 128 BY <1>3, <1>4, DetectedTags
<1>11. \A r \in new.id3v1 : r.len = 128
  <2>1. \A r \in new.id3v1 : r = [start |-> p.len - ID3V1_SIZE, len |-> ID3V1_SIZE]
    BY <1>2, <1>3, DetectedParts
  <2>2. QED BY <1>4, <2>1
<1>12. old.id3v1 # {} => new.id3v1 # {}
  <2> SUFFICES ASSUME NEW r \in old.id3v1 PROVE new.id3v1 # {} OBVIOUS
  <2>1. PICK d \in q.blocks : /\ d.kind = "id3v1" /\ d.at = r.start /\ BlockEnd(d) = q.len
    BY <1>3, DetectedTags
  <2>2. r.start = q.len - 128 /\ z <= r.start BY <1>3, <1>4, <1>7, DetectedTags
  <2>3. PICK m \in p.blocks : Alike(m, d, z)
    <3>1. z < BlockEnd(d) /\ d.at < q.len /\ z <= d.at BY <1>3, <2>1, <2>2
    <3>2. QED BY <1>6, <2>1, <3>1
  <2>4. m.kind = "id3v1" /\ d.at = m.at + z /\ m.at \in Nat
    <3>1. m.at \in Nat BY <2>3 DEF Alike, Block
    <3>2. QED BY <2>1, <2>2, <2>3, <3>1 DEF Alike
  <2>5. m.at = p.len - 128 /\ 0 <= p.len - 128 BY <1>3, <2>1, <2>2, <2>4
  <2>6. Id3v1At(p, p.len - ID3V1_SIZE) /\ 0 <= p.len - ID3V1_SIZE
    BY <1>4, <2>4, <2>5 DEF Id3v1At
  <2>7. new.id3v1 = {[start |-> p.len - ID3V1_SIZE, len |-> ID3V1_SIZE]}
    BY <1>2, <1>3, <2>6, DetectedParts
  <2>8. QED BY <2>7
<1>13. new.id3v1 # {} => old.id3v1 # {}
  <2> SUFFICES ASSUME NEW r \in new.id3v1 PROVE old.id3v1 # {} OBVIOUS
  <2>1. Id3v1At(p, p.len - ID3V1_SIZE) /\ 0 <= p.len - ID3V1_SIZE
    BY <1>2, <1>3, DetectedParts
  <2>2. PICK m \in p.blocks : m.kind = "id3v1" /\ m.at = p.len - 128
    BY <1>4, <2>1 DEF Id3v1At
  <2>3. PICK b \in q.blocks : Alike(m, b, z) BY <1>5
  <2>4. b.kind = "id3v1" /\ b.at = m.at + z BY <2>2, <2>3 DEF Alike
  <2>5. b.at = q.len - 128 /\ eos <= q.len - 128 BY <1>3, <1>4, <2>1, <2>2, <2>4
  <2>6. Id3v1At(q, q.len - ID3V1_SIZE) /\ eos <= q.len - ID3V1_SIZE
    BY <1>4, <2>4, <2>5 DEF Id3v1At
  <2>7. old.id3v1 = {[start |-> q.len - ID3V1_SIZE, len |-> ID3V1_SIZE]}
    BY <1>1, <1>3, <2>6, DetectedParts
  <2>8. QED BY <2>7
<1>14. PICK u, v \in Int : u = SearchEnd(old, q.len) /\ v = SearchEnd(new, p.len) /\ u = v + z
  <2>1. old.id3v1 = {} <=> new.id3v1 = {} BY <1>12, <1>13
  <2>2. PICK u, v : u = SearchEnd(old, q.len) /\ v = SearchEnd(new, p.len) OBVIOUS
  <2>3. u = (IF old.id3v1 = {} THEN q.len ELSE q.len - 128)
        /\ v = (IF new.id3v1 = {} THEN p.len ELSE p.len - 128)
    BY <1>4, <2>2 DEF SearchEnd
  <2>4. CASE old.id3v1 = {}
    <3>1. u = q.len /\ v = p.len BY <2>1, <2>3, <2>4
    <3>2. u \in Int /\ v \in Int /\ u = v + z BY <1>3, <3>1
    <3>3. QED BY <2>2, <3>2
  <2>5. CASE old.id3v1 # {}
    <3>1. u = q.len - 128 /\ v = p.len - 128 BY <2>1, <2>3, <2>5
    <3>2. u \in Int /\ v \in Int /\ u = v + z BY <1>3, <3>1
    <3>3. QED BY <2>2, <3>2
  <2>6. QED BY <2>4, <2>5
<1>15. ASSUME NEW r \in old.apev2 PROVE \E w \in new.apev2 : w.len = r.len
  <2>1. PICK b \in q.blocks :
          /\ b.kind = "ape" /\ BlockEnd(b) = u /\ r.len = ApeLength(b)
    BY <1>3, <1>14, DetectedTags
  <2>2. r.len \in Nat /\ r.len >= 32 /\ r.start \in Nat /\ z <= r.start /\ r.start + r.len = u
    BY <1>3, <1>4, <1>8, <1>14, DetectedTags
  <2>3. PICK m \in p.blocks : Alike(m, b, z)
    <3>1. z < BlockEnd(b) BY <1>3, <2>1, <2>2
    <3>2. b.at < q.len
      <4>1. b.len > 0 BY <1>9, <2>1
      <4>2. QED BY <1>3, <1>9, <4>1
    <3>3. QED BY <1>6, <2>1, <3>1, <3>2
  <2>4. /\ m \in Block /\ m.kind = "ape" /\ BlockEnd(b) = BlockEnd(m) + z
        /\ ApeLength(m) = r.len
    BY <2>1, <2>3 DEF Alike
  <2>5. BlockEnd(m) = v
    <3>1. BlockEnd(m) \in Nat BY <2>4, BlockParts
    <3>2. QED BY <1>3, <1>14, <2>1, <2>4, <3>1
  <2>6. ApeLength(m) \in FOOTER_SIZE .. v - 0 BY <1>3, <1>4, <1>14, <2>2, <2>4
  <2>7. [start |-> v - ApeLength(m), len |-> ApeLength(m)] \in new.apev2
    BY <1>2, <1>3, <1>14, <2>4, <2>5, <2>6, DetectedParts
  <2>8. QED BY <2>4, <2>7
<1>16. ASSUME NEW w \in new.apev2 PROVE \E r \in old.apev2 : r.len = w.len
  <2>1. PICK m \in p.blocks :
          /\ m.kind = "ape" /\ BlockEnd(m) = v /\ ApeLength(m) \in FOOTER_SIZE .. v - 0
          /\ w = [start |-> v - ApeLength(m), len |-> ApeLength(m)]
    BY <1>2, <1>3, <1>14, DetectedParts
  <2>2. PICK b \in q.blocks : Alike(m, b, z) BY <1>5
  <2>3. b.kind = "ape" /\ BlockEnd(b) = u /\ ApeLength(b) = ApeLength(m)
    BY <1>14, <2>1, <2>2 DEF Alike
  <2>4. ApeLength(b) \in FOOTER_SIZE .. u - eos
    <3>1. PICK n : n = ApeLength(b) OBVIOUS
    <3>2. n \in FOOTER_SIZE .. v - 0 BY <2>1, <2>3, <3>1
    <3>3. n \in FOOTER_SIZE .. u - eos BY <1>3, <1>4, <1>14, <3>2
    <3>4. QED BY <3>1, <3>3
  <2>5. [start |-> u - ApeLength(b), len |-> ApeLength(b)] \in old.apev2
    BY <1>1, <1>3, <1>9, <1>14, <2>3, <2>4, DetectedParts
  <2>6. QED BY <2>1, <2>3, <2>5
<1>17. {r.len : r \in old.id3v1} = {r.len : r \in new.id3v1} BY <1>10, <1>11, <1>12, <1>13
<1>18. {r.len : r \in old.apev2} = {r.len : r \in new.apev2} BY <1>15, <1>16
<1>19. QED BY <1>1, <1>2, <1>17, <1>18 DEF Sizes

\* The kept slice appended to a file of m bytes.
Moved(b, m) == [b EXCEPT !.at = @ + m]

LEMMA AppendedSlice ==
  ASSUME NEW p, NEW q, NEW m \in Nat, p.len \in Nat, Trailing(p.blocks, 0, p.len),
         q.len = m + p.len, q.blocks = {Moved(b, m) : b \in p.blocks}
  PROVE  /\ Trailing(q.blocks, m, q.len)
         /\ Sizes(detect_trailers(p, 0)) = Sizes(detect_trailers(q, m))
<1>1. \A b \in p.blocks : /\ b \in Block /\ b.at \in Nat /\ b.len \in Nat
                          /\ BlockEnd(b) = b.at + b.len /\ BlockEnd(b) <= p.len
                          /\ b.kind # "other" => b.len > 0
                          /\ b.kind = "id3v1" => b.len = ID3V1_SIZE
  BY TrailingParts
<1>2. ASSUME NEW b \in p.blocks
      PROVE  /\ Moved(b, m) \in Block /\ Moved(b, m).at = b.at + m /\ Moved(b, m).len = b.len
             /\ Moved(b, m).kind = b.kind /\ ApeLength(Moved(b, m)) = ApeLength(b)
             /\ BlockEnd(Moved(b, m)) = BlockEnd(b) + m
  <2>1. PICK x \in Nat : x = b.at + m BY <1>1
  <2>2. PICK c : c = Moved(b, m) OBVIOUS
  <2>3. c = [b EXCEPT !.at = x] BY <2>1, <2>2 DEF Moved
  <2>4. b \in Block BY <1>1
  <2>5. /\ c \in Block /\ c.at = x /\ c.len = b.len /\ c.kind = b.kind
        /\ c.tagSize = b.tagSize /\ c.hasHeader = b.hasHeader /\ BlockEnd(c) = x + b.len
    BY <2>3, <2>4, MovedBlock
  <2>6. ApeLength(c) = ApeLength(b) BY <2>5 DEF ApeLength
  <2>7. BlockEnd(c) = BlockEnd(b) + m BY <1>1, <2>1, <2>5
  <2>8. QED BY <2>1, <2>2, <2>5, <2>6, <2>7
<1>3. Trailing(q.blocks, m, q.len)
  <2>1. q.blocks \subseteq Block BY <1>2
  <2>2. ASSUME NEW c \in q.blocks PROVE m <= c.at /\ BlockEnd(c) <= q.len
    <3>1. PICK b \in p.blocks : c = Moved(b, m) OBVIOUS
    <3>2. QED BY <1>1, <1>2, <3>1
  <2>3. Apart(q.blocks)
    <3> SUFFICES ASSUME NEW x \in q.blocks, NEW y \in q.blocks, x # y
                 PROVE  BlockEnd(x) <= y.at \/ BlockEnd(y) <= x.at
      BY DEF Apart
    <3>1. PICK b \in p.blocks : x = Moved(b, m) OBVIOUS
    <3>2. PICK c \in p.blocks : y = Moved(c, m) OBVIOUS
    <3>3. BlockEnd(b) <= c.at \/ BlockEnd(c) <= b.at BY <3>1, <3>2 DEF Trailing, Apart
    <3>4. /\ x.at = b.at + m /\ BlockEnd(x) = BlockEnd(b) + m
          /\ y.at = c.at + m /\ BlockEnd(y) = BlockEnd(c) + m
      BY <1>2, <3>1, <3>2
    <3>5. b.at \in Nat /\ c.at \in Nat /\ BlockEnd(b) \in Nat /\ BlockEnd(c) \in Nat BY <1>1
    <3>6. QED BY <3>3, <3>4, <3>5
  <2>4. Kinds(q.blocks)
    <3> SUFFICES ASSUME NEW c \in q.blocks
                 PROVE  (c.kind # "other" => c.len > 0) /\ (c.kind = "id3v1" => c.len = ID3V1_SIZE)
      BY DEF Kinds
    <3>1. PICK b \in p.blocks : c = Moved(b, m) OBVIOUS
    <3>2. QED BY <1>1, <1>2, <3>1
  <2>5. Covered(q.blocks)
    <3> SUFFICES ASSUME NEW x \in q.blocks, x.kind = "ape", x.len < FOOTER_SIZE
                 PROVE  \E y \in q.blocks : y.kind # "id3v1" /\ y.len > 0 /\ BlockEnd(x) <= y.at
      BY DEF Covered
    <3>1. PICK b \in p.blocks : x = Moved(b, m) OBVIOUS
    <3>2. b.kind = "ape" /\ b.len < FOOTER_SIZE BY <1>2, <3>1
    <3>3. PICK c \in p.blocks : c.kind # "id3v1" /\ c.len > 0 /\ BlockEnd(b) <= c.at
      BY <3>2 DEF Trailing, Covered
    <3>4. /\ BlockEnd(x) = BlockEnd(b) + m
          /\ Moved(c, m).kind # "id3v1" /\ Moved(c, m).len > 0 /\ Moved(c, m).at = c.at + m
      BY <1>2, <3>1, <3>3
    <3>5. BlockEnd(b) \in Nat /\ c.at \in Nat BY <1>1
    <3>6. BlockEnd(x) <= Moved(c, m).at BY <3>3, <3>4, <3>5
    <3>7. QED BY <3>4, <3>6
  <2>6. QED BY <2>1, <2>2, <2>3, <2>4, <2>5 DEF Trailing
<1>4. PICK info : info = detect_trailers(q, m) OBVIOUS
<1>5. q.len \in Nat OBVIOUS
<1>6. Scanned(info, q, m, m) BY <1>3, <1>4, <1>5 DEF Scanned
<1>7. ASSUME NEW b \in p.blocks PROVE Alike(b, Moved(b, m), m)
  <2>1. b \in Block BY <1>1
  <2>2. QED BY <1>2, <2>1 DEF Alike
<1>8. SameEnd(p, q, m, m, m)
  <2>1. \A b \in p.blocks : \E c \in q.blocks : Alike(b, c, m) BY <1>7
  <2>2. \A c \in q.blocks : \E b \in p.blocks : Alike(b, c, m) BY <1>7
  <2>3. \A r \in info.id3v1 : m <= r.start BY <1>6, DetectedTags, SMT
  <2>4. \A r \in info.apev2 : m <= r.start BY <1>6, DetectedTags, SMT
  <2>5. q.len = p.len + m BY <1>5
  <2>6. QED BY <1>4, <1>6, <2>1, <2>2, <2>3, <2>4, <2>5 DEF SameEnd
<1>9. QED BY <1>3, <1>8, SameSizes

\* The slice of the combined window.
IsSlice(p, q, r) ==
  /\ p.len = r.len
  /\ p.blocks = {Sliced(b, r.start) :
                   b \in {x \in q.blocks : r.start < BlockEnd(x) /\ x.at < q.len}}

Keeps(p, info) ==
  /\ p.len \in Nat /\ p.len > 0 /\ Trailing(p.blocks, 0, p.len)
  /\ Sizes(detect_trailers(p, 0)) = Sizes(info)

LEMMA KeptSlice ==
  ASSUME NEW info, NEW q, NEW eos, NEW lo, Scanned(info, q, eos, lo),
         NEW r \in CombinedByteRange(info), NEW p, IsSlice(p, q, r)
  PROVE  Keeps(p, info)
<1> PICK B : /\ p.len = r.len
             /\ B = {x \in q.blocks : r.start < BlockEnd(x) /\ x.at < q.len}
             /\ p.blocks = {Sliced(b, r.start) : b \in B}
  BY DEF IsSlice
<1>1. PICK s : s = r.start OBVIOUS
<1>2. /\ s \in Nat /\ p.len \in Nat /\ p.len >= FOOTER_SIZE /\ eos <= s /\ s + p.len = q.len
      /\ \A i \in info.id3v1 \cup info.apev2 : s <= i.start
      /\ \E i \in info.id3v1 \cup info.apev2 : s = i.start
  BY <1>1, CombinedSpan, SMT
<1>3. q.len \in Nat /\ eos \in Nat /\ Trailing(q.blocks, lo, q.len) /\ info = detect_trailers(q, eos)
  BY DEF Scanned
<1>4. FOOTER_SIZE = 32 /\ ID3V1_SIZE = 128 BY DEF FOOTER_SIZE, ID3V1_SIZE
<1>5. \A b \in q.blocks : /\ b \in Block /\ b.at \in Nat /\ b.len \in Nat
                          /\ BlockEnd(b) = b.at + b.len /\ BlockEnd(b) <= q.len
                          /\ b.kind \in {"id3v1", "ape", "other"}
                          /\ b.kind # "other" => b.len > 0
                          /\ b.kind = "id3v1" => b.len = ID3V1_SIZE
  BY <1>3, TrailingParts
<1>6. \A b \in B : b \in q.blocks /\ s < BlockEnd(b) BY <1>1
<1>7. ASSUME NEW b \in B
      PROVE  /\ Sliced(b, s) \in Block /\ Sliced(b, s).tagSize = b.tagSize
             /\ Sliced(b, s).hasHeader = b.hasHeader
             /\ BlockEnd(Sliced(b, s)) = BlockEnd(b) - s
             /\ b.at >= s => /\ Sliced(b, s).at = b.at - s /\ Sliced(b, s).len = b.len
                             /\ Sliced(b, s).kind = b.kind
             /\ b.at < s => /\ Sliced(b, s).at = 0 /\ Sliced(b, s).len = BlockEnd(b) - s
                            /\ Sliced(b, s).kind = IF b.kind = "ape" THEN "ape" ELSE "other"
  <2>1. b \in Block /\ s < BlockEnd(b) BY <1>5, <1>6
  <2>2. QED BY <1>2, <2>1, SlicedBlock
<1>8. \A c \in p.blocks : \E b \in B : c = Sliced(b, s) BY <1>1
<1>9. \A b \in B : Sliced(b, s) \in p.blocks BY <1>1
<1>10. p.blocks \subseteq Block BY <1>7, <1>8
<1>11. ASSUME NEW c \in p.blocks PROVE 0 <= c.at /\ BlockEnd(c) <= p.len
  <2>1. PICK b \in B : c = Sliced(b, s) BY <1>8
  <2>2. BlockEnd(c) = BlockEnd(b) - s /\ BlockEnd(b) \in Nat /\ BlockEnd(b) <= q.len
    BY <1>5, <1>6, <1>7, <2>1
  <2>3. c.at \in Nat BY <1>10 DEF Block
  <2>4. QED BY <1>2, <1>3, <2>2, <2>3
<1>12. Apart(p.blocks)
  <2> SUFFICES ASSUME NEW x \in p.blocks, NEW y \in p.blocks, x # y
               PROVE  BlockEnd(x) <= y.at \/ BlockEnd(y) <= x.at
    BY DEF Apart
  <2>1. PICK b \in B : x = Sliced(b, s) BY <1>8
  <2>2. PICK c \in B : y = Sliced(c, s) BY <1>8
  <2>3. BlockEnd(b) <= c.at \/ BlockEnd(c) <= b.at
    <3>1. b # c /\ b \in q.blocks /\ c \in q.blocks BY <1>6, <2>1, <2>2
    <3>2. QED BY <1>3, <3>1 DEF Trailing, Apart
  <2>4. /\ BlockEnd(x) = BlockEnd(b) - s /\ BlockEnd(y) = BlockEnd(c) - s
        /\ b.at >= s => x.at = b.at - s
        /\ c.at >= s => y.at = c.at - s
    BY <1>7, <2>1, <2>2
  <2>5. /\ b.at \in Nat /\ c.at \in Nat /\ BlockEnd(b) \in Nat /\ BlockEnd(c) \in Nat
        /\ s < BlockEnd(b) /\ s < BlockEnd(c)
    BY <1>5, <1>6
  <2>6. CASE BlockEnd(b) <= c.at
    <3>1. c.at >= s BY <1>2, <2>5, <2>6
    <3>2. QED BY <1>2, <2>4, <2>5, <2>6, <3>1
  <2>7. CASE BlockEnd(c) <= b.at
    <3>1. b.at >= s BY <1>2, <2>5, <2>7
    <3>2. QED BY <1>2, <2>4, <2>5, <2>7, <3>1
  <2>8. QED BY <2>3, <2>6, <2>7
<1>13. Kinds(p.blocks)
  <2> SUFFICES ASSUME NEW c \in p.blocks
               PROVE  (c.kind # "other" => c.len > 0) /\ (c.kind = "id3v1" => c.len = ID3V1_SIZE)
    BY DEF Kinds
  <2>1. PICK b \in B : c = Sliced(b, s) BY <1>8
  <2>2. /\ b.at \in Nat /\ BlockEnd(b) \in Nat /\ s < BlockEnd(b)
        /\ b.kind # "other" => b.len > 0
        /\ b.kind = "id3v1" => b.len = ID3V1_SIZE
    BY <1>5, <1>6
  <2>3. CASE b.at >= s
    <3>1. c.kind = b.kind /\ c.len = b.len BY <1>7, <2>1, <2>3
    <3>2. QED BY <2>2, <3>1
  <2>4. CASE b.at < s
    <3>1. c.kind \in {"ape", "other"} /\ c.len = BlockEnd(b) - s BY <1>7, <2>1, <2>4
    <3>2. c.len > 0 BY <1>2, <2>2, <3>1
    <3>3. c.kind # "id3v1" BY <3>1
    <3>4. QED BY <3>2, <3>3
  <2>5. QED BY <1>2, <2>2, <2>3, <2>4
<1>14. Covered(p.blocks)
  <2> SUFFICES ASSUME NEW x \in p.blocks, x.kind = "ape", x.len < FOOTER_SIZE
               PROVE  \E y \in p.blocks : y.kind # "id3v1" /\ y.len > 0 /\ BlockEnd(x) <= y.at
    BY DEF Covered
  <2>1. PICK b \in B : x = Sliced(b, s) BY <1>8
  <2>2. /\ b \in q.blocks /\ b.at \in Nat /\ BlockEnd(b) \in Nat /\ s < BlockEnd(b)
        /\ BlockEnd(x) = BlockEnd(b) - s
    BY <1>5, <1>6, <1>7, <2>1
  <2>3. b.kind = "ape" BY <1>2, <1>7, <2>1, <2>2
  \* A later block stands behind b in the slice as it did in the file.
  <2>4. ASSUME NEW c \in q.blocks, c.kind # "id3v1", c.len > 0, BlockEnd(b) <= c.at
        PROVE  \E y \in p.blocks : y.kind # "id3v1" /\ y.len > 0 /\ BlockEnd(x) <= y.at
    <3>1. /\ c.at \in Nat /\ c.len \in Nat /\ BlockEnd(c) = c.at + c.len /\ BlockEnd(c) <= q.len
      BY <1>5
    <3>2. s <= c.at /\ s < BlockEnd(c) /\ c.at < q.len BY <1>2, <1>3, <2>2, <2>4, <3>1
    <3>3. c \in B BY <1>1, <3>2
    <3>4. /\ Sliced(c, s) \in p.blocks /\ Sliced(c, s).at = c.at - s
          /\ Sliced(c, s).len = c.len /\ Sliced(c, s).kind = c.kind
      BY <1>7, <1>9, <3>2, <3>3
    <3>5. BlockEnd(x) <= Sliced(c, s).at BY <1>2, <2>2, <2>4, <3>1, <3>4
    <3>6. QED BY <2>4, <3>4, <3>5
  <2>5. CASE b.at >= s
    <3>1. b.len < FOOTER_SIZE BY <1>7, <2>1, <2>5
    <3>2. PICK c \in q.blocks : c.kind # "id3v1" /\ c.len > 0 /\ BlockEnd(b) <= c.at
      BY <1>3, <2>2, <2>3, <3>1 DEF Trailing, Covered
    <3>3. QED BY <2>4, <3>2
  <2>6. CASE b.at < s
    <3>1. PICK i \in info.id3v1 \cup info.apev2 : s = i.start BY <1>2
    <3>2. i \notin info.id3v1
      <4>1. SUFFICES ASSUME i \in info.id3v1 PROVE FALSE OBVIOUS
      <4>2. PICK d \in q.blocks : d.at = s /\ BlockEnd(d) = q.len /\ d.kind = "id3v1"
        BY <3>1, <4>1, DetectedTags, SMT
      <4>3. d # b BY <2>3, <4>2
      <4>4. BlockEnd(b) <= d.at \/ BlockEnd(d) <= b.at
        BY <1>3, <2>2, <4>3 DEF Trailing, Apart
      <4>5. QED BY <1>2, <1>3, <2>2, <2>6, <4>2, <4>4
    <3>3. PICK u : u = SearchEnd(info, q.len) OBVIOUS
    <3>4. i.len \in Nat /\ i.len >= FOOTER_SIZE /\ i.start + i.len = u
      BY <3>1, <3>2, <3>3, DetectedTags, SMT
    <3>5. PICK a \in q.blocks : a.kind = "ape" /\ BlockEnd(a) = u /\ a.len >= FOOTER_SIZE
      BY <3>1, <3>2, <3>3, DetectedTags, SMT
    <3>6. a.at \in Nat /\ a.len \in Nat /\ BlockEnd(a) = a.at + a.len BY <1>5
    <3>7. b # a
      <4>1. SUFFICES ASSUME b = a PROVE FALSE OBVIOUS
      <4>2. x.len = u - s BY <1>7, <2>1, <2>6, <3>5, <4>1
      <4>3. QED BY <1>2, <1>4, <3>1, <3>4, <4>2
    <3>8. BlockEnd(b) <= a.at \/ BlockEnd(a) <= b.at
      BY <1>3, <2>2, <3>7 DEF Trailing, Apart
    <3>9. BlockEnd(b) <= a.at
      <4>1. ~(BlockEnd(a) <= b.at) BY <1>2, <1>4, <2>2, <2>6, <3>1, <3>4, <3>5
      <4>2. QED BY <3>8, <4>1
    <3>10. a.len > 0 BY <1>4, <3>5, <3>6
    <3>11. QED BY <2>4, <3>5, <3>9, <3>10
  <2>7. QED BY <1>2, <2>2, <2>5, <2>6
<1>15. Trailing(p.blocks, 0, p.len) BY <1>10, <1>11, <1>12, <1>13, <1>14 DEF Trailing
<1>16. ASSUME NEW b \in B PROVE Alike(Sliced(b, s), b, s)
  <2>1. PICK m : m = Sliced(b, s) OBVIOUS
  <2>2. /\ b \in Block /\ b.at \in Nat /\ BlockEnd(b) \in Nat
        /\ b.kind \in {"id3v1", "ape", "other"}
    BY <1>5, <1>6
  <2>3. /\ m \in Block /\ m.tagSize = b.tagSize /\ m.hasHeader = b.hasHeader
        /\ BlockEnd(m) = BlockEnd(b) - s
        /\ b.at >= s => m.at = b.at - s /\ m.len = b.len /\ m.kind = b.kind
        /\ b.at < s => m.kind = IF b.kind = "ape" THEN "ape" ELSE "other"
    BY <1>7, <2>1
  <2>4. ApeLength(m) = ApeLength(b) BY <2>3 DEF ApeLength
  <2>5. BlockEnd(b) = BlockEnd(m) + s BY <1>2, <2>2, <2>3
  <2>6. CASE b.at >= s
    <3>1. m.kind = b.kind /\ b.at = m.at + s BY <1>2, <2>2, <2>3, <2>6
    <3>2. Alike(m, b, s) BY <2>2, <2>3, <2>4, <2>5, <3>1 DEF Alike
    <3>3. QED BY <2>1, <3>2
  <2>7. CASE b.at < s
    <3>1. m.kind # "id3v1" /\ (m.kind = "ape" <=> b.kind = "ape") BY <2>3, <2>7
    <3>2. ~(s <= b.at) BY <1>2, <2>2, <2>7
    <3>3. Alike(m, b, s) BY <2>2, <2>3, <2>4, <2>5, <3>1, <3>2 DEF Alike
    <3>4. QED BY <2>1, <3>3
  <2>8. QED BY <1>2, <2>2, <2>6, <2>7
<1>17. SameEnd(p, q, s, eos, lo)
  <2>1. \A c \in p.blocks : \E b \in q.blocks : Alike(c, b, s) BY <1>6, <1>8, <1>16
  <2>2. \A b \in q.blocks :
          /\ s < BlockEnd(b) /\ b.at < q.len
          /\ b.kind = "id3v1" => s <= b.at
          => \E c \in p.blocks : Alike(c, b, s)
    <3>1. \A b \in q.blocks : s < BlockEnd(b) /\ b.at < q.len => b \in B BY <1>1
    <3>2. QED BY <1>9, <1>16, <3>1
  <2>3. q.len = p.len + s BY <1>2, <1>3
  <2>4. \A i \in info.id3v1 : s <= i.start BY <1>2
  <2>5. \A i \in info.apev2 : s <= i.start BY <1>2
  <2>6. QED BY <1>2, <1>3, <2>1, <2>2, <2>3, <2>4, <2>5 DEF SameEnd
<1>18. QED BY <1>2, <1>3, <1>4, <1>15, <1>17, SameSizes DEF Keeps
-----------------------------------------------------------------------------
\* Where the stream ends by its header and its table, whatever else the file holds.

EndBy(h, id3, table) ==
  LET count == FrameCount(h)
      first == id3 + HEADER_LEN + SeekTableLen(h)
      start[i \in 0 .. FrameCount(h)] ==
        IF i = 0 THEN first ELSE start[i - 1] + table[i - 1]
      windows == [j \in 1 .. FrameCount(h) |->
                    [offset |-> start[j - 1], disk |-> table[j - 1],
                     samples |-> FrameSamples(h, j - 1)]]
  IN  IF count = 0 THEN first ELSE windows[count].offset + windows[count].disk

LEMMA EndOfStreamBy ==
  ASSUME NEW f
  PROVE  EndOfStream(f) = EndBy(f.h, f.id3, f.table)
  BY Zenon DEF EndOfStream, EndBy, Windows, Descriptor, DataStart

LEMMA EndOfStreamSame ==
  ASSUME NEW f, NEW g, f.h = g.h, f.id3 = g.id3, f.table = g.table
  PROVE  EndOfStream(f) = EndOfStream(g)
<1>1. EndBy(f.h, f.id3, f.table) = EndBy(g.h, g.id3, g.table) OBVIOUS
<1>2. QED BY <1>1, EndOfStreamBy

\* It is a number for every table, and the end of the last frame for an intact one.
LEMMA EndOfStreamType ==
  ASSUME NEW f, FrameCount(f.h) \in Nat, DataStart(f) \in Nat,
         f.table \in [0 .. FrameCount(f.h) - 1 -> Nat]
  PROVE  EndOfStream(f) \in Nat
<1>1. PICK n \in Nat : FrameCount(f.h) = n /\ f.table \in [0 .. n - 1 -> Nat] OBVIOUS
<1>2. CASE n = 0 BY <1>1, <1>2 DEF EndOfStream
<1>3. CASE n # 0
  <2>1. PICK g \in [0 .. n -> Nat] :
          /\ Sums(g, DataStart(f), f.table, n)
          /\ Windows(f) = [j \in 1 .. n |-> Descriptor(f, j - 1, g[j - 1])]
    <3>1. n \in Nat /\ FrameCount(f.h) = n /\ DataStart(f) \in Nat BY <1>1
    <3>2. f.table \in [0 .. n - 1 -> Nat] BY <1>1
    <3>3. EndToEnd(f, n) BY <3>1, <3>2, WindowsLie
    <3>4. QED BY <3>3 DEF EndToEnd
  <2>2. n \in 1 .. n /\ n - 1 \in 0 .. n /\ n - 1 \in 0 .. n - 1 BY <1>3
  <2>3. Windows(f)[n] = Descriptor(f, n - 1, g[n - 1]) BY <2>1, <2>2
  <2>4. Windows(f)[n].offset = g[n - 1] /\ Windows(f)[n].disk = f.table[n - 1]
    BY <2>3 DEF Descriptor
  <2>5. g[n - 1] \in Nat /\ f.table[n - 1] \in Nat BY <1>1, <2>1, <2>2
  <2>6. EndOfStream(f) = g[n - 1] + f.table[n - 1]
    BY <1>1, <1>3, <2>4 DEF EndOfStream
  <2>7. QED BY <2>5, <2>6
<1>4. QED BY <1>2, <1>3

LEMMA EndOfStreamWritten ==
  ASSUME Encoding, pc = "written", NEW f, f.h = H, f.id3 = 0, f.table = Written.size
  PROVE  EndOfStream(f) = end
<1>1. Accepted /\ BlobInv /\ PlaceInv /\ Len(places) = N BY DEF Encoding, Working
<1>2. /\ N \in Nat /\ Len(blobs) = N
      /\ Written.size = [w \in 0 .. N - 1 |-> blobs[w + 1].bytes]
      /\ Written.h = H /\ Written.id3 = 0
      /\ DataStart(Written) = HEADER_LEN + 4 * N + 4
      /\ \A i \in 1 .. N : blobs[i].bytes \in Nat /\ places[i] \in Nat
  BY WrittenFields
<1>3. DataStart(f) = HEADER_LEN + 4 * N + 4 BY <1>2 DEF DataStart
<1>4. FrameCount(f.h) = N BY DEF N
<1>5. /\ end = IF N = 0 THEN HEADER_LEN + 4 * N + 4 ELSE places[N] + blobs[N].bytes
      /\ \A i \in 1 .. N : /\ i = 1 => places[i] = HEADER_LEN + 4 * N + 4
                           /\ i > 1 => places[i] = places[i - 1] + blobs[i - 1].bytes
  BY <1>1 DEF PlaceInv
<1>6. CASE N = 0 BY <1>3, <1>4, <1>5, <1>6 DEF EndOfStream
<1>7. CASE N # 0
  <2>1. f.table \in [0 .. N - 1 -> Nat]
    <3>1. ASSUME NEW w \in 0 .. N - 1 PROVE blobs[w + 1].bytes \in Nat
      <4>1. w + 1 \in 1 .. N BY <1>2
      <4>2. QED BY <1>2, <4>1
    <3>2. QED BY <1>2, <3>1
  <2>2. DataStart(f) \in Nat BY <1>2, <1>3 DEF HEADER_LEN
  <2>3. PICK g \in [0 .. N -> Nat] :
          /\ Sums(g, DataStart(f), f.table, N)
          /\ Windows(f) = [j \in 1 .. N |-> Descriptor(f, j - 1, g[j - 1])]
    <3>1. EndToEnd(f, N) BY <1>2, <1>4, <2>1, <2>2, WindowsLie
    <3>2. QED BY <3>1 DEF EndToEnd
  <2>4. \A i \in 0 .. N : g[i] = IF i = 0 THEN DataStart(f) ELSE g[i - 1] + f.table[i - 1]
    BY <2>3 DEF Sums
  <2> DEFINE Placed == {k \in Nat : k < N => g[k] = places[k + 1]}
  <2>5. 0 \in Placed
    <3>1. 0 \in 0 .. N /\ 1 \in 1 .. N BY <1>2, <1>7
    <3>2. g[0] = DataStart(f) BY <2>4, <3>1
    <3>3. places[1] = HEADER_LEN + 4 * N + 4 BY <1>5, <3>1
    <3>4. QED BY <1>3, <3>2, <3>3
  <2>6. ASSUME NEW k \in Nat, k \in Placed PROVE k + 1 \in Placed
    <3> SUFFICES ASSUME k + 1 < N PROVE g[k + 1] = places[(k + 1) + 1] OBVIOUS
    <3>1. k + 1 \in 0 .. N /\ (k + 1) - 1 = k /\ k + 1 # 0 /\ k \in 0 .. N - 1 /\ k < N
          /\ (k + 1) + 1 \in 1 .. N /\ (k + 1) + 1 > 1 /\ ((k + 1) + 1) - 1 = k + 1
      BY <1>2
    <3>2. g[k + 1] = g[k] + f.table[k] BY <2>4, <3>1
    <3>3. f.table[k] = blobs[k + 1].bytes BY <1>2, <3>1
    <3>4. g[k] = places[k + 1] BY <2>6, <3>1
    <3>5. places[(k + 1) + 1] = places[k + 1] + blobs[k + 1].bytes BY <1>5, <3>1
    <3>6. QED BY <3>2, <3>3, <3>4, <3>5
  <2> HIDE DEF Placed
  <2>7. \A k \in Nat : k \in Placed BY <2>5, <2>6, SetInduction
  <2>8. N - 1 \in Nat /\ N - 1 < N /\ (N - 1) + 1 = N /\ N \in 1 .. N /\ N - 1 \in 0 .. N - 1
    BY <1>2, <1>7
  <2>9. g[N - 1] = places[N] BY <2>7, <2>8 DEF Placed
  <2>10. f.table[N - 1] = blobs[N].bytes BY <1>2, <2>8
  <2>11. Windows(f)[N] = Descriptor(f, N - 1, g[N - 1]) BY <2>3, <2>8
  <2>12. Windows(f)[N].offset = g[N - 1] /\ Windows(f)[N].disk = f.table[N - 1]
    BY <2>11 DEF Descriptor
  <2>13. EndOfStream(f) = g[N - 1] + f.table[N - 1] BY <1>4, <1>7, <2>12 DEF EndOfStream
  <2>14. QED BY <1>5, <1>7, <2>9, <2>10, <2>13
<1>8. QED BY <1>6, <1>7

\* On a written file that holds its whole stream the scan gets past the parsing.
LEMMA WrittenParses ==
  ASSUME Encoding, pc = "written", NEW f, f.h = H, f.id3 = 0, f.len \in Nat, f.len >= end
  PROVE  ScanError(f) = NoError
<1>1. Accepted /\ PlaceInv /\ Measured BY AcceptedMeasured DEF Encoding, Working
<1>2. N \in Nat /\ end \in Nat /\ end >= HEADER_LEN + 4 * N + 4
  <2>1. N \in Nat /\ Len(places) = N /\ Len(blobs) = N /\ end \in Nat
    BY <1>1 DEF Measured, PlaceInv, Encoding
  <2>2. CASE N = 0
    <3>1. Len(places) = 0 BY <2>1, <2>2
    <3>2. end = HEADER_LEN + 4 * N + 4 BY <1>1, <3>1 DEF PlaceInv
    <3>3. QED BY <2>1, <3>2
  <2>3. CASE N # 0
    <3>1. 1 \in 1 .. N /\ 1 \in 1 .. Len(places) BY <2>1, <2>3
    <3>2. places[1] + blobs[1].bytes <= end /\ places[1] = HEADER_LEN + 4 * N + 4
      BY <1>1, <3>1 DEF PlaceInv
    <3>3. blobs[1].bytes \in Nat BY <3>1, WrittenFields
    <3>4. QED BY <2>1, <3>2, <3>3 DEF HEADER_LEN
  <2>4. QED BY <2>2, <2>3
<1>3. PICK n \in Nat, e \in Nat, l \in Nat : n = N /\ e = end /\ l = f.len BY <1>2
<1>4. l >= 22 + 4 * n + 4 BY <1>2, <1>3 DEF HEADER_LEN
<1>5. SeekTableLen(f.h) = 4 * n + 4 BY <1>3 DEF SeekTableLen, N
<1>6. HeaderError(l, H) = NoError
  <2>1. ~(l < HEADER_LEN) BY <1>4 DEF HEADER_LEN
  <2>2. QED BY <1>1, <2>1, Shape DEF HeaderError, H, HeaderOf
<1>7. f.len - f.id3 = l /\ ~(f.id3 > f.len) BY <1>3
<1>8. ~(l - HEADER_LEN < 4 * n + 4) BY <1>4 DEF HEADER_LEN
<1>9. QED BY <1>5, <1>6, <1>7, <1>8 DEF ScanError

-----------------------------------------------------------------------------
(***************************************************************************)
(* The invariant.  A written file keeps its header, its sizes and a table  *)
(* of sizes, whatever the table says; the blocks behind its stream lie     *)
(* end to end inside it; a scan saw those of them that it was old enough   *)
(* to see; and a slice holds the tags its scan found, in the file it came  *)
(* from, by itself and in the file it is appended to.                      *)
(***************************************************************************)
Behind(n) == {b \in blocks : BlockEnd(b) <= n}
Seen == [len |-> scan.fileLen, blocks |-> Behind(scan.fileLen)]

FileFields == {"h", "id3", "size", "table", "len"}

FileInv ==
  pc = "written" =>
    /\ FileFields \subseteq DOMAIN file
    /\ file.h = H /\ file.id3 = 0 /\ file.size = Written.size /\ file.len \in Nat
    /\ file.table \in [0 .. N - 1 -> Nat]

TailInv ==
  /\ pc # "written" => blocks = {} /\ (kept = Nothing => owed = NothingOwed)
  /\ pc = "written" => Trailing(blocks, end, file.len)
  /\ pc = "written" /\ kept # Nothing => file.len = end /\ blocks = {}

SeenInv ==
  scan.info # NoTags =>
    /\ Scanned(scan.info, Seen, EndOfStream(file), end)
    /\ \A b \in blocks : BlockEnd(b) <= scan.fileLen \/ scan.fileLen <= b.at

KeptInv ==
  /\ kept.len \in Nat /\ Trailing(kept.blocks, 0, kept.len)
  /\ kept # Nothing => Sizes(detect_trailers(kept, 0)) = owed
  /\ pc = "written" /\ kept = Nothing /\ owed # NothingOwed =>
       file.len >= end /\ Sizes(detect_trailers(Buf, end)) = owed

Carried == FileInv /\ TailInv /\ SeenInv /\ KeptInv

LEMMA NothingTrails == ASSUME NEW lo, NEW hi PROVE Trailing({}, lo, hi)
  BY DEF Trailing, Apart, Kinds, Covered

LEMMA NoScanSees == ASSUME scan.info = NoTags PROVE SeenInv
  BY DEF SeenInv

\* What the encoder returns.
Returned ==
  /\ FileFields \subseteq DOMAIN Written
  /\ Written.h = H /\ Written.id3 = 0 /\ Written.len = end /\ end \in Nat
  /\ Written.table \in [0 .. N - 1 -> Nat] /\ N \in Nat

Finished == Encoding /\ pc = "written"

LEMMA WhatIsReturned == Finished => Returned
<1> SUFFICES ASSUME Encoding, pc = "written" PROVE Returned BY DEF Finished
<1>1. /\ Written.h = H /\ Written.id3 = 0 /\ Written.len = end /\ N \in Nat
      /\ Written.table = [w \in 0 .. N - 1 |-> blobs[w + 1].bytes % U32]
      /\ \A i \in 1 .. N : blobs[i].bytes \in Nat
  BY WrittenFields
<1>2. end \in Nat BY DEF Encoding, PlaceInv
<1>3. ASSUME NEW w \in 0 .. N - 1 PROVE blobs[w + 1].bytes % U32 \in Nat
  <2>1. w + 1 \in 1 .. N BY <1>1
  <2>2. blobs[w + 1].bytes \in Nat BY <1>1, <2>1
  <2>3. QED BY <2>2, WidthAssumption, DivMod
<1>4. FileFields \subseteq DOMAIN Written BY DEF Written, FileFields
<1>5. QED BY <1>1, <1>2, <1>3, <1>4 DEF Returned

LEMMA WhatIsReturnedNext == Encoding' /\ pc' = "written" => Returned'
<1>1. Finished' => Returned' BY WhatIsReturned, PTL
<1>2. QED BY <1>1 DEF Finished

LEMMA WrittenStays ==
  ASSUME UNCHANGED <<req, blobs, places, end>>
  PROVE  Written' = Written /\ H' = H /\ N' = N /\ end' = end
<1>1. H' = H /\ N' = N BY RequestStays
<1>2. HeaderOf(TotalSamples)' = HeaderOf(TotalSamples) BY DEF HeaderOf, TotalSamples
<1>3. QED BY <1>1, <1>2 DEF Written

-----------------------------------------------------------------------------
\* The steps of the encoder.
LEMMA CarriedEncode ==
  ASSUME Encoding, Encoding', ScanInv, Carried, Encode
  PROVE  Carried'
<1>1. blocks' = blocks /\ scan' = scan /\ kept' = kept /\ owed' = owed BY DEF Encode
<1>2. pc # "written"
  BY DEF Encode, EncoderNext, Begin, EncodeFrame, WriteHeader, WriteBlob, Return
<1>3. scan = NoScan /\ blocks = {} /\ (kept = Nothing => owed = NothingOwed)
  BY <1>2 DEF ScanInv, Carried, TailInv
<1>4. SeenInv' BY <1>1, <1>3 DEF SeenInv, NoScan
<1>5. KeptInv' BY <1>1, <1>3 DEF Carried, KeptInv
<1>6. CASE Return
  <2>1. /\ pc' = "written" /\ file' = Written /\ UNCHANGED <<req, blobs, places, end>>
    BY <1>6 DEF Return
  <2>2. Written' = Written /\ H' = H /\ N' = N /\ end' = end BY <2>1, WrittenStays
  <2>3. Returned' BY <2>1, WhatIsReturnedNext
  <2>4. FileInv' BY <2>1, <2>2, <2>3 DEF FileInv, Returned
  <2>5. TailInv' BY <1>1, <1>3, <2>1, <2>2, <2>3, NothingTrails DEF TailInv, Returned
  <2>6. QED BY <1>4, <1>5, <2>4, <2>5 DEF Carried
<1>7. CASE ~Return
  <2>1. pc' # "written"
    BY <1>2, <1>7 DEF Encode, EncoderNext, Begin, EncodeFrame, WriteHeader, WriteBlob
  <2>2. FileInv' BY <2>1 DEF FileInv
  <2>3. TailInv' BY <1>1, <1>3, <2>1 DEF TailInv
  <2>4. QED BY <1>4, <1>5, <2>2, <2>3 DEF Carried
<1>8. QED BY <1>6, <1>7

LEMMA Resized ==
  ASSUME NEW f, FileFields \subseteq DOMAIN f, NEW n, NEW g, g = [f EXCEPT !.len = n]
  PROVE  /\ FileFields \subseteq DOMAIN g /\ g.len = n
         /\ g.h = f.h /\ g.id3 = f.id3 /\ g.size = f.size /\ g.table = f.table
  BY DEF FileFields

\* What every reader of a written file needs to know of it stays true.
LEMMA FileStays ==
  ASSUME FileInv, pc = "written", Written' = Written, H' = H, N' = N,
         FileFields \subseteq DOMAIN file', file'.h = file.h, file'.id3 = file.id3,
         file'.size = file.size, file'.len \in Nat, file'.table \in [0 .. N - 1 -> Nat]
  PROVE  FileInv'
  BY DEF FileInv

LEMMA CarriedTag ==
  ASSUME Encoding, ScanInv, Carried, NEW t \in Tags, Tag(t)
  PROVE  Carried'
<1>1. /\ pc = "written" /\ kept = Nothing /\ file.len >= end
      /\ blocks' = blocks \cup {[t EXCEPT !.at = file.len]}
      /\ file' = [file EXCEPT !.len = @ + t.len]
      /\ owed' = NothingOwed /\ scan' = scan /\ kept' = kept
      /\ pc' = pc /\ UNCHANGED <<req, blobs, places, end>>
  BY DEF Tag, encoderBut
<1>2. /\ FileFields \subseteq DOMAIN file
      /\ file.h = H /\ file.id3 = 0 /\ file.size = Written.size /\ file.len \in Nat
      /\ file.table \in [0 .. N - 1 -> Nat]
  BY <1>1 DEF Carried, FileInv
<1>3. Written' = Written /\ H' = H /\ N' = N /\ end' = end BY <1>1, WrittenStays
<1>4. /\ FileFields \subseteq DOMAIN file'
      /\ file'.h = file.h /\ file'.id3 = file.id3 /\ file'.size = file.size
      /\ file'.table = file.table /\ file'.len = file.len + t.len
  <2>1. PICK n : n = file.len + t.len OBVIOUS
  <2>2. file' = [file EXCEPT !.len = n] BY <1>1, <2>1
  <2>3. QED BY <1>2, <2>1, <2>2, Resized
<1>5. /\ t \in Block /\ t.len \in Nat /\ t.len > 0
      /\ t.kind = "id3v1" => t.len = ID3V1_SIZE
      /\ t.kind = "ape" => t.len >= FOOTER_SIZE
  BY ArchiveAssumption DEF Block
<1>6. FileInv' BY <1>1, <1>2, <1>3, <1>4, <1>5 DEF FileInv
<1>7. PICK m : m = [t EXCEPT !.at = file.len] OBVIOUS
<1>8. /\ m \in Block /\ m.at = file.len /\ m.len = t.len /\ m.kind = t.kind
      /\ BlockEnd(m) = file.len + t.len
  BY <1>2, <1>5, <1>7, MovedBlock
<1>9. end \in Nat BY <1>1 DEF Encoding, PlaceInv
<1>10. TailInv'
  <2>1. Trailing(blocks, end, file.len) BY <1>1 DEF Carried, TailInv
  <2>2. Trailing(blocks \cup {m}, end, file.len + m.len)
    BY <1>1, <1>2, <1>5, <1>8, <1>9, <2>1, TrailingGrows
  <2>3. Trailing(blocks', end', file'.len) BY <1>1, <1>3, <1>4, <1>7, <1>8, <2>2
  <2>4. QED BY <1>1, <2>3 DEF TailInv
<1>11. SeenInv'
  <2> SUFFICES ASSUME scan.info # NoTags PROVE SeenInv' BY <1>1 DEF SeenInv
  <2>1. /\ Scanned(scan.info, Seen, EndOfStream(file), end)
        /\ \A b \in blocks : BlockEnd(b) <= scan.fileLen \/ scan.fileLen <= b.at
    BY DEF Carried, SeenInv
  <2>2. scan.fileLen \in Nat /\ scan.fileLen <= file.len BY <1>1 DEF ScanInv
  <2>3. scan.fileLen <= m.at /\ ~(BlockEnd(m) <= scan.fileLen) BY <1>2, <1>5, <1>8, <2>2
  <2>4. Behind(scan.fileLen)' = Behind(scan.fileLen) BY <1>1, <1>7, <2>3 DEF Behind
  <2>5. Seen' = Seen BY <1>1, <2>4 DEF Seen
  <2>6. EndOfStream(file') = EndOfStream(file) BY <1>4, EndOfStreamSame
  <2>7. QED BY <1>1, <1>3, <1>7, <2>1, <2>3, <2>5, <2>6 DEF SeenInv
<1>12. KeptInv' BY <1>1 DEF Carried, KeptInv
<1>13. QED BY <1>6, <1>10, <1>11, <1>12 DEF Carried

\* A file of whose seek table entry w reads s.
Damaging(f, w, s) == [f EXCEPT !.table[w] = s, !.tableCrc = FALSE]

HasTable(f, n) == FileFields \subseteq DOMAIN f /\ f.table \in [n -> Nat]

AllButTheTable(f, g) == g.h = f.h /\ g.id3 = f.id3 /\ g.size = f.size /\ g.len = f.len

LEMMA DamagedFile ==
  ASSUME NEW f, NEW n, HasTable(f, n), NEW w \in n, NEW s \in Nat,
         NEW g, g = Damaging(f, w, s)
  PROVE  HasTable(g, n) /\ AllButTheTable(f, g)
<1> USE DEF HasTable, AllButTheTable
<1>1. PICK t : t = [f.table EXCEPT ![w] = s] OBVIOUS
<1>2. t \in [n -> Nat] BY <1>1
<1>3. PICK e : e = [f EXCEPT !.table = t] OBVIOUS
<1>4. /\ FileFields \subseteq DOMAIN e /\ e.table = t
      /\ e.h = f.h /\ e.id3 = f.id3 /\ e.size = f.size /\ e.len = f.len
  BY <1>3 DEF FileFields
<1>5. g = [e EXCEPT !.tableCrc = FALSE] BY <1>1, <1>3 DEF Damaging
<1>6. /\ FileFields \subseteq DOMAIN g /\ g.table = t
      /\ g.h = e.h /\ g.id3 = e.id3 /\ g.size = e.size /\ g.len = e.len
  BY <1>4, <1>5 DEF FileFields
<1>7. QED BY <1>2, <1>4, <1>6

LEMMA CarriedDamage ==
  ASSUME Encoding, Carried, NEW s \in StrayEntries, NEW w, Damage(w, s)
  PROVE  Carried'
<1>1. /\ pc = "written" /\ kept = Nothing /\ w \in FrameIds(file)
      /\ file' = Damaging(file, w, s)
      /\ scan' = NoScan /\ owed' = NothingOwed
      /\ pc' = pc /\ blocks' = blocks /\ kept' = kept /\ UNCHANGED <<req, blobs, places, end>>
  BY DEF Damage, encoderBut, Damaging
<1>2. /\ FileFields \subseteq DOMAIN file /\ FileInv /\ file.h = H
      /\ file.len \in Nat /\ file.table \in [0 .. N - 1 -> Nat]
  BY <1>1 DEF Carried, FileInv
<1>3. Written' = Written /\ H' = H /\ N' = N /\ end' = end BY <1>1, WrittenStays
<1>4. w \in 0 .. N - 1 BY <1>1, <1>2 DEF FrameIds, N
<1>5. s \in Nat BY ArchiveAssumption
<1>6. /\ FileFields \subseteq DOMAIN file' /\ file'.h = file.h /\ file'.id3 = file.id3
      /\ file'.size = file.size /\ file'.len = file.len
      /\ file'.table \in [0 .. N - 1 -> Nat]
  <2>1. PICK f : f = file OBVIOUS
  <2>2. PICK n : n = 0 .. N - 1 OBVIOUS
  <2>3. PICK g : g = file' OBVIOUS
  <2>4. HasTable(f, n) BY <1>2, <2>1, <2>2 DEF HasTable
  <2>5. w \in n BY <1>4, <2>2
  <2>6. g = Damaging(f, w, s) BY <1>1, <2>1, <2>3
  <2>7. HasTable(g, n) /\ AllButTheTable(f, g) BY <1>5, <2>4, <2>5, <2>6, DamagedFile
  <2>8. QED BY <2>1, <2>2, <2>3, <2>7 DEF HasTable, AllButTheTable
<1>7. FileInv' BY <1>1, <1>2, <1>3, <1>6, FileStays
<1>8. TailInv' BY <1>1, <1>3, <1>6 DEF Carried, TailInv
<1>9. SeenInv' BY <1>1 DEF SeenInv, NoScan
<1>10. KeptInv' BY <1>1 DEF Carried, KeptInv
<1>11. QED BY <1>7, <1>8, <1>9, <1>10 DEF Carried

LEMMA CarriedLoseByte == ASSUME Encoding, Carried, LoseByte PROVE Carried'
<1> DEFINE last == {b \in blocks : b.at + b.len = file.len}
<1>1. /\ pc = "written" /\ kept = Nothing /\ file.len >= end
      /\ \A b \in last : b.kind # "other"
      /\ file' = [file EXCEPT !.len = @ - 1]
      /\ scan' = NoScan /\ owed' = NothingOwed
      /\ pc' = pc /\ kept' = kept /\ UNCHANGED <<req, blobs, places, end>>
  BY DEF LoseByte, encoderBut
<1>2. blocks' = (blocks \ last) \cup {Cut(b) : b \in last} BY DEF LoseByte, Cut
<1>3. /\ FileFields \subseteq DOMAIN file /\ FileInv
      /\ file.len \in Nat /\ file.table \in [0 .. N - 1 -> Nat]
      /\ Trailing(blocks, end, file.len)
  BY <1>1 DEF Carried, FileInv, TailInv
<1>4. Written' = Written /\ H' = H /\ N' = N /\ end' = end BY <1>1, WrittenStays
<1>5. end \in Nat /\ end > 0 BY <1>1 DEF Encoding, PlaceInv, HEADER_LEN
<1>6. PICK n : n = file.len - 1 OBVIOUS
<1>7. n \in Nat BY <1>1, <1>3, <1>5, <1>6
<1>8. /\ FileFields \subseteq DOMAIN file' /\ file'.h = file.h /\ file'.id3 = file.id3
      /\ file'.size = file.size /\ file'.table = file.table /\ file'.len = n
  <2>1. file' = [file EXCEPT !.len = n] BY <1>1, <1>6
  <2>2. QED BY <1>3, <2>1, Resized
<1>9. FileInv' BY <1>1, <1>3, <1>4, <1>7, <1>8, FileStays
<1>10. TailInv'
  <2>1. last = {b \in blocks : BlockEnd(b) = file.len} BY DEF BlockEnd
  <2>2. PICK L : L = last OBVIOUS
  <2>3. Trailing((blocks \ L) \cup {Cut(b) : b \in L}, end, file.len - 1)
    BY <1>1, <1>3, <1>5, <2>1, <2>2, TrailingCut
  <2>4. Trailing(blocks', end', file'.len) BY <1>2, <1>4, <1>6, <1>8, <2>2, <2>3
  <2>5. QED BY <1>1, <2>4 DEF TailInv
<1>11. SeenInv' BY <1>1 DEF SeenInv, NoScan
<1>12. KeptInv' BY <1>1 DEF Carried, KeptInv
<1>13. QED BY <1>9, <1>10, <1>11, <1>12 DEF Carried

\* What a scan sees on a file, and what it says.
LEMMA EndType ==
  ASSUME Encoding, FileInv, pc = "written"
  PROVE  EndOfStream(file) \in Nat
<1>1. N \in Nat BY WhatIsReturned DEF Finished, Returned
<1>2. file.h = H /\ file.id3 = 0 /\ file.table \in [0 .. N - 1 -> Nat] BY DEF FileInv
<1>3. FrameCount(file.h) = N BY <1>2 DEF N
<1>4. DataStart(file) \in Nat
  <2>1. DataStart(file) = 0 + 22 + (4 * N + 4)
    BY <1>2, <1>3 DEF DataStart, SeekTableLen, HEADER_LEN
  <2>2. QED BY <1>1, <2>1
<1>5. QED BY <1>1, <1>2, <1>3, <1>4, EndOfStreamType

LEMMA ScannedFile ==
  ASSUME Encoding, FileInv, TailInv, pc = "written"
  PROVE  Scanned(detect_trailers(Buf, EndOfStream(file)), Buf, EndOfStream(file), end)
<1>1. Buf.len = file.len /\ Buf.blocks = blocks BY DEF Buf
<1>2. file.len \in Nat /\ Trailing(blocks, end, file.len) BY DEF FileInv, TailInv
<1>3. EndOfStream(file) \in Nat BY EndType
<1>4. QED BY <1>1, <1>2, <1>3 DEF Scanned

LEMMA CarriedScan == ASSUME Encoding, Carried, Scan PROVE Carried'
<1>1. /\ pc = "written" /\ pc' = pc /\ blocks' = blocks /\ kept' = kept /\ owed' = owed
      /\ file' = file /\ UNCHANGED <<req, blobs, places, end>>
  BY DEF Scan, encoderVars
<1>2. Written' = Written /\ H' = H /\ N' = N /\ end' = end BY <1>1, WrittenStays
<1>3. FileInv' BY <1>1, <1>2 DEF Carried, FileInv
<1>4. TailInv' BY <1>1, <1>2 DEF Carried, TailInv
<1>5. KeptInv' BY <1>1, <1>2 DEF Carried, KeptInv, Buf
<1>6. PICK info : /\ scan' = [error |-> ScanError(file), fileLen |-> file.len, info |-> info]
                  /\ info = NoTags \/ info = detect_trailers(Buf, EndOfStream(file))
  BY DEF Scan
<1>7. scan'.fileLen = file.len /\ scan'.info = info BY <1>6
<1>8. SeenInv'
  <2> SUFFICES ASSUME info # NoTags PROVE SeenInv' BY <1>7 DEF SeenInv
  <2>1. info = detect_trailers(Buf, EndOfStream(file)) BY <1>6
  <2>2. Scanned(info, Buf, EndOfStream(file), end)
    BY <1>1, <2>1, ScannedFile DEF Carried
  <2>3. \A b \in blocks : BlockEnd(b) <= file.len
    BY <1>1 DEF Carried, TailInv, Trailing
  <2>4. Seen' = Buf
    <3>1. Behind(file.len) = blocks BY <2>3 DEF Behind
    <3>2. Behind(scan.fileLen)' = Behind(file.len) BY <1>1, <1>7 DEF Behind
    <3>3. QED BY <1>7, <3>1, <3>2 DEF Seen, Buf
  <2>5. EndOfStream(file)' = EndOfStream(file) BY <1>1
  <2>6. Scanned(scan'.info, Seen', EndOfStream(file)', end') BY <1>2, <1>7, <2>2, <2>4, <2>5
  <2>7. \A b \in blocks' : BlockEnd(b) <= scan'.fileLen BY <1>1, <1>7, <2>3
  <2>8. QED BY <2>6, <2>7 DEF SeenInv
<1>9. QED BY <1>3, <1>4, <1>5, <1>8 DEF Carried

\* The slice, cut from what the scan saw.
LEMMA CarriedSlice ==
  ASSUME Encoding, ScanInv, Carried, NEW r \in CombinedByteRange(scan.info), Slice(r)
  PROVE  Carried'
<1>1. /\ pc = "written" /\ kept = Nothing /\ owed' = Sizes(scan.info)
      /\ pc' = "idle" /\ blocks' = {} /\ scan' = NoScan
  BY DEF Slice
<1>2. scan.info # NoTags
  <2>1. CombinedByteRange(NoTags) = {} BY DEF CombinedByteRange, NoTags
  <2>2. QED BY <2>1
<1>3. /\ Scanned(scan.info, Seen, EndOfStream(file), end)
      /\ \A b \in blocks : BlockEnd(b) <= scan.fileLen \/ scan.fileLen <= b.at
  BY <1>2 DEF Carried, SeenInv
<1>4. Seen.len = scan.fileLen /\ Seen.blocks = Behind(scan.fileLen) BY DEF Seen
<1>5. r.start \in Nat /\ r.len \in Nat /\ r.start + r.len = scan.fileLen /\ EndOf(r) = scan.fileLen
  BY <1>3, <1>4, CombinedSpan, SMT DEF EndOf
<1>6. PICK B : B = {x \in Seen.blocks : r.start < BlockEnd(x) /\ x.at < Seen.len} OBVIOUS
<1>7. \A b \in blocks : /\ b.at \in Nat /\ b.len \in Nat /\ BlockEnd(b) = b.at + b.len
                        /\ b.at <= BlockEnd(b)
  BY <1>1, TrailingParts DEF Carried, TailInv
<1>8. B = {c \in blocks : r.start < c.at + c.len /\ c.at < EndOf(r)}
  <2>1. ASSUME NEW c \in blocks, r.start < c.at + c.len, c.at < EndOf(r)
        PROVE  c \in B
    <3>1. c.at < scan.fileLen BY <1>5, <2>1
    <3>2. BlockEnd(c) <= scan.fileLen
      <4>1. ~(scan.fileLen <= c.at) BY <1>5, <1>7, <2>1
      <4>2. QED BY <1>3, <2>1, <4>1
    <3>3. c \in Seen.blocks BY <1>4, <2>1, <3>2 DEF Behind
    <3>4. QED BY <1>4, <1>6, <1>7, <2>1, <3>1, <3>3
  <2>2. ASSUME NEW c \in B
        PROVE  c \in blocks /\ r.start < c.at + c.len /\ c.at < EndOf(r)
    <3>1. c \in Seen.blocks /\ r.start < BlockEnd(c) /\ c.at < Seen.len BY <1>6, <2>2
    <3>2. c \in blocks BY <1>4, <3>1 DEF Behind
    <3>3. QED BY <1>4, <1>5, <3>1, <3>2 DEF BlockEnd
  <2>3. QED BY <2>1, <2>2
<1>9. kept' = [len |-> r.len, blocks |-> {Sliced(b, r.start) : b \in B}] BY <1>8 DEF Slice
<1>10. PICK p : p = kept' OBVIOUS
<1>11. p.len = r.len /\ p.blocks = {Sliced(b, r.start) : b \in B} BY <1>9, <1>10
<1>12. PICK q, eos, info : q = Seen /\ eos = EndOfStream(file) /\ info = scan.info OBVIOUS
<1>13. /\ p.len \in Nat /\ p.len > 0 /\ Trailing(p.blocks, 0, p.len)
       /\ Sizes(detect_trailers(p, 0)) = Sizes(info)
  <2>1. Scanned(info, q, eos, end) /\ r \in CombinedByteRange(info) BY <1>3, <1>12
  <2>2. IsSlice(p, q, r) BY <1>6, <1>11, <1>12 DEF IsSlice
  <2>3. Keeps(p, info) BY <2>1, <2>2, KeptSlice
  <2>4. QED BY <2>3 DEF Keeps
<1>14. kept' # Nothing
  <2>1. Nothing.len = 0 BY DEF Nothing
  <2>2. QED BY <1>10, <1>13, <2>1
<1>15. FileInv' BY <1>1 DEF FileInv
<1>16. TailInv' BY <1>1, <1>14 DEF TailInv
<1>17. SeenInv' BY <1>1 DEF SeenInv, NoScan
<1>18. KeptInv' BY <1>1, <1>10, <1>12, <1>13 DEF KeptInv
<1>19. QED BY <1>15, <1>16, <1>17, <1>18 DEF Carried

\* The slice, appended to the file encoded anew.
LEMMA CarriedRestore == ASSUME Encoding, Carried, Restore PROVE Carried'
<1>1. /\ pc = "written" /\ kept # Nothing
      /\ file' = [file EXCEPT !.len = @ + kept.len]
      /\ kept' = Nothing /\ scan' = NoScan /\ owed' = owed
      /\ pc' = pc /\ UNCHANGED <<req, blobs, places, end>>
  BY DEF Restore, encoderBut
<1>2. blocks' = {Moved(b, file.len) : b \in kept.blocks} BY DEF Restore, Moved
<1>3. /\ FileFields \subseteq DOMAIN file /\ FileInv
      /\ file.len \in Nat /\ file.table \in [0 .. N - 1 -> Nat]
      /\ file.len = end
      /\ kept.len \in Nat /\ Trailing(kept.blocks, 0, kept.len)
      /\ Sizes(detect_trailers(kept, 0)) = owed
  BY <1>1 DEF Carried, FileInv, TailInv, KeptInv
<1>4. Written' = Written /\ H' = H /\ N' = N /\ end' = end BY <1>1, WrittenStays
<1>5. PICK n : n = file.len + kept.len OBVIOUS
<1>6. n \in Nat BY <1>3, <1>5
<1>7. /\ FileFields \subseteq DOMAIN file' /\ file'.h = file.h /\ file'.id3 = file.id3
      /\ file'.size = file.size /\ file'.table = file.table /\ file'.len = n
  <2>1. file' = [file EXCEPT !.len = n] BY <1>1, <1>5
  <2>2. QED BY <1>3, <2>1, Resized
<1>8. FileInv' BY <1>1, <1>3, <1>4, <1>6, <1>7, FileStays
<1>9. PICK p, q, m : p = kept /\ q = Buf' /\ m = file.len OBVIOUS
<1>10. q.len = m + p.len /\ q.blocks = {Moved(b, m) : b \in p.blocks}
  <2>1. q.len = file'.len /\ q.blocks = blocks' BY <1>9 DEF Buf
  <2>2. QED BY <1>2, <1>5, <1>7, <1>9, <2>1
<1>11. Trailing(q.blocks, m, q.len) /\ Sizes(detect_trailers(p, 0)) = Sizes(detect_trailers(q, m))
  <2>1. m \in Nat /\ p.len \in Nat /\ Trailing(p.blocks, 0, p.len) BY <1>3, <1>9
  <2>2. QED BY <1>10, <2>1, AppendedSlice
<1>12. TailInv'
  <2>1. q.blocks = blocks' /\ q.len = file'.len BY <1>9 DEF Buf
  <2>2. Trailing(blocks', end', file'.len) BY <1>3, <1>4, <1>9, <1>11, <2>1
  <2>3. QED BY <1>1, <2>2 DEF TailInv
<1>13. SeenInv' BY <1>1 DEF SeenInv, NoScan
<1>14. KeptInv'
  <2>1. kept'.len \in Nat /\ kept'.blocks = {} BY <1>1 DEF Nothing
  <2>2. Trailing(kept'.blocks, 0, kept'.len) BY <2>1, NothingTrails
  <2>3. Sizes(detect_trailers(Buf', end')) = owed' BY <1>1, <1>3, <1>4, <1>9, <1>11
  <2>4. file'.len >= end' BY <1>3, <1>4, <1>5, <1>7
  <2>5. QED BY <1>1, <2>1, <2>2, <2>3, <2>4 DEF KeptInv
<1>15. QED BY <1>8, <1>12, <1>13, <1>14 DEF Carried

LEMMA CarriedStays == ASSUME Carried, UNCHANGED vars PROVE Carried'
<1>1. /\ pc' = pc /\ file' = file /\ blocks' = blocks /\ scan' = scan /\ kept' = kept
      /\ owed' = owed /\ UNCHANGED <<req, blobs, places, end>>
  BY DEF vars, encoderVars
<1>2. Written' = Written /\ H' = H /\ N' = N /\ end' = end BY <1>1, WrittenStays
<1>3. Seen' = Seen /\ Buf' = Buf BY <1>1 DEF Seen, Behind, Buf
<1>4. FileInv' BY <1>1, <1>2 DEF Carried, FileInv
<1>5. TailInv' BY <1>1, <1>2 DEF Carried, TailInv
<1>6. SeenInv' BY <1>1, <1>2, <1>3 DEF Carried, SeenInv
<1>7. KeptInv' BY <1>1, <1>2, <1>3 DEF Carried, KeptInv
<1>8. QED BY <1>4, <1>5, <1>6, <1>7 DEF Carried

LEMMA CarriedStep ==
  ASSUME Encoding, Encoding', ScanInv, Carried, [Next]_vars
  PROVE  Carried'
<1>1. CASE Encode BY <1>1, CarriedEncode
<1>2. ASSUME NEW t \in Tags, Tag(t) PROVE Carried' BY <1>2, CarriedTag
<1>3. ASSUME NEW s \in StrayEntries, NEW w, Damage(w, s) PROVE Carried' BY <1>3, CarriedDamage
<1>4. CASE LoseByte BY <1>4, CarriedLoseByte
<1>5. CASE Scan BY <1>5, CarriedScan
<1>6. ASSUME NEW r \in CombinedByteRange(scan.info), Slice(r) PROVE Carried'
  BY <1>6, CarriedSlice
<1>7. CASE Restore BY <1>7, CarriedRestore
<1>8. CASE UNCHANGED vars BY <1>8, CarriedStays
<1>9. QED BY <1>1, <1>2, <1>3, <1>4, <1>5, <1>6, <1>7, <1>8 DEF Next

LEMMA CarriedInit == ASSUME Init PROVE Carried
<1>1. pc = "idle" /\ blocks = {} /\ scan = NoScan /\ kept = Nothing /\ owed = NothingOwed
  BY DEF Init, EncoderInit
<1>2. FileInv BY <1>1 DEF FileInv
<1>3. TailInv BY <1>1 DEF TailInv
<1>4. SeenInv BY <1>1 DEF SeenInv, NoScan
<1>5. KeptInv
  <2>1. kept.len \in Nat /\ kept.blocks = {} BY <1>1 DEF Nothing
  <2>2. QED BY <1>1, <2>1, NothingTrails DEF KeptInv
<1>6. QED BY <1>2, <1>3, <1>4, <1>5 DEF Carried

LEMMA CarriedHolds == Spec => []Carried
<1>1. Init => Carried BY CarriedInit
<1>2. Encoding /\ Encoding' /\ ScanInv /\ Carried /\ [Next]_vars => Carried' BY CarriedStep
<1>3. QED BY <1>1, <1>2, EncodingHolds, ScanHolds, PTL DEF Spec

-----------------------------------------------------------------------------
\* The encoder's variables have their types also between two calls.
BufferInv ==
  /\ req \in Requests \cup {NoRequest}
  /\ blobs \in Seq(Blobs) /\ places \in Seq(Nat) /\ end \in Nat

LEMMA BufferStep ==
  ASSUME Encoding, Encoding', BufferInv, [Next]_vars
  PROVE  BufferInv'
<1>1. CASE UNCHANGED <<req, blobs, places, end>> BY <1>1 DEF BufferInv
<1>2. CASE Encode
  <2>1. ASSUME NEW r \in Requests, Begin(r) PROVE BufferInv'
    <3>1. CASE EncodeError(r) = NoError
      <4>1. req' = r /\ blobs' = <<>> /\ places' = <<>> /\ end' = 0 BY <2>1 DEF Begin
      <4>2. QED BY <4>1 DEF BufferInv
    <3>2. CASE EncodeError(r) # NoError
      <4>1. req' = r /\ blobs' = <<>> /\ places' = <<>> /\ end' = 0 BY <2>1 DEF Begin
      <4>2. QED BY <4>1 DEF BufferInv
    <3>3. QED BY <3>1, <3>2
  <2>2. ASSUME NEW slack \in Slack, EncodeFrame(slack) PROVE BufferInv'
    <3>1. pc' = "frames" /\ req' = req /\ places' = places /\ end' = end
      BY <2>2 DEF EncodeFrame
    <3>2. blobs' \in Seq(Blobs) BY <3>1 DEF Encoding, Working, BlobInv
    <3>3. QED BY <3>1, <3>2 DEF BufferInv
  <2>3. CASE WriteHeader
    <3>1. pc' = "data" /\ req' = req /\ blobs' = blobs BY <2>3 DEF WriteHeader
    <3>2. places' \in Seq(Nat) /\ end' \in Nat BY <3>1 DEF Encoding, PlaceInv
    <3>3. QED BY <3>1, <3>2 DEF BufferInv
  <2>4. CASE WriteBlob
    <3>1. pc' = "data" /\ req' = req /\ blobs' = blobs BY <2>4 DEF WriteBlob
    <3>2. places' \in Seq(Nat) /\ end' \in Nat BY <3>1 DEF Encoding, PlaceInv
    <3>3. QED BY <3>1, <3>2 DEF BufferInv
  <2>5. CASE Return BY <1>1, <2>5 DEF Return
  <2>6. QED BY <1>2, <2>1, <2>2, <2>3, <2>4, <2>5 DEF Encode, EncoderNext
<1>3. CASE \E t \in Tags : Tag(t) BY <1>1, <1>3 DEF Tag, encoderBut
<1>4. CASE \E s \in StrayEntries, w \in 0 .. Len(blobs) - 1 : Damage(w, s)
  BY <1>1, <1>4 DEF Damage, encoderBut
<1>5. CASE LoseByte BY <1>1, <1>5 DEF LoseByte, encoderBut
<1>6. CASE Scan BY <1>1, <1>6 DEF Scan, encoderVars
<1>7. CASE \E r \in CombinedByteRange(scan.info) : Slice(r) BY <1>1, <1>7 DEF Slice
<1>8. CASE Restore BY <1>1, <1>8 DEF Restore, encoderBut
<1>9. CASE UNCHANGED vars BY <1>1, <1>9 DEF vars, encoderVars
<1>10. QED BY <1>2, <1>3, <1>4, <1>5, <1>6, <1>7, <1>8, <1>9 DEF Next

LEMMA BufferHolds == Spec => []BufferInv
<1>1. Init => BufferInv BY DEF Init, EncoderInit, BufferInv
<1>2. Encoding /\ Encoding' /\ BufferInv /\ [Next]_vars => BufferInv' BY BufferStep
<1>3. QED BY <1>1, <1>2, EncodingHolds, PTL DEF Spec

\* No slice of the input ends behind it.
LEMMA CursorInside ==
  ASSUME Encoding, Working
  PROVE  EncodeError(req) = NoError /\ cursor \in 0 .. req.values
<1>1. Accepted /\ BlobInv /\ Measured BY AcceptedMeasured DEF Encoding
<1>2. PICK v, ch, t, k, n, p :
        /\ v = req.values /\ ch = req.channels /\ t = TotalSamples
        /\ k = Len(blobs) /\ n = N /\ p = R
  OBVIOUS
<1>3. /\ v \in Nat /\ ch \in Nat /\ ch > 0 /\ t \in Nat /\ k \in Nat /\ n \in Nat /\ p \in Nat
  BY <1>1, <1>2, Shape DEF Measured, BlobInv
<1>4. t * ch <= v
  <2>1. PICK q : q = v \div ch OBVIOUS
  <2>2. q \in Nat /\ v = ch * q + (v % ch) /\ v % ch \in Nat BY <1>3, <2>1, DivMod
  <2>3. t = q % U32 BY <1>2, <2>1 DEF TotalSamples
  <2>4. U32 \in Nat /\ U32 > 0 BY WidthAssumption
  <2>5. t <= q BY <2>2, <2>3, <2>4, SMT
  <2>6. PICK d \in Nat : q = t + d
    <3>1. q - t \in Nat /\ q = t + (q - t) BY <1>3, <2>2, <2>5
    <3>2. QED BY <3>1
  <2>7. ch * (t + d) = t * ch + d * ch /\ d * ch \in Nat /\ t * ch \in Nat BY <1>3, SMT
  <2>8. QED BY <1>3, <2>2, <2>6, <2>7
<1>5. k < n => k * p <= t
  <2> SUFFICES ASSUME k < n PROVE k * p <= t OBVIOUS
  <2>1. H \in HeaderRecords /\ H.total = t /\ FrameCount(H) = n /\ RegularFrameSamples(H) = p
    BY <1>1, <1>2, Shape DEF N, R
  <2>2. k * p + FrameSamples(H, k) <= t BY <1>3, <2>1, GeometryTiles
  <2>3. FrameSamples(H, k) \in Nat
    <3>1. k \in 0 .. N - 1 BY <1>2, <1>3
    <3>2. QED BY <1>1, <3>1, SameGeometry
  <2>4. k * p \in Nat BY <1>3, ProductInNat
  <2>5. QED BY <1>3, <2>2, <2>3, <2>4
<1>6. cursor = (IF k < n THEN k * p ELSE t) * ch BY <1>1, <1>2 DEF BlobInv
<1>7. cursor \in Nat /\ cursor <= t * ch
  <2>1. PICK c : c = IF k < n THEN k * p ELSE t OBVIOUS
  <2>2. c \in Nat /\ c <= t BY <1>3, <1>5, <2>1, ProductInNat
  <2>3. c * ch \in Nat /\ c * ch <= t * ch /\ t * ch \in Nat BY <1>3, <2>2, SMT
  <2>4. QED BY <1>6, <2>1, <2>3
<1>8. cursor \in 0 .. v
  <2>1. t * ch \in Nat BY <1>3, ProductInNat
  <2>2. QED BY <1>3, <1>4, <1>7, <2>1
<1>9. QED BY <1>1, <1>2, <1>8 DEF Accepted

\* What a scan reports is made of ranges.
LEMMA ScannedRanges ==
  ASSUME NEW info, NEW buf, NEW eos, NEW lo, Scanned(info, buf, eos, lo)
  PROVE  info.id3v1 \subseteq Ranges /\ info.apev2 \subseteq Ranges
<1>1. ASSUME NEW r \in info.id3v1 PROVE r \in Ranges
  <2>1. PICK d \in buf.blocks : r = Extent(d) BY DetectedTags
  <2>2. d \in Block BY DEF Scanned, Trailing
  <2>3. QED BY <2>1, <2>2 DEF Extent, Block, Ranges
<1>2. ASSUME NEW r \in info.apev2 PROVE r \in Ranges
  <2>1. r.len \in Nat /\ r.start \in Nat BY <1>2, DetectedTags, SMT
  <2>2. PICK a, n : r = [start |-> a, len |-> n]
    <3>1. buf.len \in Nat /\ eos \in Nat /\ info = detect_trailers(buf, eos) BY DEF Scanned
    <3>2. \E b \in buf.blocks :
            r = [start |-> SearchEnd(info, buf.len) - ApeLength(b), len |-> ApeLength(b)]
      BY <1>2, <3>1, DetectedParts
    <3>3. QED BY <3>2
  <2>3. QED BY <2>1, <2>2 DEF Ranges
<1>3. QED BY <1>1, <1>2

(***************************************************************************)
(* ArchiveTypeCorrect: the encoder never slices past the input             *)
(* (encoder.rs:148), the metadata lie behind the stream and inside the     *)
(* file, and a scan reports ranges (lib.rs:181-203, trailers.rs:400-443).  *)
(***************************************************************************)
THEOREM ArchiveTypeCorrect == Spec => []TypeOK
<1>1. ASSUME Encoding, BufferInv, Carried PROVE TypeOK
  <2>1. EncoderTypeOK
    <3>1. pc \notin {"idle", "refused"} => Working BY <1>1 DEF Encoding, Working
    <3>2. pc \notin {"idle", "refused"} => EncodeError(req) = NoError /\ cursor \in 0 .. req.values
      BY <1>1, <3>1, CursorInside
    <3>3. pc \in {"idle", "refused", "frames", "data", "written"} BY <1>1 DEF Encoding
    <3>4. QED BY <1>1, <3>2, <3>3 DEF EncoderTypeOK, BufferInv
  <2>2. blocks \subseteq Block BY <1>1 DEF Carried, TailInv, Trailing
  <2>3. kept.blocks \subseteq Block BY <1>1 DEF Carried, KeptInv, Trailing
  <2>4. ASSUME NEW b \in blocks
        PROVE  pc = "written" /\ end <= b.at /\ EndOf(Extent(b)) <= file.len
    <3>1. pc = "written" BY <1>1, <2>4 DEF Carried, TailInv
    <3>2. end <= b.at /\ BlockEnd(b) <= file.len BY <1>1, <2>4, <3>1 DEF Carried, TailInv, Trailing
    <3>3. EndOf(Extent(b)) = BlockEnd(b) BY <2>2, <2>4, BlockParts
    <3>4. QED BY <3>1, <3>2, <3>3
  <2>5. scan.info.id3v1 \subseteq Ranges /\ scan.info.apev2 \subseteq Ranges
    <3>1. CASE scan.info = NoTags
      <4>1. scan.info.id3v1 = {} /\ scan.info.apev2 = {} BY <3>1 DEF NoTags
      <4>2. QED BY <4>1
    <3>2. CASE scan.info # NoTags
      <4>1. Scanned(scan.info, Seen, EndOfStream(file), end) BY <1>1, <3>2 DEF Carried, SeenInv
      <4>2. QED BY <4>1, ScannedRanges
    <3>3. QED BY <3>1, <3>2
  <2>6. QED BY <2>1, <2>2, <2>3, <2>4, <2>5 DEF TypeOK
<1>2. QED BY <1>1, EncodingHolds, BufferHolds, CarriedHolds, PTL

-----------------------------------------------------------------------------
\* What a scan of the file as it is now finds.
LEMMA FoundNow ==
  ASSUME Encoding, Carried, pc = "written"
  PROVE  Found = NoTags \/ Scanned(Found, Buf, EndOfStream(file), end)
<1>1. CASE ScanError(file) # NoError BY <1>1 DEF Found
<1>2. CASE ScanError(file) = NoError
  <2>1. Found = detect_trailers(Buf, EndOfStream(file)) BY <1>2 DEF Found
  <2>2. Scanned(detect_trailers(Buf, EndOfStream(file)), Buf, EndOfStream(file), end)
    BY ScannedFile DEF Carried
  <2>3. QED BY <2>1, <2>2
<1>3. QED BY <1>1, <1>2

\* On a file that holds its whole stream, under a table that tells its sizes.
LEMMA FoundIntact ==
  ASSUME Encoding, Carried, pc = "written", TableIntact(file), file.len >= end
  PROVE  Found = detect_trailers(Buf, end) /\ Scanned(Found, Buf, end, end)
<1>1. file.h = H /\ file.id3 = 0 /\ file.len \in Nat /\ file.size = Written.size
  BY DEF Carried, FileInv
<1>2. file.table = Written.size BY <1>1 DEF TableIntact
<1>3. EndOfStream(file) = end BY <1>1, <1>2, EndOfStreamWritten
<1>4. ScanError(file) = NoError BY <1>1, WrittenParses
<1>5. Found = detect_trailers(Buf, end) BY <1>3, <1>4 DEF Found
<1>6. Scanned(detect_trailers(Buf, end), Buf, end, end) BY <1>3, ScannedFile DEF Carried
<1>7. QED BY <1>5, <1>6

LEMMA SoundRanges ==
  ASSUME NEW info, NEW buf, NEW eos, NEW lo, Scanned(info, buf, eos, lo)
  PROVE  /\ \A r \in info.id3v1 : eos <= r.start /\ Id3v1Lifts(r, buf.len)
         /\ \A r \in info.apev2 :
              /\ eos <= r.start /\ ApeV2Lifts(r, buf.len)
              /\ IF info.id3v1 = {} THEN is_at_file_end(r, buf.len)
                 ELSE \E t \in info.id3v1 : EndOf(r) = t.start
         /\ \A c \in CombinedByteRange(info) :
              /\ is_at_file_end(c, buf.len)
              /\ \A i \in info.id3v1, a \in info.apev2 : c.len = i.len + a.len
<1>1. buf.len \in Nat /\ eos \in Nat BY DEF Scanned
<1>2. ID3V1_SIZE = 128 /\ FOOTER_SIZE = 32 BY DEF ID3V1_SIZE, FOOTER_SIZE
<1>3. ASSUME NEW r \in info.id3v1
      PROVE  /\ eos <= r.start /\ Id3v1Lifts(r, buf.len)
             /\ r.start = buf.len - 128
  <2>1. r.start = buf.len - ID3V1_SIZE /\ r.len = ID3V1_SIZE /\ eos <= r.start
    BY <1>3, DetectedTags, SMT
  <2>2. EndOf(r) = buf.len BY <1>1, <1>2, <2>1 DEF EndOf
  <2>3. QED BY <1>2, <2>1, <2>2 DEF Id3v1Lifts
<1>4. ASSUME NEW r \in info.apev2
      PROVE  /\ eos <= r.start /\ ApeV2Lifts(r, buf.len)
             /\ IF info.id3v1 = {} THEN is_at_file_end(r, buf.len)
                ELSE \E t \in info.id3v1 : EndOf(r) = t.start
  <2>1. /\ r.len \in Nat /\ r.len >= FOOTER_SIZE /\ r.start \in Nat /\ eos <= r.start
        /\ r.start + r.len = SearchEnd(info, buf.len)
    BY <1>4, DetectedTags, SMT
  <2>2. EndOf(r) = SearchEnd(info, buf.len) BY <2>1 DEF EndOf
  <2>3. CASE info.id3v1 = {}
    <3>1. EndOf(r) = buf.len BY <2>2, <2>3 DEF SearchEnd
    <3>2. QED BY <1>1, <2>1, <2>3, <3>1 DEF ApeV2Lifts, is_at_file_end
  <2>4. CASE info.id3v1 # {}
    <3>1. PICK t \in info.id3v1 : TRUE BY <2>4
    <3>2. EndOf(r) = buf.len - 128 BY <1>2, <2>2, <2>4 DEF SearchEnd
    <3>3. t.start = buf.len - 128 BY <1>3
    <3>4. EndOf(r) <= buf.len BY <1>1, <3>2
    <3>5. QED BY <2>1, <2>4, <3>1, <3>2, <3>3, <3>4 DEF ApeV2Lifts
  <2>5. QED BY <2>3, <2>4
<1>5. ASSUME NEW c \in CombinedByteRange(info)
      PROVE  /\ is_at_file_end(c, buf.len)
             /\ \A i \in info.id3v1, a \in info.apev2 : c.len = i.len + a.len
  <2>1. c.start + c.len = buf.len /\ \A i \in info.id3v1, a \in info.apev2 : c.len = i.len + a.len
    BY CombinedSpan, SMT
  <2>2. QED BY <2>1 DEF is_at_file_end, EndOf
<1>6. QED BY <1>3, <1>4, <1>5

(***************************************************************************)
(* RangesSoundCorrect: for any tags, any sizes their footers declare and   *)
(* any damage to the table, what a scan reports lies behind the stream,    *)
(* tag after tag up to the end of the file, and lifts into its typed range *)
(* (trailers.rs:83-85, 119-121, 376-377).                                  *)
(***************************************************************************)
THEOREM RangesSoundCorrect == Spec => []RangesSound
<1>1. ASSUME Encoding, Carried PROVE RangesSound
  <2> SUFFICES ASSUME pc = "written" PROVE RangesSound BY DEF RangesSound
  <2>1. CASE Found = NoTags
    <3>1. Found.id3v1 = {} /\ Found.apev2 = {} BY <2>1 DEF NoTags
    <3>2. CombinedByteRange(Found) = {} BY <3>1 DEF CombinedByteRange
    <3>3. QED BY <3>1, <3>2 DEF RangesSound
  <2>2. CASE Scanned(Found, Buf, EndOfStream(file), end)
    <3>1. PICK info, eos, len : info = Found /\ eos = EndOfStream(file) /\ len = file.len OBVIOUS
    <3>2. Scanned(info, Buf, eos, end) /\ Buf.len = len BY <2>2, <3>1 DEF Buf
    <3>3. /\ \A r \in info.id3v1 : eos <= r.start /\ Id3v1Lifts(r, len)
          /\ \A r \in info.apev2 :
               /\ eos <= r.start /\ ApeV2Lifts(r, len)
               /\ IF info.id3v1 = {} THEN is_at_file_end(r, len)
                  ELSE \E t \in info.id3v1 : EndOf(r) = t.start
          /\ \A c \in CombinedByteRange(info) :
               /\ is_at_file_end(c, len)
               /\ \A i \in info.id3v1, a \in info.apev2 : c.len = i.len + a.len
      BY <3>2, SoundRanges
    <3>4. QED BY <3>1, <3>3 DEF RangesSound
  <2>3. QED BY <1>1, <2>1, <2>2, FoundNow
<1>2. QED BY <1>1, EncodingHolds, CarriedHolds, PTL

-----------------------------------------------------------------------------
\* What a scan reports, held against the tags there are.
LEMMA OnlyTags ==
  ASSUME Honest, NEW eos, NEW lo, NEW info, Scanned(info, Buf, eos, lo)
  PROVE  info.id3v1 \subseteq Id3v1Tags /\ info.apev2 \subseteq ApeTags
<1>1. Buf.len = file.len /\ Buf.blocks = blocks BY DEF Buf
<1>2. file.len \in Nat /\ Trailing(blocks, lo, file.len) BY <1>1 DEF Scanned
<1>3. \A b \in blocks : /\ b \in Block /\ b.at \in Nat /\ b.len \in Nat
                        /\ BlockEnd(b) = b.at + b.len /\ EndOf(Extent(b)) = BlockEnd(b)
                        /\ b.kind # "other" => b.len > 0
  BY <1>2, TrailingParts, BlockParts
<1>4. info.id3v1 \subseteq Id3v1Tags
  <2> SUFFICES ASSUME NEW r \in info.id3v1 PROVE r \in Id3v1Tags OBVIOUS
  <2>1. PICK d \in Buf.blocks : d.kind = "id3v1" /\ BlockEnd(d) = Buf.len /\ r = Extent(d)
    BY DetectedTags
  <2>2. QED BY <1>1, <1>3, <2>1 DEF Id3v1Tags
<1>5. ASSUME NEW r \in info.apev2 PROVE r \in ApeTags
  <2>1. PICK u : u = SearchEnd(info, file.len) OBVIOUS
  <2>2. PICK b \in blocks :
          /\ b.kind = "ape" /\ BlockEnd(b) = u
          /\ r = [start |-> u - ApeLength(b), len |-> ApeLength(b)]
    <3>1. Buf.len \in Nat /\ eos \in Nat /\ info = detect_trailers(Buf, eos) BY DEF Scanned
    <3>2. \E b \in Buf.blocks :
            /\ b.kind = "ape" /\ BlockEnd(b) = SearchEnd(info, Buf.len)
            /\ r = [start |-> SearchEnd(info, Buf.len) - ApeLength(b), len |-> ApeLength(b)]
      BY <1>5, <3>1, DetectedParts
    <3>3. QED BY <1>1, <2>1, <3>2
  <2>3. ApeLength(b) = b.len /\ u - b.len = b.at
    <3>1. b.tagSize = b.len - (IF b.hasHeader THEN HEADER_SIZE ELSE 0) BY <2>2 DEF Honest
    <3>2. b.len \in Nat /\ b.at \in Nat /\ u = b.at + b.len BY <1>3, <2>2
    <3>3. QED BY <3>1, <3>2 DEF ApeLength, HEADER_SIZE
  <2>4. r = Extent(b) BY <2>2, <2>3 DEF Extent
  <2>5. u = file.len - (IF Id3v1Tags = {} THEN 0 ELSE ID3V1_SIZE)
    <3>1. CASE info.id3v1 # {}
      <4>1. Id3v1Tags # {} BY <1>4, <3>1
      <4>2. QED BY <2>1, <3>1, <4>1 DEF SearchEnd
    <3>2. CASE info.id3v1 = {}
      <4>1. u = file.len BY <2>1, <3>2 DEF SearchEnd
      <4>2. Id3v1Tags = {}
        <5>1. SUFFICES ASSUME Id3v1Tags # {} PROVE FALSE OBVIOUS
        <5>2. PICK c \in blocks : c.kind = "id3v1" /\ BlockEnd(c) = file.len
          BY <1>3, <5>1 DEF Id3v1Tags
        <5>3. b.len > 0 /\ c.len > 0 /\ BlockEnd(b) = BlockEnd(c) BY <1>3, <2>2, <4>1, <5>2
        <5>4. b = c BY <1>2, <5>3, EndsDiffer
        <5>5. QED BY <2>2, <5>2, <5>4
      <4>3. QED BY <1>2, <4>1, <4>2
    <3>3. QED BY <3>1, <3>2
  <2>6. QED BY <1>3, <2>2, <2>4, <2>5 DEF ApeTags
<1>6. QED BY <1>4, <1>5

LEMMA EveryTag ==
  ASSUME Honest, NEW lo, NEW info, Scanned(info, Buf, lo, lo)
  PROVE  Id3v1Tags \subseteq info.id3v1 /\ ApeTags \subseteq info.apev2
<1>1. Buf.len = file.len /\ Buf.blocks = blocks BY DEF Buf
<1>2. /\ file.len \in Nat /\ lo \in Nat /\ Trailing(blocks, lo, file.len)
      /\ info = detect_trailers(Buf, lo)
  BY <1>1 DEF Scanned
<1>3. \A b \in blocks : /\ b \in Block /\ b.at \in Nat /\ b.len \in Nat /\ lo <= b.at
                        /\ BlockEnd(b) = b.at + b.len /\ EndOf(Extent(b)) = BlockEnd(b)
                        /\ b.kind = "id3v1" => b.len = 128
  BY <1>2, TrailingParts, BlockParts DEF ID3V1_SIZE
<1>4. ASSUME NEW r \in Id3v1Tags PROVE r \in info.id3v1
  <2>1. PICK d \in blocks : d.kind = "id3v1" /\ BlockEnd(d) = file.len /\ r = Extent(d)
    BY <1>3, <1>4 DEF Id3v1Tags
  <2>2. d.at = file.len - ID3V1_SIZE /\ d.len = ID3V1_SIZE /\ lo <= file.len - ID3V1_SIZE
    BY <1>2, <1>3, <2>1 DEF ID3V1_SIZE
  <2>3. Id3v1At(Buf, Buf.len - ID3V1_SIZE) BY <1>1, <2>1, <2>2 DEF Id3v1At
  <2>4. info.id3v1 = {[start |-> Buf.len - ID3V1_SIZE, len |-> ID3V1_SIZE]}
    BY <1>1, <1>2, <2>2, <2>3, DetectedParts
  <2>5. r = [start |-> file.len - ID3V1_SIZE, len |-> ID3V1_SIZE] BY <2>1, <2>2 DEF Extent
  <2>6. QED BY <1>1, <2>4, <2>5
<1>5. ASSUME NEW r \in ApeTags PROVE r \in info.apev2
  <2>1. PICK u : u = SearchEnd(info, file.len) OBVIOUS
  <2>2. u = file.len - (IF Id3v1Tags = {} THEN 0 ELSE ID3V1_SIZE)
    <3>1. info.id3v1 = {} <=> Id3v1Tags = {} BY <1>4, OnlyTags
    <3>2. QED BY <1>2, <2>1, <3>1 DEF SearchEnd
  <2>3. PICK b \in blocks : b.kind = "ape" /\ BlockEnd(b) = u /\ r = Extent(b)
    BY <1>3, <1>5, <2>2 DEF ApeTags
  <2>4. b.len \in Nat /\ b.at \in Nat /\ u = b.at + b.len /\ lo <= b.at BY <1>3, <2>3
  <2>5. ApeLength(b) = b.len /\ u - b.len = b.at
    <3>1. b.tagSize = b.len - (IF b.hasHeader THEN HEADER_SIZE ELSE 0) BY <2>3 DEF Honest
    <3>2. QED BY <2>4, <3>1 DEF ApeLength, HEADER_SIZE
  <2>6. b.len >= FOOTER_SIZE BY <1>1, <2>1, <2>3, DetectedTags
  <2>7. ApeLength(b) \in FOOTER_SIZE .. u - lo BY <1>2, <2>4, <2>5, <2>6 DEF FOOTER_SIZE
  <2>8. [start |-> u - ApeLength(b), len |-> ApeLength(b)] \in info.apev2
    <3>1. \A c \in Buf.blocks :
            /\ c \in Block
            /\ c.kind = "ape" /\ BlockEnd(c) = SearchEnd(info, Buf.len)
            /\ ApeLength(c) \in FOOTER_SIZE .. SearchEnd(info, Buf.len) - lo
            => [start |-> SearchEnd(info, Buf.len) - ApeLength(c), len |-> ApeLength(c)]
                 \in info.apev2
      BY <1>1, <1>2, DetectedParts
    <3>2. QED BY <1>1, <1>3, <2>1, <2>3, <2>7, <3>1
  <2>9. QED BY <2>3, <2>5, <2>8 DEF Extent
<1>6. QED BY <1>4, <1>5

(***************************************************************************)
(* ScanFindsTagsCorrect: for any tags whose footers tell their size, a     *)
(* scan reports no byte as a tag that is not one, and under an intact seek *)
(* table it misses none (lib.rs:181-203, trailers.rs:400-443).             *)
(***************************************************************************)
THEOREM ScanFindsTagsCorrect == Spec => []ScanFindsTags
<1>1. ASSUME Encoding, Carried PROVE ScanFindsTags
  <2> SUFFICES ASSUME pc = "written", Honest
               PROVE  /\ Found.id3v1 \subseteq Id3v1Tags
                      /\ Found.apev2 \subseteq ApeTags
                      /\ TableIntact(file) /\ file.len >= end =>
                           Found = [id3v1 |-> Id3v1Tags, apev2 |-> ApeTags]
    BY DEF ScanFindsTags
  <2>1. Found.id3v1 \subseteq Id3v1Tags /\ Found.apev2 \subseteq ApeTags
    <3>1. CASE Found = NoTags
      <4>1. Found.id3v1 = {} /\ Found.apev2 = {} BY <3>1 DEF NoTags
      <4>2. QED BY <4>1
    <3>2. CASE Scanned(Found, Buf, EndOfStream(file), end) BY <3>2, OnlyTags
    <3>3. QED BY <1>1, <3>1, <3>2, FoundNow
  <2>2. ASSUME TableIntact(file), file.len >= end
        PROVE  Found = [id3v1 |-> Id3v1Tags, apev2 |-> ApeTags]
    <3>1. Found = detect_trailers(Buf, end) /\ Scanned(Found, Buf, end, end)
      BY <1>1, <2>2, FoundIntact
    <3>2. Id3v1Tags \subseteq Found.id3v1 /\ ApeTags \subseteq Found.apev2 BY <3>1, EveryTag
    <3>3. Found.id3v1 = Id3v1Tags /\ Found.apev2 = ApeTags BY <2>1, <3>2
    <3>4. PICK i, a : Found = [id3v1 |-> i, apev2 |-> a] BY <3>1 DEF detect_trailers, NoTags
    <3>5. QED BY <3>3, <3>4
  <2>3. QED BY <2>1, <2>2
<1>2. QED BY <1>1, EncodingHolds, CarriedHolds, PTL

(***************************************************************************)
(* TagsSurviveCorrect: a combined window sliced from one file and appended *)
(* to the audio encoded anew is found there as it was found before,        *)
(* whatever stood in front of it (trailers.rs:121-123).                    *)
(***************************************************************************)
THEOREM TagsSurviveCorrect == Spec => []TagsSurvive
<1>1. ASSUME Encoding, Carried PROVE TagsSurvive
  <2> SUFFICES ASSUME pc = "written", kept = Nothing, owed # NothingOwed, TableIntact(file)
               PROVE  Sizes(Found) = owed
    BY DEF TagsSurvive
  <2>1. file.len >= end /\ Sizes(detect_trailers(Buf, end)) = owed
    BY <1>1 DEF Carried, KeptInv
  <2>2. Found = detect_trailers(Buf, end) BY <1>1, <2>1, FoundIntact
  <2>3. QED BY <2>1, <2>2
<1>2. QED BY <1>1, EncodingHolds, CarriedHolds, PTL
=============================================================================
