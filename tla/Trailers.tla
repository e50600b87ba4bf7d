------------------------------ MODULE Trailers ------------------------------
(***************************************************************************)
(* Detection of ID3v1 and APEv2 tags behind the last frame                 *)
(* (src/trailers.rs).  A buffer is its length and the blocks of metadata   *)
(* in it: `kind' id3v1 (begins with "TAG"), ape (ends in a footer that     *)
(* begins with "APETAGEX") or other, `at' and `len' the bytes it takes,    *)
(* `tagSize' and `hasHeader' what the footer declares.  Audio bytes are    *)
(* taken not to look like a tag.  An Option is a set of at most one range. *)
(***************************************************************************)
EXTENDS Integers, FiniteSets

ID3V1_SIZE == 128
FOOTER_SIZE == 32
HEADER_SIZE == 32

Block == [kind : {"id3v1", "ape", "other"}, at : Nat, len : Nat,
          tagSize : Nat, hasHeader : BOOLEAN]
Ranges == [start : Nat, len : Nat]

EndOf(r) == r.start + r.len
NoTags == [id3v1 |-> {}, apev2 |-> {}]

-----------------------------------------------------------------------------
\* The magic at byte p, the footer at byte p.
Id3v1At(buf, p) == \E b \in buf.blocks : b.kind = "id3v1" /\ b.at = p
FootersAt(buf, p) ==
  {b \in buf.blocks : b.kind = "ape" /\ b.at + b.len = p + FOOTER_SIZE}

DetectId3v1(buf, eos) ==
  IF buf.len - eos >= ID3V1_SIZE /\ Id3v1At(buf, buf.len - ID3V1_SIZE)
  THEN {[start |-> buf.len - ID3V1_SIZE, len |-> ID3V1_SIZE]} ELSE {}

ApeSearchEnd(buf, eos) ==
  IF DetectId3v1(buf, eos) = {} THEN buf.len ELSE buf.len - ID3V1_SIZE

\* Faulty variant: tag_size is taken to cover the header.
ApeLengthWithoutHeader(b) == b.tagSize

\* tag_size covers body and footer; a header comes on top.
ApeLength(b) == b.tagSize + (IF b.hasHeader THEN HEADER_SIZE ELSE 0)

\* Faulty variant: the declared size is not held against the region.
DetectApeUnbounded(buf, eos) ==
  LET upper == ApeSearchEnd(buf, eos) IN
  IF upper < eos + FOOTER_SIZE THEN {}
  ELSE {[start |-> upper - ApeLength(b), len |-> ApeLength(b)] :
          b \in {f \in FootersAt(buf, upper - FOOTER_SIZE) :
                   ApeLength(f) >= FOOTER_SIZE}}

\* Only a footer whose declared extent lies behind the stream is a tag.
DetectApe(buf, eos) ==
  LET upper == ApeSearchEnd(buf, eos) IN
  IF upper < eos + FOOTER_SIZE THEN {}
  ELSE {[start |-> upper - ApeLength(b), len |-> ApeLength(b)] :
          b \in {f \in FootersAt(buf, upper - FOOTER_SIZE) :
                   ApeLength(f) \in FOOTER_SIZE .. upper - eos}}

detect_trailers(buf, eos) ==
  IF eos >= buf.len THEN NoTags
  ELSE [id3v1 |-> DetectId3v1(buf, eos), apev2 |-> DetectApe(buf, eos)]

-----------------------------------------------------------------------------
\* Faulty variant: a range inside the file will do.
Id3v1LiftsInside(r, fileLen) == r.len = ID3V1_SIZE /\ EndOf(r) <= fileLen

\* TrailerInfo's lifts: what Id3v1Range::from_raw and ApeV2Range::from_raw accept.
Id3v1Lifts(r, fileLen) == r.len = ID3V1_SIZE /\ EndOf(r) = fileLen
ApeV2Lifts(r, fileLen) == r.len >= FOOTER_SIZE /\ EndOf(r) <= fileLen

is_at_file_end(r, fileLen) == EndOf(r) = fileLen

\* Faulty variant: the window ends where the first of the two tags ends.
CombinedFirstEnd(info) ==
  LET tags == info.id3v1 \cup info.apev2 IN
  {[start |-> s.start, len |-> e.len] : s \in {r \in tags : \A q \in tags : r.start <= q.start},
     e \in {r \in tags : \A q \in tags : EndOf(r) <= EndOf(q)}}

\* combined_byte_range: the least window over the tags there are.
CombinedByteRange(info) ==
  LET tags == info.id3v1 \cup info.apev2 IN
  {[start |-> s.start, len |-> EndOf(e) - s.start] :
     s \in {r \in tags : \A q \in tags : r.start <= q.start},
     e \in {r \in tags : \A q \in tags : EndOf(q) <= EndOf(r)}}
=============================================================================
