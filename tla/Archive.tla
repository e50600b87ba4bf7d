------------------------------ MODULE Archive ------------------------------
(***************************************************************************)
(* A file's life around the codec: the encoder writes it, a tagger appends *)
(* ID3v1 and APEv2 tags, the world damages its seek table or cuts its      *)
(* tail, and a host application scans it for tags (scan_trailers of        *)
(* src/lib.rs) to carry them over when it encodes the audio anew, which is *)
(* what the trailer API is for (trailers.rs:6-8, 121-123).                 *)
(***************************************************************************)
EXTENDS Encoder, Trailers

CONSTANTS
  Tags,         \* what a tagger appends: blocks, each at 0
  MaxBlocks,    \* bound: blocks behind one stream
  StrayEntries  \* what a damaged seek-table entry reads

ASSUME ArchiveAssumption ==
  /\ Tags \subseteq Block
  /\ \A t \in Tags : t.at = 0 /\ t.len > 0 /\ (t.kind = "id3v1" => t.len = ID3V1_SIZE)
                          /\ (t.kind = "ape" => t.len >= FOOTER_SIZE)
  /\ MaxBlocks \in Nat /\ StrayEntries \subseteq Nat

VARIABLES
  blocks,       \* the metadata behind the frames
  scan,         \* the host's last scan of this file, and the length it saw
  kept,         \* the bytes it sliced, to append them to a file encoded anew
  owed          \* history: the sizes of the tags in that slice

vars == <<encoderVars, blocks, scan, kept, owed>>
encoderBut == <<pc, req, cursor, blobs, places, end>>

NoScan == [error |-> "None", info |-> NoTags, fileLen |-> 0]
Nothing == [len |-> 0, blocks |-> {}]
NothingOwed == [id3v1 |-> {}, apev2 |-> {}]

Buf == [len |-> file.len, blocks |-> blocks]

-----------------------------------------------------------------------------
\* Where scan_trailers takes the stream to end: by the sizes stored now.
EndOfStream(f) ==
  LET count == FrameCount(f.h) IN
  IF count = 0 THEN DataStart(f)
  ELSE Windows(f)[count].offset + Windows(f)[count].disk

\* scan_trailers parses for itself, both formats; it looks at no CRC of the table.
ScanError(f) ==
  LET avail == f.len - f.id3 IN
  IF f.id3 > f.len THEN "Truncated"
  ELSE IF HeaderError(avail, f.h) # NoError THEN HeaderError(avail, f.h)
  ELSE IF avail - HEADER_LEN < SeekTableLen(f.h) THEN "Truncated"
  ELSE NoError

Scan ==
  /\ pc = "written"
  /\ scan' = [error |-> ScanError(file), fileLen |-> file.len,
              info |-> IF ScanError(file) # NoError THEN NoTags
                       ELSE detect_trailers(Buf, EndOfStream(file))]
  /\ UNCHANGED <<encoderVars, blocks, kept, owed>>

-----------------------------------------------------------------------------
\* The tagger works on whole files; the frames stay where they are.
Tag(t) ==
  /\ pc = "written" /\ kept = Nothing /\ file.len >= end
  /\ Cardinality(blocks) < MaxBlocks
  /\ blocks' = blocks \cup {[t EXCEPT !.at = file.len]}
  /\ file' = [file EXCEPT !.len = @ + t.len]
  /\ owed' = NothingOwed
  /\ UNCHANGED <<encoderBut, scan, kept>>

\* An entry of the seek table reads otherwise; its CRC no longer matches.
Damage(w, s) ==
  /\ pc = "written" /\ kept = Nothing /\ file.tableCrc
  /\ w \in FrameIds(file)
  /\ file' = [file EXCEPT !.table[w] = s, !.tableCrc = FALSE]
  /\ scan' = NoScan /\ owed' = NothingOwed
  /\ UNCHANGED <<encoderBut, blocks, kept>>

\* The file's last byte is lost, of a tag or of a frame: a cut tag is none.
LoseByte ==
  LET last == {b \in blocks : b.at + b.len = file.len} IN
  /\ pc = "written" /\ kept = Nothing /\ file.len >= end
  /\ \A b \in last : b.kind # "other"
  /\ file' = [file EXCEPT !.len = @ - 1]
  /\ blocks' = (blocks \ last) \cup {[b EXCEPT !.kind = "other", !.len = @ - 1] : b \in last}
  /\ scan' = NoScan /\ owed' = NothingOwed
  /\ UNCHANGED <<encoderBut, kept>>

-----------------------------------------------------------------------------
\* What is left of a block in a slice that begins at `start'.
Sliced(b, start) ==
  IF b.at >= start THEN [b EXCEPT !.at = @ - start]
  ELSE [b EXCEPT !.at = 0, !.len = @ - (start - b.at),
                 !.kind = IF @ = "ape" THEN "ape" ELSE "other"]

Sizes(info) ==
  [id3v1 |-> {r.len : r \in info.id3v1}, apev2 |-> {r.len : r \in info.apev2}]

\* The host slices the combined range and turns to a new encoding.
Slice(r) ==
  /\ pc = "written" /\ kept = Nothing
  /\ r \in CombinedByteRange(scan.info)
  /\ kept' = [len |-> r.len,
              blocks |-> {Sliced(b, r.start) :
                            b \in {c \in blocks : r.start < c.at + c.len /\ c.at < EndOf(r)}}]
  /\ owed' = Sizes(scan.info)
  /\ pc' = "idle" /\ file' = NoFile /\ blocks' = {} /\ scan' = NoScan
  /\ UNCHANGED <<req, cursor, blobs, places, end>>

Restore ==
  /\ pc = "written" /\ kept # Nothing
  /\ blocks' = {[b EXCEPT !.at = @ + file.len] : b \in kept.blocks}
  /\ file' = [file EXCEPT !.len = @ + kept.len]
  /\ kept' = Nothing
  /\ scan' = NoScan
  /\ UNCHANGED <<encoderBut, owed>>

Init == EncoderInit /\ blocks = {} /\ scan = NoScan /\ kept = Nothing /\ owed = NothingOwed

Encode == EncoderNext /\ UNCHANGED <<blocks, scan, kept, owed>>

Next ==
  \/ Encode
  \/ \E t \in Tags : Tag(t)
  \/ \E s \in StrayEntries, w \in 0 .. Len(blobs) - 1 : Damage(w, s)
  \/ LoseByte \/ Scan
  \/ \E r \in CombinedByteRange(scan.info) : Slice(r)
  \/ Restore

Spec == Init /\ [][Next]_vars

-----------------------------------------------------------------------------
\* What the properties speak of.

Found == IF ScanError(file) # NoError THEN NoTags ELSE detect_trailers(Buf, EndOfStream(file))

\* An APE footer that says how long its tag is.
Honest ==
  \A b \in blocks : b.kind = "ape" =>
    b.tagSize = b.len - (IF b.hasHeader THEN HEADER_SIZE ELSE 0)

Extent(b) == [start |-> b.at, len |-> b.len]
Id3v1Tags == {Extent(b) : b \in {c \in blocks : c.kind = "id3v1" /\ EndOf(Extent(c)) = file.len}}
ApeTags ==
  LET upper == file.len - (IF Id3v1Tags = {} THEN 0 ELSE ID3V1_SIZE) IN
  {Extent(b) : b \in {c \in blocks : c.kind = "ape" /\ EndOf(Extent(c)) = upper}}

(***************************************************************************)
(* TypeOK: the encoder's state, and the metadata inside the file.          *)
(***************************************************************************)
TypeOK ==
  /\ EncoderTypeOK
  /\ blocks \subseteq Block /\ kept.blocks \subseteq Block
  /\ \A b \in blocks : pc = "written" /\ end <= b.at /\ EndOf(Extent(b)) <= file.len
  /\ {scan.info.id3v1, scan.info.apev2} \subseteq SUBSET Ranges

(***************************************************************************)
(* ScanFindsTags: on a file whose seek table is intact a scan reports      *)
(* exactly the tags at its end, the APE tag also in front of an ID3v1 tag; *)
(* with a damaged table, whose sizes give a wrong end of the stream, it    *)
(* may miss them but reports nothing that is no tag (lib.rs:181-203).      *)
(***************************************************************************)
ScanFindsTags ==
  pc = "written" /\ Honest =>
    /\ Found.id3v1 \subseteq Id3v1Tags
    /\ Found.apev2 \subseteq ApeTags
    /\ TableIntact(file) /\ file.len >= end => Found = [id3v1 |-> Id3v1Tags, apev2 |-> ApeTags]

(***************************************************************************)
(* RangesSound: whatever sizes footers declare, what a scan reports lies   *)
(* behind the stream, the APE tag ends where the ID3v1 tag or nothing      *)
(* follows, both lift into their typed ranges, and the combined window is  *)
(* the two together (trailers.rs:83-85, 119-121, 376-377).                 *)
(***************************************************************************)
RangesSound ==
  pc = "written" =>
    /\ \A r \in Found.id3v1 : EndOfStream(file) <= r.start /\ Id3v1Lifts(r, file.len)
    /\ \A r \in Found.apev2 :
         /\ EndOfStream(file) <= r.start /\ ApeV2Lifts(r, file.len)
         /\ IF Found.id3v1 = {} THEN is_at_file_end(r, file.len)
            ELSE \E t \in Found.id3v1 : EndOf(r) = t.start
    /\ \A c \in CombinedByteRange(Found) :
         /\ is_at_file_end(c, file.len)
         /\ \A i \in Found.id3v1, a \in Found.apev2 : c.len = i.len + a.len

(***************************************************************************)
(* StaleScanRefused: a scan from before the file grew lifts no ID3v1 range *)
(* any more, for that tag is no longer the file's last bytes, while an APE *)
(* range still lies inside (trailers.rs:229-237, 283-286).                 *)
(***************************************************************************)
StaleScanRefused ==
  pc = "written" =>
    /\ \A r \in scan.info.id3v1 : Id3v1Lifts(r, file.len) <=> file.len = scan.fileLen
    /\ \A r \in scan.info.apev2 : ApeV2Lifts(r, file.len)

(***************************************************************************)
(* TagsSurvive: a host that slices the combined window and appends it to   *)
(* the audio encoded anew has the same tags in the new file, whatever      *)
(* stood in front of the window in the old one (trailers.rs:121-123).      *)
(***************************************************************************)
TagsSurvive ==
  pc = "written" /\ kept = Nothing /\ owed # NothingOwed /\ TableIntact(file)
    => Sizes(Found) = owed
=============================================================================
