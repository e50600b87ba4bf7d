------------------------------ MODULE Playback ------------------------------
(***************************************************************************)
(* The registry adapters of src/registry.rs at work: TtaDemuxer cuts the   *)
(* file into one packet per frame, TtaDecoder turns packets into audio,    *)
(* and a player drives both through the framework's traits, in any order   *)
(* of calls, seeking when it likes and going on after an error.  A packet  *)
(* is a mini-file: a header rewritten for one frame, a one-entry seek      *)
(* table and the bytes of the frame's window.                              *)
(***************************************************************************)
EXTENDS Stream

CONSTANTS
  MaxSeeks,     \* bound: successful seeks in one playback
  SeekTargets   \* the pts a player asks for, negative ones included

VARIABLES
  file,         \* the bytes read_to_end collected
  dmx,          \* TtaDemuxer: phase, frames, parse offset, current_frame, next_pts, seekable
  tdec,         \* TtaDecoder: pending, eof
  hand,         \* the packet the host took and has not sent yet (bound: it keeps one)
  answer,       \* what the last call returned
  emitted,      \* history: the pts of the packets taken and not dropped, in order
  dropped,      \* history: a packet was taken and never sent
  answered,     \* history: the pts of every packet receive_frame answered for
  played,       \* history: the frames it returned
  sought,       \* history: the target of a seek no packet was taken since
  seeks         \* counts successful seeks, for MaxSeeks

vars == <<file, dmx, tdec, hand, answer, emitted, dropped, answered, played, sought, seeks>>

ASSUME PlaybackAssumption == MaxSeeks \in Nat /\ SeekTargets \subseteq Int

None == [none |-> TRUE]

Nch == file.h.channels
Regular == RegularFrameSamples(file.h)

-----------------------------------------------------------------------------
Inside(d) == d.offset + d.disk <= file.len

\* open_demuxer up to the seek table: format 2 passes.
OpenError ==
  LET avail == file.len - file.id3 IN
  IF file.id3 > file.len THEN "Truncated"
  ELSE IF HeaderError(avail, file.h) # NoError THEN HeaderError(avail, file.h)
  ELSE IF avail - HEADER_LEN < SeekTableLen(file.h) THEN "Truncated"
  ELSE NoError

Init ==
  /\ file \in Files
  /\ dmx = [phase |-> "closed", frames |-> <<>>, offset |-> 0, current |-> 0, pts |-> 0,
            seekable |-> FALSE]
  /\ tdec = [pending |-> None, eof |-> FALSE]
  /\ hand = None /\ answer = "None" /\ sought = None /\ seeks = 0
  /\ emitted = <<>> /\ dropped = FALSE /\ answered = <<>> /\ played = <<>>

Open ==
  /\ dmx.phase = "closed"
  /\ IF OpenError # NoError
     THEN answer' = OpenError /\ dmx' = [dmx EXCEPT !.phase = "refused"]
     ELSE /\ answer' = answer
          /\ dmx' = [dmx EXCEPT !.phase = "parsing", !.offset = DataStart(file)]
  /\ UNCHANGED <<file, tdec, hand, emitted, dropped, answered, played, sought, seeks>>

\* One turn of parse_seek_table's loop.
PushDescriptor ==
  LET i == Len(dmx.frames) IN
  /\ dmx.phase = "parsing" /\ i < FrameCount(file.h)
  /\ dmx' = [dmx EXCEPT !.frames = Append(@, Descriptor(file, i, dmx.offset)),
                        !.offset = @ + file.table[i]]
  /\ UNCHANGED <<file, tdec, hand, answer, emitted, dropped, answered, played, sought, seeks>>

\* Faulty variant: the windows are not held against the file's length.
FinishOpenUnchecked ==
  /\ dmx.phase = "parsing" /\ Len(dmx.frames) = FrameCount(file.h)
  /\ answer' = NoError
  /\ dmx' = [dmx EXCEPT !.phase = "open", !.seekable = file.tableCrc]
  /\ UNCHANGED <<file, tdec, hand, emitted, dropped, answered, played, sought, seeks>>

\* A window past the end of the file is refused; a failed CRC is recorded.
FinishOpen ==
  /\ dmx.phase = "parsing" /\ Len(dmx.frames) = FrameCount(file.h)
  /\ IF \A j \in DOMAIN dmx.frames : Inside(dmx.frames[j])
     THEN answer' = NoError /\ dmx' = [dmx EXCEPT !.phase = "open", !.seekable = file.tableCrc]
     ELSE answer' = "Overrun" /\ dmx' = [dmx EXCEPT !.phase = "refused"]
  /\ UNCHANGED <<file, tdec, hand, emitted, dropped, answered, played, sought, seeks>>

-----------------------------------------------------------------------------
\* Faulty variant: the header keeps the file's sample count.
MiniFileOfFile(d) == [h |-> file.h, offset |-> d.offset, disk |-> d.disk]

\* build_single_frame_file: total_samples becomes the frame's own count.
MiniFile(d) == [h |-> [file.h EXCEPT !.total = d.samples], offset |-> d.offset, disk |-> d.disk]

\* What is left of the packets taken when a host takes another one: a host
\* that has not sent the packet in hand drops it, as the drains of
\* fuzz_targets/demuxer.rs and seek_table.rs do.
Kept == IF hand = None THEN emitted ELSE SubSeq(emitted, 1, Len(emitted) - 1)

NextPacket ==
  /\ dmx.phase = "open"
  /\ IF dmx.current >= Len(dmx.frames)
     THEN answer' = "Eof" /\ UNCHANGED <<dmx, hand, emitted, dropped, sought>>
     ELSE /\ answer' = "Packet"
          /\ hand' = [pts  |-> dmx.pts,
                      data |-> MiniFile(dmx.frames[dmx.current + 1])]
          /\ dmx' = [dmx EXCEPT !.current = @ + 1, !.pts = @ + Regular]
          /\ emitted' = Append(Kept, dmx.pts)
          /\ dropped' = (dropped \/ hand # None)
          /\ sought' = None
  /\ UNCHANGED <<file, tdec, answered, played, seeks>>

\* Faulty variant: a target past the last frame is not clamped.
TargetFrameUnclamped(pts) == (IF pts < 0 THEN 0 ELSE pts) \div Regular

\* seek_to's target: negative pts count as 0, late ones land on the last frame.
TargetFrame(pts) ==
  LET k == (IF pts < 0 THEN 0 ELSE pts) \div Regular IN
  IF k >= Len(dmx.frames) THEN Len(dmx.frames) - 1 ELSE k

\* Faulty variant: the table's CRC is not asked for.
SeekToUngated(stream_index, pts) ==
  /\ dmx.phase = "open" /\ stream_index = 0 /\ dmx.frames # <<>> /\ seeks < MaxSeeks
  /\ seeks' = seeks + 1
  /\ answer' = "Sought"
  /\ dmx' = [dmx EXCEPT !.current = TargetFrame(pts),
                        !.pts = TargetFrame(pts) * Regular]
  /\ sought' = [target |-> pts]
  /\ UNCHANGED <<file, tdec, hand, emitted, dropped, answered, played>>

\* A file has one stream; nothing but a good seek moves the demuxer.
SeekError(stream_index) ==
  IF stream_index # 0 THEN "InvalidStream"
  ELSE IF ~dmx.seekable \/ dmx.frames = <<>> \/ Regular = 0 THEN "Unsupported"
  ELSE NoError

SeekTo(stream_index, pts) ==
  /\ dmx.phase = "open"
  /\ IF SeekError(stream_index) # NoError
     THEN answer' = SeekError(stream_index) /\ UNCHANGED <<dmx, sought, seeks>>
     ELSE /\ seeks < MaxSeeks
          /\ seeks' = seeks + 1
          /\ answer' = "Sought"
          /\ dmx' = [dmx EXCEPT !.current = TargetFrame(pts),
                                !.pts = TargetFrame(pts) * Regular]
          /\ sought' = [target |-> pts]
  /\ UNCHANGED <<file, tdec, hand, emitted, dropped, answered, played>>

-----------------------------------------------------------------------------
\* make_decoder's expectation, from the sample format the demuxer declared.
ExpectedBps == IF file.h.bps = 16 THEN 16 ELSE 24

(***************************************************************************)
(* crate::decode on a packet: Decoder::new without a password, decode_all  *)
(* over the mini-file's own geometry, then the adapter's sanity checks.    *)
(***************************************************************************)
PacketWindow(p) ==
  [offset |-> p.data.offset, disk |-> p.data.disk, samples |-> LastFrameSamples(p.data.h)]

Rejected(p) ==
  \/ p.data.h.format = 2
  \/ FrameCount(p.data.h) # 1
  \/ Undecodable(file, PacketWindow(p))
  \/ p.data.h.bps # ExpectedBps

\* Faulty variant: a packet replaces the one still waiting.
SendPacketOverwriting ==
  /\ hand # None
  /\ answer' = "Ok"
  /\ tdec' = [tdec EXCEPT !.pending = hand]
  /\ hand' = None
  /\ UNCHANGED <<file, dmx, emitted, dropped, answered, played, sought, seeks>>

SendPacket ==
  /\ hand # None
  /\ IF tdec.pending # None THEN answer' = "Busy" /\ UNCHANGED <<tdec, hand>>
     ELSE /\ answer' = "Ok"
          /\ tdec' = [tdec EXCEPT !.pending = hand]
          /\ hand' = None
  /\ UNCHANGED <<file, dmx, emitted, dropped, answered, played, sought, seeks>>

\* Faulty variant: a flush outlives the seek that follows it.
ReceiveFrameEofFirst ==
  LET p == tdec.pending IN
  /\ dmx.phase = "open"
  /\ IF p = None \/ tdec.eof
     THEN /\ answer' = IF tdec.eof THEN "Eof" ELSE "NeedMore"
          /\ UNCHANGED <<tdec, answered, played>>
     ELSE /\ tdec' = [tdec EXCEPT !.pending = None]
          /\ answered' = Append(answered, p.pts)
          /\ IF Rejected(p) THEN answer' = "Invalid" /\ UNCHANGED played
             ELSE /\ answer' = "Frame"
                  /\ played' = Append(played,
                       [pts |-> p.pts, samples |-> p.data.h.total,
                        pcm |-> FrameAudio(file, PacketWindow(p), ZeroDigest)])
  /\ UNCHANGED <<file, dmx, hand, emitted, dropped, sought, seeks>>

\* The pending packet is taken before it is decoded: an error consumes it.
ReceiveFrame ==
  LET p == tdec.pending IN
  /\ dmx.phase = "open"
  /\ IF p = None
     THEN /\ answer' = IF tdec.eof THEN "Eof" ELSE "NeedMore"
          /\ UNCHANGED <<tdec, answered, played>>
     ELSE /\ tdec' = [tdec EXCEPT !.pending = None]
          /\ answered' = Append(answered, p.pts)
          /\ IF Rejected(p) THEN answer' = "Invalid" /\ UNCHANGED played
             ELSE /\ answer' = "Frame"
                  /\ played' = Append(played,
                       [pts |-> p.pts, samples |-> p.data.h.total,
                        pcm |-> FrameAudio(file, PacketWindow(p), ZeroDigest)])
  /\ UNCHANGED <<file, dmx, hand, emitted, dropped, sought, seeks>>

Flush ==
  /\ dmx.phase = "open"
  /\ answer' = "Ok"
  /\ tdec' = [tdec EXCEPT !.eof = TRUE]
  /\ UNCHANGED <<file, dmx, hand, emitted, dropped, answered, played, sought, seeks>>

Next ==
  \/ Open \/ PushDescriptor \/ FinishOpen
  \/ NextPacket \/ SendPacket \/ ReceiveFrame \/ Flush
  \/ \E stream_index \in {0, 1}, pts \in SeekTargets : SeekTo(stream_index, pts)

Spec == Init /\ [][Next]_vars

-----------------------------------------------------------------------------
(***************************************************************************)
(* TypeOK: the adapters' state, packets only of an open stream, and every  *)
(* packet cut from inside the file, for build_single_frame_file slices     *)
(* unchecked (registry.rs:445-454, "so next_packet stays panic-free").     *)
(***************************************************************************)
Answers ==
  {"None", "Packet", "Frame", "Eof", "NeedMore", "Ok", "Busy", "Invalid", "Sought",
   "InvalidStream", "Unsupported", "Overrun", "Truncated", NoError, "InvalidMagic", "Crc32Mismatch",
   "UnsupportedFormat", "UnsupportedChannelCount", "UnsupportedBitDepth",
   "UnsupportedSampleRate"}

TypeOK ==
  /\ dmx.phase \in {"closed", "parsing", "open", "refused"}
  /\ dmx.current \in 0 .. Len(dmx.frames) /\ dmx.pts \in Nat /\ dmx.seekable \in BOOLEAN
  /\ tdec.eof \in BOOLEAN
  /\ seeks \in 0 .. MaxSeeks
  /\ answer \in Answers
  /\ dropped \in BOOLEAN
  /\ \A p \in {hand, tdec.pending} \ {None} :
       dmx.phase = "open" /\ p.data.offset + p.data.disk <= file.len

(***************************************************************************)
(* FrameAtItsTime: a frame the host receives is the audio of its pts,      *)
(* whatever was sought, retried or dropped before, when every stored size  *)
(* before it is true.  Behind a damaged one windows are displaced, and     *)
(* another frame's audio may be heard under this pts once a packet was     *)
(* dropped or rejected; until then it holds there too, for an unseekable   *)
(* stream cannot be sought past the damage, and a displaced window is not  *)
(* decodable.  A forged table can be sought (registry.rs:537-542, 619-623).*)
(***************************************************************************)
AtItsTime(frame) ==
  frame.pcm = Entries(frame.pts * Nch, (frame.pts + frame.samples) * Nch)

TrueBefore(pts) ==
  \A w \in FrameIds(file) : w * Regular < pts => file.table[w] = file.size[w]

NothingSkipped == ~dropped /\ Len(answered) = Len(played)

FrameAtItsTime ==
  \A n \in DOMAIN played :
    TrueBefore(played[n].pts) \/ (~Forged(file) /\ NothingSkipped) => AtItsTime(played[n])

(***************************************************************************)
(* EveryPacketAnswered: the adapter loses no packet and answers for none   *)
(* twice: the packets the host took and did not drop are, in order, those  *)
(* answered for, the one pending and the one in hand (registry.rs:107-115).*)
(***************************************************************************)
Held(p) == IF p = None THEN <<>> ELSE <<p.pts>>

EveryPacketAnswered == emitted = answered \o Held(tdec.pending) \o Held(hand)

(***************************************************************************)
(* SeekCovers: after a seek the next packet is there, also after Eof, and  *)
(* its frame contains the target, or is the first or the last frame when   *)
(* the target lies outside the stream (registry.rs:614-623).               *)
(***************************************************************************)
SeekCovers ==
  sought # None =>
    LET s == sought.target IN
    /\ dmx.current < Len(dmx.frames)
    /\ dmx.pts = dmx.current * Regular
    /\ s < 0 => dmx.current = 0
    /\ s >= file.h.total => dmx.current = Len(dmx.frames) - 1
    /\ s \in 0 .. file.h.total - 1 =>
         s \in dmx.pts .. dmx.pts + dmx.frames[dmx.current + 1].samples - 1

(***************************************************************************)
(* OnlyDamageRejects: on a stream of 16 or 24 bits with a true seek table  *)
(* receive_frame rejects a packet only when its own frame is damaged: the  *)
(* rewritten header always describes the one frame the packet carries, the *)
(* shorter last one and those reached by a seek included                   *)
(* (registry.rs:118-145, 540-575).                                         *)
(***************************************************************************)
OnlyDamageRejects ==
  /\ TableIntact(file) /\ file.h.format = 1 /\ file.h.bps \in {16, 24}
  /\ answer = "Invalid"
  => Damaged(file, answered[Len(answered)] \div Regular)

-----------------------------------------------------------------------------
\* registry.rs:411-415 says every packet is a mini-file the existing
\* TtaDecoder can decode without alteration: only damage makes it reject one.
HealthyPacketDecodes ==
  file.tableCrc /\ TableIntact(file) /\ (\A w \in FrameIds(file) : ~Damaged(file, w)) => answer # "Invalid"
=============================================================================
