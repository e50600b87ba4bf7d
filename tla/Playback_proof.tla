--------------------------- MODULE Playback_proof ---------------------------
(***************************************************************************)
(* What holds of Playback, and of the player of Player, for every set of   *)
(* files, every set of seek targets and any number of seeks.               *)
(***************************************************************************)
EXTENDS Player, Stream_proof

-----------------------------------------------------------------------------
(***************************************************************************)
(* Types.  A packet is typed by its fields; before the demuxer is open     *)
(* nothing has moved.                                                      *)
(***************************************************************************)
Descriptors == [offset : Nat, disk : Nat, samples : Nat]
Packets == [pts : Nat, data : [h : HeaderRecords, offset : Nat, disk : Nat]]
Frames == [pts : Nat, samples : Nat, pcm : Seq(Int)]

Demuxers ==
  [phase : {"closed", "parsing", "open", "refused"}, frames : Seq(Descriptors),
   offset : Nat, current : Nat, pts : Nat, seekable : BOOLEAN]

Types ==
  /\ file \in Files
  /\ dmx \in Demuxers /\ dmx.current <= Len(dmx.frames)
  /\ tdec \in [pending : Packets \cup {None}, eof : BOOLEAN]
  /\ hand \in Packets \cup {None}
  /\ seeks \in 0 .. MaxSeeks
  /\ answer \in Answers
  /\ emitted \in Seq(Nat) /\ answered \in Seq(Nat) /\ played \in Seq(Frames)
  /\ dropped \in BOOLEAN
  /\ sought \in [target : Int] \cup {None}

Unmoved ==
  /\ hand = None /\ tdec.pending = None /\ sought = None
  /\ dmx.current = 0 /\ dmx.pts = 0 /\ ~dmx.seekable
  /\ emitted = <<>> /\ answered = <<>> /\ played = <<>>

Typed == Types /\ (dmx.phase # "open" => Unmoved)

LEMMA NotNone ==
  /\ \A p \in Packets : p # None
  /\ \A s \in [target : Int] : s # None
<1>1. DOMAIN None = {"none"} BY DEF None
<1>2. \A p \in Packets : "pts" \in DOMAIN p BY DEF Packets
<1>3. \A s \in [target : Int] : "target" \in DOMAIN s OBVIOUS
<1>4. QED BY <1>1, <1>2, <1>3

LEMMA FileType ==
  ASSUME file \in Files
  PROVE  /\ WellFormed(file) /\ file.h \in HeaderRecords
         /\ Nch \in Nat /\ Regular \in Nat /\ FrameCount(file.h) \in Nat
         /\ file.h.total \in Nat
         /\ \A i \in Nat : FrameSamples(file.h, i) \in Nat
<1>1. WellFormed(file) BY FilesAssumption
<1>2. file.h \in HeaderRecords BY <1>1 DEF WellFormed
<1>3. QED BY <1>1, <1>2, GeometryType DEF HeaderRecords, Nch, Regular

\* A decoded frame is a sequence of entries.
LEMMA AudioType ==
  ASSUME file \in Files, NEW d \in Descriptors, ~Undecodable(file, d)
  PROVE  FrameAudio(file, d, ZeroDigest) \in Seq(Int)
<1> DEFINE w == CHOOSE v \in Matching(file, d) : TRUE
           n == d.samples * file.h.channels
           first == w * (RegularFrameSamples(file.h) * file.h.channels)
<1>1. w \in Matching(file, d) BY DEF Undecodable
<1>2. w \in Nat
  <2>1. FrameIds(file) = 0 .. FrameCount(file.h) - 1 BY DEF FrameIds
  <2>2. FrameCount(file.h) \in Nat BY FileType
  <2>3. QED BY <1>1, <2>1, <2>2 DEF Matching
<1>3. n \in Nat BY FileType, ProductInNat DEF Nch, Descriptors
<1>4. first \in Nat BY <1>2, FileType, ProductInNat DEF Nch, Regular
<1>5. FrameAudio(file, d, ZeroDigest) =
        IF ZeroDigest = file.key THEN Entries(first, first + n)
        ELSE [i \in 1 .. n |-> Garbled]
  BY DEF FrameAudio
<1> HIDE DEF n, first, w
<1>6. Entries(first, first + n) \in Seq(Int)
  <2>1. first + n \in Nat /\ first <= first + n BY <1>3, <1>4
  <2>2. QED BY <1>4, <2>1, EntriesType
<1>7. [i \in 1 .. n |-> Garbled] \in Seq(Int) BY <1>3 DEF Garbled
<1>8. QED BY <1>5, <1>6, <1>7

\* The window a packet is decoded from is a descriptor of the file.
LEMMA PacketWindowType ==
  ASSUME file \in Files, NEW p \in Packets
  PROVE  PacketWindow(p) \in Descriptors
<1>1. p.data.h \in HeaderRecords BY DEF Packets
<1>2. LastFrameSamples(p.data.h) \in Nat BY <1>1, GeometryType
<1>3. QED BY <1>2 DEF PacketWindow, Descriptors, Packets

LEMMA MiniFileType ==
  ASSUME file \in Files, NEW d \in Descriptors, NEW t \in Nat
  PROVE  [pts |-> t, data |-> MiniFile(d)] \in Packets
<1>1. [file.h EXCEPT !.total = d.samples] \in HeaderRecords
  BY FileType DEF HeaderRecords, Descriptors
<1>2. QED BY <1>1 DEF MiniFile, Packets, Descriptors

\* A seek lands on a frame there is.
LEMMA TargetFrameType ==
  ASSUME Types, NEW s \in Int, dmx.frames # <<>>, Regular # 0
  PROVE  TargetFrame(s) \in Nat /\ TargetFrame(s) < Len(dmx.frames)
<1>1. Regular \in Nat /\ Regular > 0 BY FileType DEF Types
<1>2. Len(dmx.frames) \in Nat /\ Len(dmx.frames) > 0 BY DEF Types, Demuxers
<1>3. (IF s < 0 THEN 0 ELSE s) \div Regular \in Nat BY <1>1, DivMod
<1>4. QED BY <1>2, <1>3 DEF TargetFrame

\* Cursor and clock are the demuxer's only moving parts.
LEMMA MoveType ==
  ASSUME dmx \in Demuxers, NEW n \in Nat, NEW t \in Nat
  PROVE  LET moved == [dmx EXCEPT !.current = n, !.pts = t] IN
         /\ moved \in Demuxers /\ moved.current = n /\ moved.pts = t
         /\ moved.frames = dmx.frames /\ moved.phase = dmx.phase
         /\ moved.seekable = dmx.seekable
  BY DEF Demuxers

LEMMA InitTyped == Init => Typed
<1> SUFFICES ASSUME Init PROVE Typed OBVIOUS
<1>1. dmx \in Demuxers /\ dmx.current <= Len(dmx.frames) BY DEF Init, Demuxers
<1>2. seeks \in 0 .. MaxSeeks BY PlaybackAssumption DEF Init
<1>3. tdec \in [pending : Packets \cup {None}, eof : BOOLEAN] BY DEF Init
<1>4. /\ emitted \in Seq(Nat) /\ answered \in Seq(Nat) /\ played \in Seq(Frames)
      /\ answer \in Answers /\ dropped \in BOOLEAN /\ file \in Files
      /\ hand = None /\ sought = None
  <2>1. emitted \in Seq(Nat) /\ answered \in Seq(Nat) /\ played \in Seq(Frames) BY DEF Init
  <2>2. answer \in Answers BY DEF Init, Answers
  <2>3. dropped \in BOOLEAN BY Zenon DEF Init
  <2>4. QED BY <2>1, <2>2, <2>3 DEF Init
<1>5. Types BY <1>1, <1>2, <1>3, <1>4 DEF Types
<1>6. QED BY <1>5 DEF Init, Typed, Unmoved

LEMMA OpenTyped == ASSUME Typed, Open PROVE Typed'
<1>1. OpenError \in Answers BY DEF OpenError, HeaderError, Answers, NoError
<1>2. DataStart(file) \in Nat BY FileType, Layout DEF Typed, Types
<1>3. dmx' \in Demuxers /\ dmx'.current <= Len(dmx'.frames) /\ answer' \in Answers
  BY <1>1, <1>2 DEF Open, Typed, Types, Demuxers
<1>4. Unmoved BY DEF Open, Typed
<1>5. Unmoved' BY <1>4 DEF Open, Unmoved, Typed, Types, Demuxers
<1>6. QED BY <1>3, <1>5 DEF Open, Typed, Types

LEMMA PushTyped == ASSUME Typed, PushDescriptor PROVE Typed'
<1> DEFINE i == Len(dmx.frames)
           d == Descriptor(file, i, dmx.offset)
<1>1. file \in Files /\ dmx \in Demuxers BY DEF Typed, Types
<1>2. i \in Nat /\ i < FrameCount(file.h) BY <1>1 DEF PushDescriptor, Demuxers
<1>3. i \in FrameIds(file) /\ FrameSamples(file.h, i) \in Nat
  <2>1. FrameCount(file.h) \in Nat /\ \A n \in Nat : FrameSamples(file.h, n) \in Nat
    BY <1>1, FileType
  <2>2. QED BY <1>2, <2>1 DEF FrameIds
<1>4. file.table[i] \in Nat BY <1>1, <1>3, FileType, Layout
<1>5. d \in Descriptors BY <1>1, <1>3, <1>4 DEF Descriptor, Descriptors, Demuxers
<1>6. dmx' = [dmx EXCEPT !.frames = Append(dmx.frames, d),
                         !.offset = dmx.offset + file.table[i]]
  BY DEF PushDescriptor
<1> HIDE DEF d
<1>7. dmx' \in Demuxers /\ dmx'.current <= Len(dmx'.frames)
  <2>1. Append(dmx.frames, d) \in Seq(Descriptors) /\ Len(Append(dmx.frames, d)) = i + 1
    BY <1>1, <1>5 DEF Demuxers
  <2>2. dmx.offset + file.table[i] \in Nat BY <1>1, <1>4 DEF Demuxers
  <2>3. dmx.current <= i BY DEF Typed, Types
  <2> HIDE DEF i
  <2>4. /\ dmx'.frames = Append(dmx.frames, d) /\ dmx'.current = dmx.current
        /\ dmx' \in Demuxers
    BY <1>1, <1>6, <2>1, <2>2 DEF Demuxers
  <2>5. QED BY <1>1, <1>2, <2>1, <2>3, <2>4 DEF Demuxers
<1>8. Unmoved BY DEF PushDescriptor, Typed
<1>9. Unmoved' BY <1>1, <1>6, <1>8 DEF PushDescriptor, Unmoved, Demuxers
<1>10. QED BY <1>7, <1>9 DEF PushDescriptor, Typed, Types

LEMMA FinishTyped == ASSUME Typed, FinishOpen PROVE Typed'
<1>1. file.tableCrc \in BOOLEAN BY FileType DEF Typed, Types, WellFormed
<1>2. /\ dmx' \in Demuxers /\ dmx'.current <= Len(dmx'.frames) /\ answer' \in Answers
      /\ dmx'.phase # "open" => dmx' = [dmx EXCEPT !.phase = "refused"]
  <2>1. dmx \in Demuxers /\ dmx.current <= Len(dmx.frames) BY DEF Typed, Types
  <2>2. answer' \in Answers BY DEF FinishOpen, Answers
  <2>3. \/ dmx' = [dmx EXCEPT !.phase = "open", !.seekable = file.tableCrc]
        \/ dmx' = [dmx EXCEPT !.phase = "refused"]
    BY DEF FinishOpen
  <2>4. QED BY <1>1, <2>1, <2>2, <2>3 DEF Demuxers
<1>3. Unmoved BY DEF FinishOpen, Typed
<1>4. dmx'.phase # "open" => Unmoved'
  BY <1>2, <1>3 DEF FinishOpen, Unmoved, Typed, Types, Demuxers
<1>5. QED BY <1>2, <1>4 DEF FinishOpen, Typed, Types

LEMMA KeptType == ASSUME emitted \in Seq(Nat) PROVE Kept \in Seq(Nat)
<1>1. CASE emitted = <<>> BY <1>1 DEF Kept
<1>2. CASE emitted # <<>> BY <1>2 DEF Kept
<1>3. QED BY <1>1, <1>2

LEMMA NextPacketTyped == ASSUME Typed, NextPacket PROVE Typed'
<1> DEFINE d == dmx.frames[dmx.current + 1]
           p == [pts |-> dmx.pts, data |-> MiniFile(d)]
<1>1. file \in Files /\ dmx \in Demuxers /\ emitted \in Seq(Nat) BY DEF Typed, Types
<1>2. CASE dmx.current >= Len(dmx.frames)
  BY <1>2 DEF NextPacket, Typed, Types, Answers
<1>3. CASE dmx.current < Len(dmx.frames)
  <2>1. d \in Descriptors BY <1>1, <1>3 DEF Demuxers
  <2>2. dmx.pts \in Nat /\ Regular \in Nat BY <1>1, FileType DEF Demuxers
  <2>3. p \in Packets BY <1>1, <2>1, <2>2, MiniFileType
  <2>4. /\ hand' = p /\ emitted' = Append(Kept, dmx.pts) /\ answer' = "Packet"
        /\ dropped' = (dropped \/ hand # None)
        /\ dmx' = [dmx EXCEPT !.current = dmx.current + 1, !.pts = dmx.pts + Regular]
        /\ sought' = None
    BY <1>1, <1>3 DEF NextPacket, Demuxers
  <2> HIDE DEF p, d
  <2>5. dmx' \in Demuxers /\ dmx'.current <= Len(dmx'.frames) /\ dmx'.phase = "open"
    <3>1. dmx.current + 1 \in Nat /\ dmx.pts + Regular \in Nat BY <1>1, <2>2 DEF Demuxers
    <3>2. /\ dmx' \in Demuxers /\ dmx'.current = dmx.current + 1
          /\ dmx'.frames = dmx.frames /\ dmx'.phase = dmx.phase
      BY <1>1, <2>4, <3>1, MoveType
    <3>3. QED BY <1>1, <1>3, <3>2 DEF Demuxers, NextPacket
  <2>6. emitted' \in Seq(Nat) BY <1>1, <2>2, <2>4, KeptType
  <2>7. QED BY <2>3, <2>4, <2>5, <2>6 DEF NextPacket, Typed, Types, Answers
<1>4. QED BY <1>1, <1>2, <1>3 DEF Demuxers

\* What a seek that is not refused needs.
LEMMA SeekAllowed ==
  ASSUME NEW i, SeekError(i) = NoError
  PROVE  dmx.seekable /\ dmx.frames # <<>> /\ Regular # 0
  BY DEF SeekError, NoError

LEMMA SeekTyped == ASSUME Typed, NEW i \in {0, 1}, NEW s \in SeekTargets, SeekTo(i, s) PROVE Typed'
<1>1. s \in Int /\ MaxSeeks \in Nat BY PlaybackAssumption
<1>2. file \in Files /\ dmx \in Demuxers /\ Regular \in Nat BY FileType DEF Typed, Types
<1>3. CASE SeekError(i) # NoError
  <2>1. SeekError(i) \in Answers BY DEF SeekError, Answers
  <2>2. QED BY <1>3, <2>1 DEF SeekTo, Typed, Types
<1>4. CASE SeekError(i) = NoError
  <2>0. dmx.frames # <<>> /\ Regular # 0 BY <1>4, SeekAllowed
  <2>1. TargetFrame(s) \in Nat /\ TargetFrame(s) < Len(dmx.frames)
    BY <1>1, <2>0, TargetFrameType DEF Typed
  <2>2. TargetFrame(s) * Regular \in Nat BY <1>2, <2>1, ProductInNat
  <2>3. /\ dmx' = [dmx EXCEPT !.current = TargetFrame(s), !.pts = TargetFrame(s) * Regular]
        /\ sought' = [target |-> s] /\ answer' = "Sought" /\ seeks' = seeks + 1
        /\ seeks < MaxSeeks /\ dmx.phase = "open"
    BY <1>4 DEF SeekTo
  <2>4. /\ dmx' \in Demuxers /\ dmx'.current <= Len(dmx'.frames) /\ dmx'.phase = "open"
    <3>1. /\ dmx' \in Demuxers /\ dmx'.current = TargetFrame(s)
          /\ dmx'.frames = dmx.frames /\ dmx'.phase = dmx.phase
      BY <1>2, <2>1, <2>2, <2>3, MoveType
    <3>2. QED BY <1>2, <2>1, <2>3, <3>1 DEF Demuxers
  <2>5. seeks' \in 0 .. MaxSeeks BY <1>1, <2>3 DEF Typed, Types
  <2>6. QED BY <1>1, <2>3, <2>4, <2>5 DEF SeekTo, Typed, Types, Answers
<1>5. QED BY <1>3, <1>4

LEMMA SendTyped == ASSUME Typed, SendPacket PROVE Typed'
<1>1. dmx.phase = "open" BY DEF SendPacket, Typed, Unmoved
<1>2. QED BY <1>1 DEF SendPacket, Typed, Types, Answers

LEMMA ReceiveTyped == ASSUME Typed, ReceiveFrame PROVE Typed'
<1> DEFINE p == tdec.pending
           f == [pts |-> p.pts, samples |-> p.data.h.total,
                 pcm |-> FrameAudio(file, PacketWindow(p), ZeroDigest)]
<1>1. CASE p = None BY <1>1 DEF ReceiveFrame, Typed, Types, Answers
<1>2. CASE p # None
  <2>1. p \in Packets /\ file \in Files BY <1>2 DEF Typed, Types
  <2>2. p.pts \in Nat /\ p.data.h.total \in Nat BY <2>1 DEF Packets, HeaderRecords
  <2>3. answered' = Append(answered, p.pts) /\ tdec' = [tdec EXCEPT !.pending = None]
    BY <1>2 DEF ReceiveFrame
  <2>4. answered' \in Seq(Nat) /\ tdec' \in [pending : Packets \cup {None}, eof : BOOLEAN]
    <3>1. answered \in Seq(Nat) /\ tdec \in [pending : Packets \cup {None}, eof : BOOLEAN]
      BY DEF Typed, Types
    <3>2. answered' \in Seq(Nat) BY <2>2, <2>3, <3>1
    <3>3. tdec' \in [pending : Packets \cup {None}, eof : BOOLEAN] BY <2>3, <3>1, Zenon
    <3>4. QED BY <3>2, <3>3
  <2>5. answer' \in Answers /\ played' \in Seq(Frames)
    <3>1. CASE Rejected(p) BY <1>2, <3>1 DEF ReceiveFrame, Answers, Typed, Types
    <3>2. CASE ~Rejected(p)
      <4>1. PacketWindow(p) \in Descriptors /\ ~Undecodable(file, PacketWindow(p))
        BY <2>1, <3>2, PacketWindowType DEF Rejected
      <4>2. FrameAudio(file, PacketWindow(p), ZeroDigest) \in Seq(Int)
        BY <2>1, <4>1, AudioType
      <4>3. f \in Frames BY <2>2, <4>2 DEF Frames
      <4>4. played' = Append(played, f) /\ answer' = "Frame"
        BY <1>2, <3>2 DEF ReceiveFrame
      <4> HIDE DEF f
      <4>5. QED BY <4>3, <4>4 DEF Answers, Typed, Types
    <3>3. QED BY <3>1, <3>2
  <2>6. QED BY <2>4, <2>5 DEF ReceiveFrame, Typed, Types
<1>3. QED BY <1>1, <1>2

LEMMA StepTyped == Typed /\ [Next]_vars => Typed'
<1> SUFFICES ASSUME Typed, [Next]_vars PROVE Typed' OBVIOUS
<1>1. CASE Open BY <1>1, OpenTyped
<1>2. CASE PushDescriptor BY <1>2, PushTyped
<1>3. CASE FinishOpen BY <1>3, FinishTyped
<1>4. CASE NextPacket BY <1>4, NextPacketTyped
<1>5. CASE SendPacket BY <1>5, SendTyped
<1>6. CASE ReceiveFrame BY <1>6, ReceiveTyped
<1>7. CASE Flush BY <1>7 DEF Flush, Typed, Types, Answers
<1>8. ASSUME NEW i \in {0, 1}, NEW s \in SeekTargets, SeekTo(i, s) PROVE Typed' BY <1>8, SeekTyped
<1>9. CASE UNCHANGED vars BY <1>9 DEF vars, Typed, Types, Unmoved
<1>10. QED BY <1>1, <1>2, <1>3, <1>4, <1>5, <1>6, <1>7, <1>8, <1>9 DEF Next

-----------------------------------------------------------------------------
(***************************************************************************)
(* Both hosts of Player only make calls that Playback allows.              *)
(***************************************************************************)
THEOREM PlayerCallsAdapters == PlayerSpec => Spec
<1>1. PlayerInit => Init BY DEF PlayerInit
<1>2. [PlayerNext]_playerVars => [Next]_vars
  <2>1. SUFFICES ASSUME [PlayerNext]_playerVars PROVE [Next]_vars OBVIOUS
  <2>2. CASE UNCHANGED playerVars BY <2>2 DEF playerVars
  <2>3. CASE FreeCall BY <2>3 DEF FreeCall
  <2>4. CASE PlayerStep
    BY <2>4 DEF PlayerStep, OpenStream, Pull, Send, Receive, FlushDecoder, Drain, Next
  <2>5. CASE Seek BY <2>5 DEF Seek, Next
  <2>6. QED BY <2>1, <2>2, <2>3, <2>4, <2>5 DEF PlayerNext
<1>3. QED BY <1>1, <1>2, PTL DEF PlayerSpec, Spec

(***************************************************************************)
(* TypeOK: the types of the adapters' state.  An open demuxer keeps the    *)
(* frames it has checked, so every packet is cut from inside the file.     *)
(***************************************************************************)
SlicesInside ==
  dmx.phase = "open" => \A j \in DOMAIN dmx.frames : Inside(dmx.frames[j])

Cut(p) == p # None => dmx.phase = "open" /\ p.data.offset + p.data.disk <= file.len

PacketsCut == Cut(hand) /\ Cut(tdec.pending)

LEMMA StepSlices == Typed /\ SlicesInside /\ [Next]_vars => SlicesInside'
<1> SUFFICES ASSUME Typed, SlicesInside, [Next]_vars PROVE SlicesInside' OBVIOUS
<1>0. dmx \in Demuxers BY DEF Typed, Types
<1>1. CASE Open BY <1>0, <1>1 DEF Open, SlicesInside, Demuxers
<1>2. CASE PushDescriptor BY <1>0, <1>2 DEF PushDescriptor, SlicesInside, Demuxers
<1>3. CASE FinishOpen
  <2>1. file' = file /\ dmx'.frames = dmx.frames BY <1>0, <1>3 DEF FinishOpen, Demuxers
  <2>2. dmx'.phase = "open" => \A j \in DOMAIN dmx.frames : Inside(dmx.frames[j])
    BY <1>0, <1>3 DEF FinishOpen, Demuxers
  <2>3. QED BY <2>1, <2>2 DEF SlicesInside, Inside
<1>4. CASE NextPacket
  <2>1. file' = file /\ dmx'.frames = dmx.frames /\ dmx'.phase = dmx.phase
    BY <1>0, <1>4 DEF NextPacket, Demuxers
  <2>2. QED BY <2>1 DEF SlicesInside, Inside
<1>5. ASSUME NEW i \in {0, 1}, NEW s \in SeekTargets, SeekTo(i, s) PROVE SlicesInside'
  <2>1. file' = file /\ dmx'.frames = dmx.frames /\ dmx'.phase = dmx.phase
    BY <1>0, <1>5 DEF SeekTo, Demuxers
  <2>2. QED BY <2>1 DEF SlicesInside, Inside
<1>6. CASE UNCHANGED <<file, dmx>> BY <1>6 DEF SlicesInside, Inside
<1>7. QED
  BY <1>1, <1>2, <1>3, <1>4, <1>5, <1>6 DEF Next, SendPacket, ReceiveFrame, Flush, vars

LEMMA StepCut == Typed /\ SlicesInside /\ PacketsCut /\ [Next]_vars => PacketsCut'
<1> SUFFICES ASSUME Typed, SlicesInside, PacketsCut, [Next]_vars PROVE PacketsCut' OBVIOUS
<1>0. /\ dmx \in Demuxers /\ tdec \in [pending : Packets \cup {None}, eof : BOOLEAN]
      /\ Cut(hand) /\ Cut(tdec.pending)
  BY DEF Typed, Types, PacketsCut
<1>1. CASE Open \/ PushDescriptor \/ FinishOpen
  <2>1. dmx.phase # "open" BY <1>1 DEF Open, PushDescriptor, FinishOpen
  <2>2. hand = None /\ tdec.pending = None BY <2>1 DEF Typed, Unmoved
  <2>3. hand' = hand /\ tdec' = tdec BY <1>1 DEF Open, PushDescriptor, FinishOpen
  <2>4. QED BY <2>2, <2>3 DEF PacketsCut, Cut
<1>2. CASE NextPacket
  <2>1. CASE dmx.current >= Len(dmx.frames)
    BY <1>0, <1>2, <2>1 DEF NextPacket, PacketsCut, Cut
  <2>2. CASE ~(dmx.current >= Len(dmx.frames))
    <3> PICK d : d = dmx.frames[dmx.current + 1] OBVIOUS
    <3>1. /\ hand' = [pts |-> dmx.pts, data |-> MiniFile(d)] /\ tdec' = tdec
          /\ file' = file /\ dmx.phase = "open" /\ dmx'.phase = dmx.phase
      BY <1>0, <1>2, <2>2 DEF NextPacket, Demuxers
    <3>2. d.offset + d.disk <= file.len
      <4>1. dmx.current + 1 \in DOMAIN dmx.frames BY <1>0, <2>2 DEF Demuxers
      <4>2. QED BY <3>1, <4>1 DEF SlicesInside, Inside
    <3>3. hand'.data.offset = d.offset /\ hand'.data.disk = d.disk BY <3>1 DEF MiniFile
    <3>4. QED BY <1>0, <3>1, <3>2, <3>3 DEF PacketsCut, Cut
  <2>3. QED BY <2>1, <2>2
<1>3. ASSUME NEW i \in {0, 1}, NEW s \in SeekTargets, SeekTo(i, s) PROVE PacketsCut'
  <2>1. /\ file' = file /\ hand' = hand /\ tdec' = tdec /\ dmx'.phase = dmx.phase
    BY <1>0, <1>3 DEF SeekTo, Demuxers
  <2>2. QED BY <1>0, <2>1 DEF PacketsCut, Cut
<1>4. CASE SendPacket
  <2>1. /\ file' = file /\ dmx' = dmx
        /\ hand' = hand \/ hand' = None
        /\ tdec' = tdec \/ tdec'.pending = hand
    BY <1>0, <1>4 DEF SendPacket
  <2>2. QED BY <1>0, <2>1 DEF PacketsCut, Cut
<1>5. CASE ReceiveFrame
  <2>1. /\ file' = file /\ dmx' = dmx /\ hand' = hand
        /\ tdec' = tdec \/ tdec'.pending = None
    BY <1>0, <1>5 DEF ReceiveFrame
  <2>2. QED BY <1>0, <2>1 DEF PacketsCut, Cut
<1>6. CASE Flush
  <2>1. /\ file' = file /\ dmx' = dmx /\ hand' = hand /\ tdec'.pending = tdec.pending
    BY <1>0, <1>6 DEF Flush
  <2>2. QED BY <1>0, <2>1 DEF PacketsCut, Cut
<1>7. CASE UNCHANGED vars BY <1>0, <1>7 DEF vars, PacketsCut, Cut
<1>8. QED BY <1>1, <1>2, <1>3, <1>4, <1>5, <1>6, <1>7 DEF Next

LEMMA TypesImplyTypeOK == ASSUME Typed, PacketsCut PROVE TypeOK
<1>1. dmx.current \in 0 .. Len(dmx.frames) BY DEF Typed, Types, Demuxers
<1>2. \A p \in {hand, tdec.pending} \ {None} :
        dmx.phase = "open" /\ p.data.offset + p.data.disk <= file.len
  BY DEF PacketsCut, Cut
<1>3. QED BY <1>1, <1>2 DEF Typed, Types, Demuxers, TypeOK

THEOREM TypeCorrect == PlayerSpec => []TypeOK
<1>1. Typed /\ PacketsCut => TypeOK BY TypesImplyTypeOK
<1>2. Init => SlicesInside /\ PacketsCut BY DEF Init, SlicesInside, PacketsCut, Cut
<1>3. Spec => []TypeOK
  BY <1>1, <1>2, InitTyped, StepTyped, StepSlices, StepCut, PTL DEF Spec
<1>4. QED BY <1>3, PlayerCallsAdapters, PTL

-----------------------------------------------------------------------------
(***************************************************************************)
(* EveryPacketAnswered: a packet moves from the demuxer's hand to the      *)
(* pending slot and from there into the answers, one place at a time.      *)
(***************************************************************************)
LEMMA HeldType == \A p \in Packets \cup {None} : Held(p) \in Seq(Nat)
<1>1. \A p \in Packets : p.pts \in Nat BY DEF Packets
<1>2. QED BY <1>1 DEF Held

LEMMA Regroup ==
  ASSUME NEW a \in Seq(Nat), NEW b \in Seq(Nat), NEW c \in Seq(Nat)
  PROVE  /\ (a \o b) \o c = a \o (b \o c)
         /\ a \o <<>> = a /\ <<>> \o a = a
         /\ \A n \in Nat : Append(a, n) = a \o <<n>>
<1>1. (a \o b) \o c = a \o (b \o c) BY ConcatAssociative, SMT
<1>2. a \o <<>> = a /\ <<>> \o a = a BY ConcatEmptySeq, Zenon
<1>3. \A n \in Nat : Append(a, n) = a \o <<n>> BY AppendIsConcat, Zenon
<1>4. QED BY <1>1, <1>2, <1>3

LEMMA DropLast ==
  ASSUME NEW a \in Seq(Nat), NEW n \in Nat
  PROVE  SubSeq(a \o <<n>>, 1, Len(a \o <<n>>) - 1) = a
<1> PICK b : b = a \o <<n>> OBVIOUS
<1>1. /\ b \in Seq(Nat) /\ Len(b) = Len(a) + 1 /\ Len(a) \in Nat
      /\ \A i \in 1 .. Len(a) : b[i] = a[i]
  OBVIOUS
<1> PICK c : c = SubSeq(b, 1, Len(a)) OBVIOUS
<1>2. c \in Seq(Nat) /\ Len(c) = Len(a) /\ \A i \in 1 .. Len(a) : c[i] = b[i] BY <1>1
<1>3. c = a BY <1>1, <1>2
<1>4. Len(b) - 1 = Len(a) BY <1>1
<1>5. QED BY <1>3, <1>4

LEMMA StepAnswered == Typed /\ EveryPacketAnswered /\ [Next]_vars => EveryPacketAnswered'
<1> SUFFICES ASSUME Typed, EveryPacketAnswered, [Next]_vars PROVE EveryPacketAnswered'
  OBVIOUS
<1>0. /\ hand \in Packets \cup {None} /\ tdec.pending \in Packets \cup {None}
      /\ tdec \in [pending : Packets \cup {None}, eof : BOOLEAN]
      /\ dmx \in Demuxers /\ answered \in Seq(Nat)
  BY DEF Typed, Types
<1>1. /\ Held(hand) \in Seq(Nat) /\ Held(tdec.pending) \in Seq(Nat)
      /\ Held(None) = <<>> /\ <<>> \in Seq(Nat)
      /\ \A p \in Packets : Held(p) = <<p.pts>>
  BY <1>0, HeldType, NotNone DEF Held
<1>2. CASE UNCHANGED <<tdec, hand, emitted, answered>>
  BY <1>2 DEF EveryPacketAnswered
<1>3. CASE NextPacket
  <2>1. CASE dmx.current >= Len(dmx.frames)
    BY <1>2, <1>3, <2>1 DEF NextPacket
  <2>2. CASE ~(dmx.current >= Len(dmx.frames))
    <3>1. /\ emitted' = Append(Kept, dmx.pts) /\ tdec' = tdec /\ answered' = answered
          /\ hand' = [pts |-> dmx.pts, data |-> MiniFile(dmx.frames[dmx.current + 1])]
      BY <1>3, <2>2 DEF NextPacket
    <3>2. hand' \in Packets
      <4>1. Typed' BY <1>3, NextPacketTyped
      <4>2. hand' # None
        <5>1. hand'.pts = dmx.pts /\ "pts" \in DOMAIN hand' BY <3>1
        <5>2. DOMAIN None = {"none"} BY DEF None
        <5>3. QED BY <5>1, <5>2
      <4>3. QED BY <4>1, <4>2 DEF Typed, Types
    <3>3. Held(hand') = <<dmx.pts>> /\ dmx.pts \in Nat BY <1>0, <1>1, <3>1, <3>2 DEF Demuxers
    <3>5. answered \o Held(tdec.pending) \in Seq(Nat) BY <1>0, <1>1
    <3>6. Kept = answered \o Held(tdec.pending)
      <4>1. CASE hand = None
        <5>1. emitted = (answered \o Held(tdec.pending)) \o <<>>
          BY <1>1, <4>1 DEF EveryPacketAnswered
        <5>2. QED BY <4>1, <5>1, <3>5, Regroup DEF Kept
      <4>2. CASE hand # None
        <5>1. Held(hand) = <<hand.pts>> /\ hand.pts \in Nat
          BY <1>0, <1>1, <4>2 DEF Packets
        <5>2. emitted = (answered \o Held(tdec.pending)) \o <<hand.pts>>
          BY <5>1 DEF EveryPacketAnswered
        <5>3. QED BY <3>5, <4>2, <5>1, <5>2, DropLast DEF Kept
      <4>3. QED BY <4>1, <4>2
    <3>7. emitted' = (answered \o Held(tdec.pending)) \o <<dmx.pts>>
      BY <1>1, <3>1, <3>3, <3>5, <3>6, Regroup
    <3>8. QED BY <3>1, <3>3, <3>7 DEF EveryPacketAnswered
  <2>3. QED BY <2>1, <2>2
<1>4. CASE SendPacket
  <2>1. CASE tdec.pending # None BY <1>2, <1>4, <2>1 DEF SendPacket
  <2>2. CASE tdec.pending = None
    <3>1. /\ tdec'.pending = hand /\ hand' = None
          /\ emitted' = emitted /\ answered' = answered
      BY <1>0, <1>4, <2>2 DEF SendPacket
    <3>2. emitted = (answered \o <<>>) \o Held(hand)
      BY <1>1, <2>2 DEF EveryPacketAnswered
    <3>3. emitted = answered \o Held(hand) BY <1>0, <1>1, <3>2, Regroup
    <3>4. answered \o Held(hand) \in Seq(Nat) BY <1>0, <1>1
    <3>5. emitted = (answered \o Held(hand)) \o <<>> BY <1>1, <3>3, <3>4, Regroup
    <3>6. QED BY <1>1, <3>1, <3>5 DEF EveryPacketAnswered
  <2>3. QED BY <2>1, <2>2
<1>5. CASE ReceiveFrame
  <2>1. CASE tdec.pending = None BY <1>2, <1>5, <2>1 DEF ReceiveFrame
  <2>2. CASE tdec.pending # None
    <3> DEFINE t == tdec.pending.pts
    <3>1. /\ tdec'.pending = None /\ hand' = hand
          /\ emitted' = emitted /\ answered' = Append(answered, t)
      BY <1>0, <1>5, <2>2 DEF ReceiveFrame
    <3>2. Held(tdec.pending) = <<t>> /\ t \in Nat BY <1>0, <1>1, <2>2 DEF Packets
    <3> HIDE DEF t
    <3>3. answered' = answered \o <<t>> /\ answered \o <<t>> \in Seq(Nat)
      BY <1>0, <1>1, <3>1, <3>2, Regroup
    <3>4. emitted' = (answered \o <<t>>) \o Held(hand)
      BY <3>1, <3>2 DEF EveryPacketAnswered
    <3>5. emitted' = ((answered \o <<t>>) \o <<>>) \o Held(hand)
      BY <1>1, <3>3, <3>4, Regroup
    <3>6. QED BY <1>1, <3>1, <3>3, <3>5 DEF EveryPacketAnswered
  <2>3. QED BY <2>1, <2>2
<1>6. CASE Flush BY <1>0, <1>6 DEF Flush, EveryPacketAnswered
<1>7. QED
  BY <1>2, <1>3, <1>4, <1>5, <1>6
  DEF Next, Open, PushDescriptor, FinishOpen, SeekTo, vars

THEOREM EveryPacketAnsweredCorrect == PlayerSpec => []EveryPacketAnswered
<1>1. Init => EveryPacketAnswered
  <2>1. Held(None) = <<>> BY DEF Held
  <2>2. (<<>> \o <<>>) \o <<>> = <<>> OBVIOUS
  <2>3. QED BY <2>1, <2>2 DEF Init, EveryPacketAnswered
<1>2. Spec => []EveryPacketAnswered BY <1>1, InitTyped, StepTyped, StepAnswered, PTL DEF Spec
<1>3. QED BY <1>2, PlayerCallsAdapters, PTL

-----------------------------------------------------------------------------
(***************************************************************************)
(* The table.  As long as the stored sizes before it were true, a window   *)
(* starts where the writer placed its frame.                               *)
(***************************************************************************)
Aligned(i) == \A w \in 0 .. i - 1 : file.table[w] = file.size[w]

\* Descriptor j speaks of frame j - 1.
Describes(j) ==
  /\ dmx.frames[j].disk = file.table[j - 1]
  /\ dmx.frames[j].samples = FrameSamples(file.h, j - 1)
  /\ Aligned(j - 1) => dmx.frames[j].offset = file.place[j - 1]

TableInv ==
  LET n == Len(dmx.frames) IN
  /\ dmx.phase = "closed" => n = 0
  /\ dmx.phase \in {"parsing", "open"} => OpenError = NoError
  /\ dmx.phase = "open" => n = FrameCount(file.h) /\ dmx.seekable = file.tableCrc
  /\ \A j \in 1 .. n : Describes(j)
  /\ dmx.phase = "parsing" /\ Aligned(n) =>
       dmx.offset = IF n = 0 THEN DataStart(file) ELSE file.place[n - 1] + file.size[n - 1]

LEMMA PushTable == ASSUME Typed, TableInv, PushDescriptor PROVE TableInv'
<1> PICK n : n = Len(dmx.frames) OBVIOUS
<1> DEFINE d == Descriptor(file, n, dmx.offset)
<1>0. file \in Files /\ dmx \in Demuxers BY DEF Typed, Types
<1>1. n \in Nat /\ n < FrameCount(file.h) /\ dmx.phase = "parsing"
  BY <1>0 DEF PushDescriptor, Demuxers
<1>2. /\ WellFormed(file) /\ FrameCount(file.h) \in Nat
      /\ \A i \in Nat : FrameSamples(file.h, i) \in Nat
  BY <1>0, FileType
<1>3. n \in FrameIds(file) BY <1>1, <1>2 DEF FrameIds
<1>4. /\ file.table[n] \in Nat /\ file.size[n] \in Nat /\ file.place[n] \in Nat
      /\ n = 0 => file.place[n] = DataStart(file)
      /\ n > 0 => file.place[n] = file.place[n - 1] + file.size[n - 1]
  BY <1>2, <1>3, Layout
<1>5. /\ d.offset = dmx.offset /\ d.disk = file.table[n]
      /\ d.samples = FrameSamples(file.h, n)
  BY DEF Descriptor
<1>6. d \in Descriptors
  BY <1>0, <1>1, <1>2, <1>4 DEF Descriptor, Descriptors, Demuxers
<1>7. /\ file' = file /\ dmx' = [dmx EXCEPT !.frames = Append(dmx.frames, d),
                                           !.offset = dmx.offset + file.table[n]]
  BY DEF PushDescriptor
<1> HIDE DEF d
<1>8. /\ dmx'.frames = Append(dmx.frames, d) /\ dmx'.offset = dmx.offset + file.table[n]
      /\ dmx'.phase = "parsing"
  BY <1>0, <1>1, <1>7 DEF Demuxers
<1>9. /\ Len(dmx'.frames) = n + 1
      /\ \A j \in 1 .. n + 1 : dmx'.frames[j] = IF j = n + 1 THEN d ELSE dmx.frames[j]
  BY <1>0, <1>6, <1>8 DEF Demuxers
<1>10. Aligned(n) => d.offset = file.place[n]
  <2>1. Aligned(n) => dmx.offset = IF n = 0 THEN DataStart(file)
                                   ELSE file.place[n - 1] + file.size[n - 1]
    BY <1>1 DEF TableInv
  <2>2. QED BY <1>1, <1>4, <1>5, <2>1
<1>11. Aligned(n + 1) => Aligned(n) /\ file.table[n] = file.size[n]
  <2>1. n \in 0 .. (n + 1) - 1 /\ \A w \in 0 .. n - 1 : w \in 0 .. (n + 1) - 1 BY <1>1
  <2>2. QED BY <2>1 DEF Aligned
<1>12. ASSUME NEW j \in 1 .. n + 1 PROVE Describes(j)'
  <2>1. CASE j = n + 1
    <3>1. dmx'.frames[j] = d /\ j - 1 = n BY <1>1, <1>9, <2>1
    <3>2. QED BY <1>5, <1>7, <1>10, <3>1 DEF Describes, Aligned
  <2>2. CASE j # n + 1
    <3>1. j \in 1 .. Len(dmx.frames) BY <1>1, <2>2
    <3>2. dmx'.frames[j] = dmx.frames[j] BY <1>9, <2>2
    <3>3. Describes(j) BY <3>1 DEF TableInv
    <3>4. QED BY <1>7, <3>2, <3>3 DEF Describes, Aligned
  <2>3. QED BY <2>1, <2>2
<1>13. Aligned(n + 1) => dmx'.offset = file.place[n] + file.size[n]
  BY <1>5, <1>8, <1>10, <1>11
<1>14. (n + 1) - 1 = n /\ n + 1 # 0 BY <1>1
<1>15. OpenError' = NoError
  <2>1. OpenError = NoError BY <1>1 DEF TableInv
  <2>2. QED BY <1>7, <2>1 DEF OpenError
<1>16. Aligned(Len(dmx.frames))' => Aligned(n + 1) BY <1>7, <1>9 DEF Aligned
<1>17. QED BY <1>7, <1>8, <1>9, <1>12, <1>13, <1>14, <1>15, <1>16 DEF TableInv

\* The table is left alone once it is parsed.
LEMMA TableKept ==
  ASSUME TableInv, file' = file, dmx'.frames = dmx.frames, dmx'.phase = dmx.phase,
         dmx'.offset = dmx.offset, dmx'.seekable = dmx.seekable
  PROVE  TableInv'
  BY DEF TableInv, Describes, Aligned, OpenError

LEMMA StepTable == Typed /\ TableInv /\ [Next]_vars => TableInv'
<1> SUFFICES ASSUME Typed, TableInv, [Next]_vars PROVE TableInv' OBVIOUS
<1>0. dmx \in Demuxers BY DEF Typed, Types
<1>1. CASE Open
  <2>1. CASE OpenError # NoError
    <3>1. file' = file /\ dmx'.frames = dmx.frames /\ dmx'.phase = "refused"
      BY <1>0, <1>1, <2>1 DEF Open, Demuxers
    <3>2. QED BY <3>1 DEF TableInv, Describes, Aligned
  <2>2. CASE OpenError = NoError
    <3>1. /\ file' = file /\ dmx'.frames = dmx.frames /\ dmx'.phase = "parsing"
          /\ dmx'.offset = DataStart(file) /\ dmx.phase = "closed"
      BY <1>0, <1>1, <2>2 DEF Open, Demuxers
    <3>2. Len(dmx.frames) = 0 BY <3>1 DEF TableInv
    <3>3. OpenError' = NoError BY <2>2, <3>1 DEF OpenError
    <3>4. QED BY <3>1, <3>2, <3>3 DEF TableInv
  <2>3. QED BY <2>1, <2>2
<1>2. CASE PushDescriptor BY <1>2, PushTable
<1>3. CASE FinishOpen
  <2>1. /\ file' = file /\ dmx'.frames = dmx.frames /\ dmx.phase = "parsing"
        /\ Len(dmx.frames) = FrameCount(file.h)
        /\ \/ dmx'.phase = "refused"
           \/ dmx'.phase = "open" /\ dmx'.seekable = file.tableCrc
    BY <1>0, <1>3 DEF FinishOpen, Demuxers
  <2>2. OpenError = NoError BY <2>1 DEF TableInv
  <2>3. OpenError' = NoError BY <2>1, <2>2 DEF OpenError
  <2>4. QED BY <2>1, <2>3 DEF TableInv, Describes, Aligned
<1>4. CASE NextPacket
  <2>1. /\ file' = file /\ dmx'.frames = dmx.frames /\ dmx'.phase = dmx.phase
        /\ dmx'.offset = dmx.offset /\ dmx'.seekable = dmx.seekable
    BY <1>0, <1>4 DEF NextPacket, Demuxers
  <2>2. QED BY <2>1, TableKept
<1>5. ASSUME NEW i \in {0, 1}, NEW s \in SeekTargets, SeekTo(i, s) PROVE TableInv'
  <2>1. /\ file' = file /\ dmx'.frames = dmx.frames /\ dmx'.phase = dmx.phase
        /\ dmx'.offset = dmx.offset /\ dmx'.seekable = dmx.seekable
    BY <1>0, <1>5 DEF SeekTo, Demuxers
  <2>2. QED BY <2>1, TableKept
<1>6. CASE UNCHANGED <<file, dmx>> BY <1>6, TableKept
<1>7. QED
  BY <1>1, <1>2, <1>3, <1>4, <1>5, <1>6 DEF Next, SendPacket, ReceiveFrame, Flush, vars

-----------------------------------------------------------------------------
(***************************************************************************)
(* SeekCovers: a seek leaves the cursor on the frame of its target, and    *)
(* nothing but the next packet moves it on.                                *)
(***************************************************************************)
Clock == dmx.pts = dmx.current * Regular

SoughtInv ==
  /\ Clock
  /\ sought # None =>
       /\ dmx.phase = "open" /\ dmx.frames # <<>> /\ Regular # 0
       /\ dmx.current = TargetFrame(sought.target)

\* The rate of a stream that opened is not zero.
LEMMA OpenRate == ASSUME file \in Files, OpenError = NoError PROVE file.h.rate > 0
<1>1. HeaderError(file.len - file.id3, file.h) = NoError BY DEF OpenError, NoError
<1>2. file.h.rate \in 1 .. MAX_SAMPLE_RATE BY <1>1 DEF HeaderError, NoError
<1>3. MAX_SAMPLE_RATE \in Nat BY SMT DEF MAX_SAMPLE_RATE
<1>4. QED BY <1>2, <1>3

LEMMA TargetCovers ==
  ASSUME Typed, TableInv, dmx.phase = "open", dmx.frames # <<>>, NEW s \in Int
  PROVE  LET k == TargetFrame(s) IN
         /\ k \in Nat /\ k < Len(dmx.frames)
         /\ s < 0 => k = 0
         /\ s >= file.h.total => k = Len(dmx.frames) - 1
         /\ s \in 0 .. file.h.total - 1 =>
              s \in k * Regular .. k * Regular + dmx.frames[k + 1].samples - 1
<1> DEFINE n == Len(dmx.frames)
           k == TargetFrame(s)
           h == file.h
           R == Regular
           last == FrameSamples(h, n - 1)
<1>1. file \in Files /\ h \in HeaderRecords /\ R \in Nat /\ h.total \in Nat
  BY FileType DEF Typed, Types
<1>2. h.rate > 0 BY <1>1, OpenRate DEF TableInv
<1>3. n = FrameCount(h) /\ n \in Nat /\ n > 0
  BY DEF TableInv, Typed, Types, Demuxers
<1>4. R > 0 BY <1>1, <1>3, GeometryTiles DEF Regular
<1>5. k \in Nat /\ k < n BY <1>4, TargetFrameType DEF Typed
<1>6. s < 0 => k = 0
  <2>1. 0 \div R = 0 BY <1>1, <1>4
  <2>2. QED BY <1>3, <2>1 DEF TargetFrame
<1>7. s \in 0 .. h.total - 1 => s \in k * R .. k * R + dmx.frames[k + 1].samples - 1
  <2> SUFFICES ASSUME s \in 0 .. h.total - 1
               PROVE  s \in k * R .. k * R + dmx.frames[k + 1].samples - 1
    OBVIOUS
  <2>1. s \in Nat /\ s < h.total BY <1>1
  <2>2. SeekFrame(h, s) < n BY <1>1, <1>2, <1>3, <2>1, SampleHasFrame
  <2>3. SeekFrame(h, s) = s \div R BY DEF SeekFrame, Regular
  <2>4. k = SeekFrame(h, s)
    <3>1. SeekFrame(h, s) \in Nat BY <1>1, <1>2, <2>1, SeekInside
    <3>2. k = IF s \div R >= n THEN n - 1 ELSE s \div R BY <2>1 DEF TargetFrame
    <3> HIDE DEF k
    <3>3. QED BY <1>3, <2>2, <2>3, <3>1, <3>2
  <2>5. /\ SeekOffset(h, s) \in Nat /\ SeekOffset(h, s) < FrameSamples(h, k)
        /\ k * R + SeekOffset(h, s) = s
    BY <1>1, <1>2, <2>1, <2>4, SeekInside DEF Regular
  <2>6. dmx.frames[k + 1].samples = FrameSamples(h, k)
    <3>1. k + 1 \in 1 .. n /\ (k + 1) - 1 = k BY <1>3, <1>5
    <3>2. QED BY <3>1 DEF TableInv, Describes
  <2>7. FrameSamples(h, k) \in Nat /\ k * R \in Nat
    BY <1>1, <1>5, FileType, ProductInNat
  <2> HIDE DEF k, R
  <2>8. QED BY <2>1, <2>5, <2>6, <2>7
<1>8. s >= h.total => k = n - 1
  <2> SUFFICES ASSUME s >= h.total PROVE k = n - 1 OBVIOUS
  <2>1. n - 1 \in Nat /\ n - 1 < FrameCount(h) /\ (n - 1) + 1 = FrameCount(h) BY <1>3
  <2>2. /\ (n - 1) * R + last = h.total /\ last \in Nat
    BY <1>1, <2>1, GeometryTiles, GeometryType DEF Regular
  <2>3. s \in Nat /\ ~(s < 0) BY <1>1
  <2>4. s \div R \in Nat /\ s % R \in Nat /\ s % R < R /\ s = R * (s \div R) + (s % R)
    BY <1>1, <1>4, <2>3, DivMod
  <2>5. k = IF s \div R >= n THEN n - 1 ELSE s \div R BY <2>3 DEF TargetFrame
  <2> DEFINE q == s \div R
             m == n - 1
  <2>6. q >= m
    <3>1. SUFFICES ASSUME q + 1 <= m PROVE FALSE BY <1>3, <2>4
    <3>2. q \in Nat /\ m \in Nat /\ m * R + last <= s /\ s < R * q + R
      BY <1>1, <2>1, <2>2, <2>4
    <3> HIDE DEF q, m, R, last
    <3>3. R * (q + 1) <= R * m BY <1>1, <3>1, <3>2
    <3>4. R * (q + 1) = R * q + R /\ R * m = m * R BY <1>1, <3>2
    <3>5. R * q \in Nat /\ m * R \in Nat BY <1>1, <3>2, ProductInNat
    <3>6. QED BY <1>1, <2>2, <2>3, <3>2, <3>3, <3>4, <3>5
  <2>7. q \in Nat BY <2>4
  <2> HIDE DEF q
  <2>8. k = IF q >= n THEN n - 1 ELSE q BY <2>5 DEF q
  <2>9. QED BY <1>3, <2>6, <2>7, <2>8
<1>9. QED BY <1>5, <1>6, <1>7, <1>8

LEMMA StepSought == Typed /\ SoughtInv /\ [Next]_vars => SoughtInv'
<1> SUFFICES ASSUME Typed, SoughtInv, [Next]_vars PROVE SoughtInv' OBVIOUS
<1>0. /\ dmx \in Demuxers /\ file \in Files /\ Regular \in Nat /\ Clock
      /\ dmx.current \in Nat /\ dmx.pts \in Nat
  BY FileType DEF Typed, Types, SoughtInv, Demuxers
<1>1. CASE Open \/ PushDescriptor \/ FinishOpen
  <2>1. dmx.phase # "open" BY <1>1 DEF Open, PushDescriptor, FinishOpen
  <2>2. sought = None BY <2>1 DEF Typed, Unmoved
  <2>3. /\ sought' = sought /\ file' = file
        /\ dmx'.current = dmx.current /\ dmx'.pts = dmx.pts
    BY <1>0, <1>1 DEF Open, PushDescriptor, FinishOpen, Demuxers
  <2>4. QED BY <1>0, <2>2, <2>3 DEF SoughtInv, Clock, Regular
<1>2. CASE NextPacket
  <2>1. CASE dmx.current >= Len(dmx.frames)
    BY <1>2, <2>1 DEF NextPacket, SoughtInv, Clock, Regular, TargetFrame
  <2>2. CASE ~(dmx.current >= Len(dmx.frames))
    <3>1. /\ sought' = None /\ file' = file
          /\ dmx'.current = dmx.current + 1 /\ dmx'.pts = dmx.pts + Regular
      BY <1>0, <1>2, <2>2 DEF NextPacket, Demuxers
    <3>2. (dmx.current + 1) * Regular = dmx.current * Regular + Regular BY <1>0
    <3>3. Regular' = Regular BY <3>1 DEF Regular
    <3>4. QED BY <1>0, <3>1, <3>2, <3>3 DEF SoughtInv, Clock
  <2>3. QED BY <2>1, <2>2
<1>3. ASSUME NEW i \in {0, 1}, NEW s \in SeekTargets, SeekTo(i, s) PROVE SoughtInv'
  <2>1. CASE SeekError(i) # NoError
    BY <1>3, <2>1 DEF SeekTo, SoughtInv, Clock, Regular, TargetFrame
  <2>2. CASE SeekError(i) = NoError
    <3>0. dmx.frames # <<>> /\ Regular # 0 BY <2>2, SeekAllowed
    <3>1. s \in Int BY PlaybackAssumption
    <3>2. TargetFrame(s) \in Nat /\ TargetFrame(s) * Regular \in Nat
      BY <1>0, <3>0, <3>1, TargetFrameType, ProductInNat DEF Typed
    <3>3. /\ sought' = [target |-> s] /\ file' = file
          /\ dmx' = [dmx EXCEPT !.current = TargetFrame(s), !.pts = TargetFrame(s) * Regular]
          /\ dmx.phase = "open"
      BY <1>3, <2>2 DEF SeekTo
    <3>4. /\ dmx'.current = TargetFrame(s) /\ dmx'.pts = TargetFrame(s) * Regular
          /\ dmx'.frames = dmx.frames /\ dmx'.phase = dmx.phase
      BY <1>0, <3>2, <3>3, MoveType
    <3>5. Regular' = Regular /\ sought'.target = s BY <3>3 DEF Regular
    <3>6. TargetFrame(s)' = TargetFrame(s) BY <3>4, <3>5 DEF TargetFrame
    <3>7. QED BY <3>0, <3>3, <3>4, <3>5, <3>6 DEF SoughtInv, Clock
  <2>3. QED BY <2>1, <2>2
<1>4. CASE UNCHANGED <<file, dmx, sought>>
  BY <1>4 DEF SoughtInv, Clock, Regular, TargetFrame
<1>5. QED
  BY <1>1, <1>2, <1>3, <1>4 DEF Next, SendPacket, ReceiveFrame, Flush, vars

LEMMA InitTable == Init => TableInv /\ SoughtInv
<1> SUFFICES ASSUME Init PROVE TableInv /\ SoughtInv OBVIOUS
<1>1. file \in Files /\ dmx.phase = "closed" /\ dmx.frames = <<>> /\ sought = None
      /\ dmx.current = 0 /\ dmx.pts = 0
  BY DEF Init
<1>2. 0 * Regular = 0 BY <1>1, FileType
<1>3. QED BY <1>1, <1>2 DEF TableInv, SoughtInv, Clock

LEMMA SoughtCovers == ASSUME Typed, TableInv, SoughtInv PROVE SeekCovers
<1> SUFFICES ASSUME sought # None PROVE SeekCovers BY DEF SeekCovers
<1>1. sought.target \in Int BY DEF Typed, Types
<1>2. /\ dmx.phase = "open" /\ dmx.frames # <<>>
      /\ dmx.current = TargetFrame(sought.target) /\ dmx.pts = dmx.current * Regular
  BY DEF SoughtInv, Clock
<1>3. QED BY <1>1, <1>2, TargetCovers DEF SeekCovers

THEOREM SeekCoversCorrect == PlayerSpec => []SeekCovers
<1>1. Typed /\ TableInv /\ SoughtInv => SeekCovers BY SoughtCovers
<1>2. Spec => []SeekCovers
  BY <1>1, InitTyped, StepTyped, InitTable, StepTable, StepSought, PTL DEF Spec
<1>3. QED BY <1>2, PlayerCallsAdapters, PTL

-----------------------------------------------------------------------------
(***************************************************************************)
(* FrameAtItsTime.  A packet holds one frame of the table under its pts;   *)
(* without a seek the packets come in the order of the table, so as long   *)
(* as none was dropped or rejected every stored size up to the next one    *)
(* was true.                                                               *)
(***************************************************************************)
Packet(p, k) == p.pts = k * Regular /\ p.data = MiniFile(dmx.frames[k + 1])

Nth(p, n) ==
  \E k \in 0 .. Len(dmx.frames) - 1 : Packet(p, k) /\ (~dmx.seekable /\ ~dropped => k = n)

PacketInv ==
  /\ hand # None => Nth(hand, dmx.current - 1)
  /\ tdec.pending # None => Nth(tdec.pending, Len(answered))
  /\ ~dmx.seekable /\ ~dropped => Len(emitted) = dmx.current

Faithful == ~Forged(file) /\ NothingSkipped

PlayedInv ==
  /\ Len(played) <= Len(answered)
  /\ ~dmx.seekable /\ NothingSkipped => Aligned(Len(answered))
  /\ \A n \in DOMAIN played :
       TrueBefore(played[n].pts) \/ Faithful => AtItsTime(played[n])

PlayInv == Typed /\ TableInv /\ Clock /\ EveryPacketAnswered /\ PacketInv /\ PlayedInv

\* A packet the decoder accepts from an aligned window is the frame of its pts.
LEMMA PacketAudio ==
  ASSUME Typed, TableInv, dmx.phase = "open", NEW k \in 0 .. Len(dmx.frames) - 1,
         NEW p \in Packets, Packet(p, k), Aligned(k), ~Rejected(p)
  PROVE  /\ Aligned(k + 1)
         /\ AtItsTime([pts |-> p.pts, samples |-> p.data.h.total,
                       pcm |-> FrameAudio(file, PacketWindow(p), ZeroDigest)])
<1> DEFINE d == dmx.frames[k + 1]
           w == PacketWindow(p)
           h == file.h
           M == Matching(file, w)
           n == FrameSamples(h, k)
<1>0. /\ file \in Files /\ h \in HeaderRecords /\ Nch \in Nat /\ Regular \in Nat
      /\ WellFormed(file) /\ dmx \in Demuxers
  BY FileType DEF Typed, Types
<1>1. Len(dmx.frames) = FrameCount(h) /\ k \in FrameIds(file) /\ k \in Nat
  <2>1. Len(dmx.frames) = FrameCount(h) BY DEF TableInv
  <2>2. QED BY <2>1 DEF FrameIds
<1>2. k + 1 \in 1 .. Len(dmx.frames) /\ (k + 1) - 1 = k BY <1>0 DEF Demuxers
<1>3. d.disk = file.table[k] /\ d.samples = n /\ d.offset = file.place[k]
  BY <1>2 DEF TableInv, Describes
<1>4. p.data.h = [h EXCEPT !.total = n] /\ p.data.offset = d.offset /\ p.data.disk = d.disk
  BY <1>3 DEF Packet, MiniFile
<1>5. n \in Nat BY <1>0, <1>1, FileType
<1>6. p.data.h \in HeaderRecords /\ p.data.h.total = n /\ p.data.h.format = h.format
  BY <1>0, <1>4, <1>5 DEF HeaderRecords
<1>7. FrameCount(p.data.h) = 1 BY DEF Rejected
<1>8. LastFrameSamples(p.data.h) = n
  <2>1. 0 * RegularFrameSamples(p.data.h) + FrameSamples(p.data.h, 0) = n
    BY <1>6, <1>7, GeometryTiles
  <2>2. /\ FrameSamples(p.data.h, 0) = LastFrameSamples(p.data.h)
        /\ RegularFrameSamples(p.data.h) \in Nat /\ LastFrameSamples(p.data.h) \in Nat
    BY <1>6, <1>7, GeometryType DEF FrameSamples
  <2>3. QED BY <2>1, <2>2
<1>9. w.offset = file.place[k] /\ w.disk = file.table[k] /\ w.samples = n
  BY <1>3, <1>4, <1>8 DEF PacketWindow
<1>10. M # {} BY DEF Rejected, Undecodable
<1> HIDE DEF w
<1>11. \A v \in M : v = k /\ file.size[k] = file.table[k]
  <2>1. SUFFICES ASSUME NEW v \in M PROVE v = k /\ file.size[k] = file.table[k] OBVIOUS
  <2>2. v \in FrameIds(file) /\ file.place[v] = file.place[k] /\ file.size[v] = file.table[k]
    BY <1>9 DEF Matching
  <2>3. v = k BY <1>0, <1>1, <2>2, PlacesDiffer
  <2>4. QED BY <2>2, <2>3
<1>12. Aligned(k + 1)
  <2>1. \A v \in 0 .. (k + 1) - 1 : v = k \/ v \in 0 .. k - 1 BY <1>1
  <2>2. QED BY <1>10, <1>11, <2>1 DEF Aligned
<1>13. (CHOOSE v \in M : TRUE) = k BY <1>10, <1>11
<1>14. ZeroDigest = file.key
  <2>1. OpenError = NoError BY DEF TableInv
  <2>2. HeaderError(file.len - file.id3, h) = NoError BY <2>1 DEF OpenError, NoError
  <2>3. h.format \in {1, 2} BY <2>2 DEF HeaderError, NoError
  <2>4. h.format = 1 BY <1>6, <2>3 DEF Rejected
  <2>5. QED BY <1>0, <2>4 DEF WellFormed
<1> HIDE DEF M
<1>15. FrameAudio(file, w, ZeroDigest) =
         Entries(k * (Regular * Nch), k * (Regular * Nch) + n * Nch)
  BY <1>9, <1>13, <1>14 DEF FrameAudio, Regular, Nch, M
<1>16. p.pts = k * Regular /\ k * Regular \in Nat BY <1>0, <1>1, ProductInNat DEF Packet
<1> HIDE DEF n
<1>17. k * (Regular * Nch) = p.pts * Nch /\ (p.pts + n) * Nch = k * (Regular * Nch) + n * Nch
  <2>1. k * (Regular * Nch) = (k * Regular) * Nch BY <1>0, <1>1
  <2>2. (p.pts + n) * Nch = p.pts * Nch + n * Nch BY <1>0, <1>5, <1>16
  <2>3. QED BY <1>16, <2>1, <2>2
<1>18. FrameAudio(file, w, ZeroDigest) = Entries(p.pts * Nch, (p.pts + n) * Nch)
  BY <1>15, <1>17
<1>19. QED BY <1>6, <1>12, <1>18 DEF AtItsTime, w

\* Every size before the packet's pts is one before its frame.
LEMMA TrueAligned ==
  ASSUME Typed, TableInv, dmx.phase = "open", NEW k \in 0 .. Len(dmx.frames) - 1,
         NEW t, t = k * Regular, TrueBefore(t)
  PROVE  Aligned(k)
<1>1. /\ file \in Files /\ file.h \in HeaderRecords /\ Regular \in Nat
      /\ FrameCount(file.h) \in Nat /\ file.h.rate > 0
  BY FileType, OpenRate DEF Typed, Types, TableInv
<1>2. Len(dmx.frames) = FrameCount(file.h) /\ FrameCount(file.h) > 0
  <2>1. Len(dmx.frames) = FrameCount(file.h) BY DEF TableInv
  <2>2. QED BY <1>1, <2>1
<1>3. Regular > 0 BY <1>1, <1>2, GeometryTiles DEF Regular
<1>4. ASSUME NEW w \in 0 .. k - 1 PROVE file.table[w] = file.size[w]
  <2>1. w \in FrameIds(file) BY <1>1, <1>2 DEF FrameIds
  <2>2. w * Regular < k * Regular
    <3> PICK R : R = Regular OBVIOUS
    <3>1. w \in Nat /\ k \in Nat /\ R \in Nat /\ R > 0 /\ w + 1 <= k BY <1>1, <1>2, <1>3
    <3>2. \A x, y, z \in Nat : x <= y => x * z <= y * z OBVIOUS
    <3>3. (w + 1) * R <= k * R /\ (w + 1) * R = w * R + R BY <3>1, <3>2
    <3>4. w * R \in Nat /\ k * R \in Nat BY <3>1, ProductInNat
    <3>5. QED BY <3>1, <3>3, <3>4
  <2>3. QED BY <2>1, <2>2 DEF TrueBefore
<1>5. QED BY <1>4 DEF Aligned

LEMMA ReceivePlays ==
  ASSUME PlayInv, ReceiveFrame PROVE PlayedInv'
<1> PICK p : p = tdec.pending OBVIOUS
<1>0. /\ Typed /\ TableInv /\ PacketInv /\ PlayedInv
      /\ file' = file /\ dmx' = dmx /\ dmx.phase = "open"
      /\ answered \in Seq(Nat) /\ played \in Seq(Frames)
  BY DEF PlayInv, Typed, Types, ReceiveFrame
<1>1. CASE p = None
  <2>1. answered' = answered /\ played' = played /\ dropped' = dropped
    BY <1>1 DEF ReceiveFrame
  <2>2. QED BY <1>0, <2>1
    DEF PlayedInv, Faithful, NothingSkipped, TrueBefore, Aligned, AtItsTime, Nch, Regular, Forged,
        TableIntact
<1>2. CASE p # None
  <2>1. p \in Packets BY <1>0, <1>2 DEF Typed, Types
  <2>2. answered' = Append(answered, p.pts) /\ p.pts \in Nat /\ dropped' = dropped
    BY <1>2, <2>1 DEF ReceiveFrame, Packets
  <2>3. Len(answered') = Len(answered) + 1 /\ Len(answered) \in Nat /\ Len(played) \in Nat
    BY <1>0, <2>2
  <2>4. CASE Rejected(p)
    <3>1. played' = played BY <1>2, <2>4 DEF ReceiveFrame
    <3>2. Len(played') < Len(answered') BY <1>0, <2>3, <3>1 DEF PlayedInv
    <3>3. ~NothingSkipped' /\ ~Faithful' BY <2>3, <3>2 DEF NothingSkipped, Faithful
    <3>4. \A n \in DOMAIN played :
            /\ AtItsTime(played[n])' <=> AtItsTime(played[n])
            /\ TrueBefore(played[n].pts)' <=> TrueBefore(played[n].pts)
      BY <1>0, <3>1 DEF AtItsTime, TrueBefore, Nch, Regular
    <3>5. QED BY <1>0, <2>3, <3>1, <3>2, <3>3, <3>4 DEF PlayedInv
  <2>5. CASE ~Rejected(p)
    <3> DEFINE f == [pts |-> p.pts, samples |-> p.data.h.total,
                     pcm |-> FrameAudio(file, PacketWindow(p), ZeroDigest)]
    <3>1. played' = Append(played, f) BY <1>2, <2>5 DEF ReceiveFrame
    <3>2. f \in Frames
      <4>1. PacketWindow(p) \in Descriptors /\ ~Undecodable(file, PacketWindow(p))
        BY <1>0, <2>1, <2>5, PacketWindowType DEF Rejected, Typed, Types
      <4>2. FrameAudio(file, PacketWindow(p), ZeroDigest) \in Seq(Int)
        BY <1>0, <4>1, AudioType DEF Typed, Types
      <4>3. QED BY <2>1, <4>2 DEF Frames, Packets, HeaderRecords
    <3>3. PICK k \in 0 .. Len(dmx.frames) - 1 :
            Packet(p, k) /\ (~dmx.seekable /\ ~dropped => k = Len(answered))
      BY <1>0, <1>2 DEF PacketInv, Nth
    <3>4. Aligned(k) => Aligned(k + 1) /\ AtItsTime(f)
      BY <1>0, <2>1, <2>5, <3>3, PacketAudio
    <3> HIDE DEF f
    <3>5. /\ Len(played') = Len(played) + 1 /\ DOMAIN played' = 1 .. Len(played) + 1
          /\ \A n \in 1 .. Len(played) + 1 :
               played'[n] = IF n = Len(played) + 1 THEN f ELSE played[n]
      BY <1>0, <3>1, <3>2
    <3>6. Len(played') <= Len(answered') BY <1>0, <2>3, <3>5 DEF PlayedInv
    <3>7. NothingSkipped' => NothingSkipped /\ ~dropped
      BY <2>2, <2>3, <3>5 DEF NothingSkipped
    <3>8. ~dmx.seekable /\ NothingSkipped' => Aligned(Len(answered) + 1)
      BY <1>0, <3>3, <3>4, <3>7 DEF PlayedInv
    <3>9. Faithful' => Faithful BY <1>0, <3>7 DEF Faithful, TableIntact, Forged
    <3>10. TrueBefore(p.pts) \/ Faithful => Aligned(k)
      <4>1. CASE TrueBefore(p.pts)
        <5>1. p.pts = k * Regular BY <3>3 DEF Packet
        <5>2. QED BY <1>0, <4>1, <5>1, TrueAligned
      <4>2. CASE TableIntact(file) BY <4>2 DEF TableIntact, Aligned
      <4>3. CASE ~TableIntact(file) /\ Faithful
        <5>1. ~dmx.seekable /\ NothingSkipped
          BY <1>0, <4>3 DEF Faithful, Forged, TableInv
        <5>2. ~dropped BY <5>1 DEF NothingSkipped
        <5>3. QED BY <1>0, <3>3, <5>1, <5>2 DEF PlayedInv
      <4>4. QED BY <4>1, <4>2, <4>3
    <3>11. f.pts = p.pts BY DEF f
    <3>12. ASSUME NEW n \in 1 .. Len(played) + 1,
                  TrueBefore(played'[n].pts) \/ Faithful
           PROVE  AtItsTime(played'[n])
      <4>1. CASE n = Len(played) + 1 BY <3>4, <3>5, <3>10, <3>11, <3>12, <4>1
      <4>2. CASE n # Len(played) + 1
        <5>1. n \in DOMAIN played BY <1>0, <2>3, <4>2
        <5>2. played'[n] = played[n] BY <3>5, <4>2
        <5>3. QED BY <1>0, <3>12, <5>1, <5>2 DEF PlayedInv
      <4>3. QED BY <4>1, <4>2
    <3>13. (~dmx.seekable /\ NothingSkipped => Aligned(Len(answered)))'
      BY <1>0, <2>3, <3>8 DEF Aligned
    <3>14. (\A n \in DOMAIN played :
              TrueBefore(played[n].pts) \/ Faithful => AtItsTime(played[n]))'
      <4>1. \A n \in DOMAIN played' :
              TrueBefore(played'[n].pts) \/ Faithful => AtItsTime(played'[n])
        BY <3>5, <3>12
      <4>2. QED BY <1>0, <3>9, <4>1 DEF AtItsTime, TrueBefore, Nch, Regular
    <3>15. QED BY <3>6, <3>13, <3>14 DEF PlayedInv
  <2>6. QED BY <2>4, <2>5
<1>3. QED BY <1>1, <1>2

\* Packets stay what they are while the table does.
LEMMA PacketsKept ==
  ASSUME file' = file, dmx'.frames = dmx.frames, dmx'.seekable = dmx.seekable,
         ~dropped' => ~dropped, NEW p, NEW n, Nth(p, n)
  PROVE  Nth(p, n)'
  BY DEF Nth, Packet, MiniFile, Regular

LEMMA StepPacket == PlayInv /\ [Next]_vars => PacketInv'
<1> SUFFICES ASSUME PlayInv, [Next]_vars PROVE PacketInv' OBVIOUS
<1>0. /\ Typed /\ TableInv /\ Clock /\ EveryPacketAnswered /\ PacketInv
      /\ dmx \in Demuxers /\ file \in Files
      /\ tdec \in [pending : Packets \cup {None}, eof : BOOLEAN]
      /\ emitted \in Seq(Nat) /\ answered \in Seq(Nat)
      /\ hand \in Packets \cup {None}
  BY DEF PlayInv, Typed, Types
<1>1. CASE Open \/ PushDescriptor
  <2>1. dmx.phase # "open" BY <1>1 DEF Open, PushDescriptor
  <2>2. Unmoved BY <1>0, <2>1 DEF Typed
  <2>3. /\ hand' = hand /\ tdec' = tdec /\ emitted' = emitted
        /\ dmx'.current = dmx.current
    BY <1>0, <1>1 DEF Open, PushDescriptor, Demuxers
  <2>4. QED BY <2>2, <2>3 DEF Unmoved, PacketInv
<1>2. CASE FinishOpen
  <2>1. Unmoved BY <1>0, <1>2 DEF Typed, FinishOpen
  <2>2. /\ hand' = hand /\ tdec' = tdec /\ emitted' = emitted
        /\ dmx'.current = dmx.current
    BY <1>0, <1>2 DEF FinishOpen, Demuxers
  <2>3. QED BY <2>1, <2>2 DEF Unmoved, PacketInv
<1>3. CASE NextPacket
  <2>1. CASE dmx.current >= Len(dmx.frames)
    <3>1. UNCHANGED <<file, dmx, hand, tdec, answered, emitted, dropped>>
      BY <1>3, <2>1 DEF NextPacket
    <3>2. QED BY <1>0, <3>1, PacketsKept DEF PacketInv
  <2>2. CASE ~(dmx.current >= Len(dmx.frames))
    <3> PICK k : k = dmx.current OBVIOUS
    <3>1. k \in 0 .. Len(dmx.frames) - 1 BY <1>0, <2>2 DEF Demuxers
    <3>2. /\ hand' = [pts |-> dmx.pts, data |-> MiniFile(dmx.frames[k + 1])]
          /\ emitted' = Append(Kept, dmx.pts) /\ dropped' = (dropped \/ hand # None)
          /\ tdec' = tdec /\ answered' = answered
          /\ file' = file
          /\ dmx'.current = k + 1 /\ dmx'.frames = dmx.frames /\ dmx'.seekable = dmx.seekable
      BY <1>0, <1>3, <2>2 DEF NextPacket, Demuxers
    <3> PICK p : p = hand' OBVIOUS
    <3>3. Packet(p, k)
      <4>1. dmx.pts = k * Regular BY <1>0 DEF Clock
      <4>2. QED BY <3>2, <4>1 DEF Packet
    <3>4. Nth(p, k) BY <3>1, <3>3 DEF Nth
    <3>5. Nth(hand, dmx.current - 1)'
      <4>1. dmx'.current - 1 = k BY <3>1, <3>2
      <4>2. Nth(p, k)' BY <3>2, <3>4, PacketsKept
      <4>3. QED BY <4>1, <4>2 DEF Nth, Packet
    <3>6. tdec'.pending # None => Nth(tdec.pending, Len(answered))'
      BY <1>0, <3>2, PacketsKept DEF PacketInv
    <3>7. ~dmx'.seekable /\ ~dropped' => Len(emitted') = dmx'.current
      <4> SUFFICES ASSUME ~dmx'.seekable, ~dropped' PROVE Len(emitted') = dmx'.current
        OBVIOUS
      <4>1. dmx.pts \in Nat BY <1>0 DEF Demuxers
      <4>2. hand = None /\ ~dropped /\ ~dmx.seekable BY <3>2
      <4>3. Len(emitted') = Len(emitted) + 1 BY <1>0, <3>2, <4>1, <4>2 DEF Kept
      <4>4. QED BY <1>0, <3>2, <4>2, <4>3 DEF PacketInv
    <3>8. QED BY <3>2, <3>5, <3>6, <3>7 DEF PacketInv, Nth, Packet, MiniFile, Regular
  <2>3. QED BY <2>1, <2>2
<1>4. ASSUME NEW i \in {0, 1}, NEW s \in SeekTargets, SeekTo(i, s) PROVE PacketInv'
  <2>1. CASE SeekError(i) # NoError
    <3>1. UNCHANGED <<file, dmx, hand, tdec, answered, emitted, dropped>>
      BY <1>4, <2>1 DEF SeekTo
    <3>2. QED BY <1>0, <3>1, PacketsKept DEF PacketInv
  <2>2. CASE SeekError(i) = NoError
    <3>1. /\ file' = file /\ hand' = hand /\ tdec' = tdec /\ answered' = answered
          /\ dmx'.frames = dmx.frames /\ dmx'.seekable = dmx.seekable /\ dmx.seekable
      BY <1>0, <1>4, <2>2, SeekAllowed DEF SeekTo, Demuxers
    <3>2. ASSUME NEW p, NEW n, NEW m, Nth(p, n) PROVE Nth(p, m)'
      BY <3>1, <3>2 DEF Nth, Packet, MiniFile, Regular
    <3>3. QED BY <1>0, <3>1, <3>2 DEF PacketInv, Nth, Packet, MiniFile, Regular
  <2>3. QED BY <2>1, <2>2
<1>5. CASE SendPacket
  <2>1. CASE tdec.pending # None
    <3>1. UNCHANGED <<file, dmx, hand, tdec, answered, emitted, dropped>>
      BY <1>5, <2>1 DEF SendPacket
    <3>2. QED BY <1>0, <3>1, PacketsKept DEF PacketInv
  <2>2. CASE tdec.pending = None
    <3>1. /\ tdec'.pending = hand /\ hand' = None /\ hand # None
          /\ UNCHANGED <<file, dmx, answered, emitted, dropped>>
      BY <1>0, <1>5, <2>2 DEF SendPacket
    <3>2. Nth(hand, dmx.current - 1) BY <1>0, <3>1 DEF PacketInv
    <3>3. ~dmx.seekable /\ ~dropped => dmx.current - 1 = Len(answered)
      <4>1. hand \in Packets /\ Held(hand) = <<hand.pts>> /\ Held(tdec.pending) = <<>>
        BY <1>0, <2>2, <3>1 DEF Held
      <4>2. hand.pts \in Nat BY <4>1 DEF Packets
      <4>3. emitted = (answered \o <<>>) \o <<hand.pts>>
        BY <1>0, <4>1 DEF EveryPacketAnswered
      <4>4. Len(emitted) = Len(answered) + 1 BY <1>0, <4>2, <4>3
      <4>5. QED BY <1>0, <4>4 DEF PacketInv, Demuxers
    <3>4. Nth(hand, Len(answered)) BY <3>2, <3>3 DEF Nth
    <3>5. (tdec.pending # None => Nth(tdec.pending, Len(answered)))'
      BY <3>1, <3>4 DEF Nth, Packet, MiniFile, Regular
    <3>6. QED BY <1>0, <3>1, <3>5 DEF PacketInv
  <2>3. QED BY <2>1, <2>2
<1>6. CASE ReceiveFrame
  <2>1. UNCHANGED <<file, dmx, hand, emitted, dropped>> BY <1>6 DEF ReceiveFrame
  <2>2. hand # None => Nth(hand, dmx.current - 1)' BY <1>0, <2>1, PacketsKept DEF PacketInv
  <2>3. (tdec.pending # None => Nth(tdec.pending, Len(answered)))'
    <3>1. CASE tdec.pending = None
      <4>1. tdec' = tdec BY <1>6, <3>1 DEF ReceiveFrame
      <4>2. QED BY <3>1, <4>1
    <3>2. CASE tdec.pending # None
      <4>1. tdec'.pending = None BY <1>0, <1>6, <3>2 DEF ReceiveFrame
      <4>2. QED BY <4>1
    <3>3. QED BY <3>1, <3>2
  <2>4. QED BY <1>0, <2>1, <2>2, <2>3 DEF PacketInv
<1>7. CASE Flush
  <2>1. UNCHANGED <<file, dmx, hand, answered, emitted, dropped>> /\ tdec'.pending = tdec.pending
    BY <1>0, <1>7 DEF Flush
  <2>2. QED BY <1>0, <2>1, PacketsKept DEF PacketInv
<1>8. CASE UNCHANGED vars BY <1>0, <1>8, PacketsKept DEF PacketInv, vars
<1>9. QED BY <1>1, <1>2, <1>3, <1>4, <1>5, <1>6, <1>7, <1>8 DEF Next

LEMMA StepPlayed == PlayInv /\ [Next]_vars => PlayedInv'
<1> SUFFICES ASSUME PlayInv, [Next]_vars PROVE PlayedInv' OBVIOUS
<1>0. Typed /\ PlayedInv /\ dmx \in Demuxers BY DEF PlayInv, Typed, Types
<1>1. CASE ReceiveFrame BY <1>1, ReceivePlays
<1>2. CASE ~ReceiveFrame
  <2>1. UNCHANGED <<file, answered, played>>
    BY <1>2 DEF Next, Open, PushDescriptor, FinishOpen, NextPacket, SendPacket, Flush,
                SeekTo, vars
  <2>0. ~dropped' => ~dropped
    BY <1>2 DEF Next, Open, PushDescriptor, FinishOpen, NextPacket, SendPacket, Flush,
                SeekTo, vars
  <2>2. ~dmx'.seekable => ~dmx.seekable \/ answered = <<>>
    <3>1. CASE Open \/ PushDescriptor \/ FinishOpen
      <4>1. dmx.phase # "open" BY <3>1 DEF Open, PushDescriptor, FinishOpen
      <4>2. QED BY <1>0, <4>1 DEF Typed, Unmoved
    <3>2. CASE NextPacket BY <1>0, <3>2 DEF NextPacket, Demuxers
    <3>3. ASSUME NEW i \in {0, 1}, NEW s \in SeekTargets, SeekTo(i, s) PROVE dmx'.seekable = dmx.seekable
      BY <1>0, <3>3 DEF SeekTo, Demuxers
    <3>4. CASE UNCHANGED dmx BY <3>4
    <3>5. QED BY <1>2, <3>1, <3>2, <3>3, <3>4 DEF Next, SendPacket, Flush, vars
  <2>3. answered = <<>> => Aligned(Len(answered)) BY DEF Aligned
  <2>4. (NothingSkipped' => NothingSkipped) /\ (Faithful' => Faithful)
    BY <2>0, <2>1 DEF Faithful, NothingSkipped, TableIntact, Forged
  <2>5. Aligned(Len(answered))' <=> Aligned(Len(answered)) BY <2>1 DEF Aligned
  <2>6. \A n \in DOMAIN played :
          /\ AtItsTime(played[n])' <=> AtItsTime(played[n])
          /\ TrueBefore(played[n].pts)' <=> TrueBefore(played[n].pts)
    BY <2>1 DEF AtItsTime, TrueBefore, Nch, Regular
  <2>7. QED BY <1>0, <2>1, <2>2, <2>3, <2>4, <2>5, <2>6 DEF PlayedInv
<1>3. QED BY <1>1, <1>2

LEMMA InitPlay == Init => PlayInv
<1> SUFFICES ASSUME Init PROVE PlayInv OBVIOUS
<1>1. Typed /\ TableInv /\ Clock BY InitTyped, InitTable DEF SoughtInv
<1>2. /\ hand = None /\ tdec.pending = None /\ dmx.current = 0
      /\ emitted = <<>> /\ answered = <<>> /\ played = <<>>
  BY DEF Init
<1>3. EveryPacketAnswered
  <2>1. Held(None) = <<>> BY DEF Held
  <2>2. (<<>> \o <<>>) \o <<>> = <<>> OBVIOUS
  <2>3. QED BY <1>2, <2>1, <2>2 DEF EveryPacketAnswered
<1>4. PacketInv BY <1>2 DEF PacketInv
<1>5. PlayedInv BY <1>2 DEF PlayedInv, Aligned
<1>6. QED BY <1>1, <1>3, <1>4, <1>5 DEF PlayInv

LEMMA StepClock == ASSUME PlayInv, [Next]_vars PROVE Clock'
<1>0. /\ dmx \in Demuxers /\ Regular \in Nat /\ Clock /\ Typed
      /\ dmx.current \in Nat /\ dmx.pts \in Nat
  BY FileType DEF PlayInv, Typed, Types, Demuxers
<1>1. CASE NextPacket
  <2>1. \/ UNCHANGED <<file, dmx>>
        \/ /\ file' = file /\ dmx'.current = dmx.current + 1 /\ dmx'.pts = dmx.pts + Regular
    BY <1>0, <1>1 DEF NextPacket, Demuxers
  <2>2. (dmx.current + 1) * Regular = dmx.current * Regular + Regular BY <1>0
  <2>3. Regular' = Regular BY <2>1 DEF Regular
  <2>4. QED BY <1>0, <2>1, <2>2, <2>3 DEF Clock
<1>2. ASSUME NEW i \in {0, 1}, NEW s \in SeekTargets, SeekTo(i, s) PROVE Clock'
  <2>1. \/ UNCHANGED <<file, dmx>>
        \/ /\ file' = file /\ dmx'.current = TargetFrame(s)
           /\ dmx'.pts = TargetFrame(s) * Regular
    BY <1>0, <1>2 DEF SeekTo, Demuxers
  <2>2. QED BY <1>0, <2>1 DEF Clock, Regular
<1>3. CASE Open \/ PushDescriptor \/ FinishOpen
  <2>1. file' = file /\ dmx'.current = dmx.current /\ dmx'.pts = dmx.pts
    BY <1>0, <1>3 DEF Open, PushDescriptor, FinishOpen, Demuxers
  <2>2. QED BY <1>0, <2>1 DEF Clock, Regular
<1>4. CASE UNCHANGED <<file, dmx>> BY <1>0, <1>4 DEF Clock, Regular
<1>5. QED BY <1>1, <1>2, <1>3, <1>4 DEF Next, SendPacket, ReceiveFrame, Flush, vars

LEMMA StepPlay == PlayInv /\ [Next]_vars => PlayInv'
<1> SUFFICES ASSUME PlayInv, [Next]_vars PROVE PlayInv' OBVIOUS
<1>1. Typed' /\ TableInv' /\ EveryPacketAnswered'
  BY StepTyped, StepTable, StepAnswered DEF PlayInv
<1>2. QED BY <1>1, StepClock, StepPacket, StepPlayed DEF PlayInv

THEOREM FrameAtItsTimeCorrect == PlayerSpec => []FrameAtItsTime
<1>1. PlayInv => FrameAtItsTime BY DEF PlayInv, PlayedInv, Faithful, FrameAtItsTime
<1>2. Spec => []FrameAtItsTime BY <1>1, InitPlay, StepPlay, PTL DEF Spec
<1>3. QED BY <1>2, PlayerCallsAdapters, PTL

-----------------------------------------------------------------------------
(***************************************************************************)
(* OnlyDamageRejects: the header build_single_frame_file writes describes  *)
(* one frame of the samples its descriptor gives, so a sound frame passes  *)
(* every check of receive_frame.                                           *)
(***************************************************************************)
LEMMA FramesHold ==
  ASSUME NEW h \in HeaderRecords, NEW i \in Nat, i < FrameCount(h)
  PROVE  FrameSamples(h, i) > 0
<1> DEFINE R == RegularFrameSamples(h)
<1>1. R \in Nat /\ R > 0 /\ h.total \in Nat
  BY GeometryTiles, GeometryType DEF HeaderRecords
<1>2. h.total # 0
  <2>1. SUFFICES ASSUME h.total = 0 PROVE FALSE OBVIOUS
  <2>2. FrameCount(h) = 0 BY <2>1 DEF FrameCount, FrameGeometry
  <2>3. QED BY <2>2
<1>3. h.total % R \in Nat BY <1>1, DivMod
<1>4. LastFrameSamples(h) > 0
  <2>1. LastFrameSamples(h) = IF h.total % R = 0 THEN R ELSE h.total % R
    BY <1>1, <1>2 DEF LastFrameSamples, FrameGeometry
  <2> HIDE DEF R
  <2>2. QED BY <1>1, <1>3, <2>1
<1>5. QED BY <1>1, <1>4 DEF FrameSamples

LEMMA OneFrame ==
  ASSUME NEW h \in HeaderRecords, NEW n \in Nat, 0 < n, n <= RegularFrameSamples(h)
  PROVE  LET g == [h EXCEPT !.total = n] IN FrameCount(g) = 1 /\ LastFrameSamples(g) = n
<1> PICK g : g = [h EXCEPT !.total = n] OBVIOUS
<1> PICK R : R = RegularFrameSamples(h) OBVIOUS
<1>1. g.total = n /\ RegularFrameSamples(g) = R /\ R \in Nat /\ R > 0
  <2>1. g.total = n /\ g.rate = h.rate BY DEF HeaderRecords
  <2>2. QED BY <2>1, GeometryType DEF RegularFrameSamples
<1>2. CASE n = R
  <2>1. n % R = 0 /\ n \div R = 1
    <3>1. n = R * 1 + 0 BY <1>1, <1>2
    <3>2. QED BY <1>1, <3>1, DivOf, ModOf
  <2>2. QED BY <1>1, <1>2, <2>1 DEF FrameCount, LastFrameSamples, FrameGeometry
<1>3. CASE n < R
  <2>1. n % R = n /\ n \div R = 0
    <3>1. n = R * 0 + n BY <1>1
    <3>2. QED BY <1>1, <1>3, <3>1, DivOf, ModOf
  <2>2. QED BY <1>1, <2>1 DEF FrameCount, LastFrameSamples, FrameGeometry
<1>4. QED BY <1>1, <1>2, <1>3

\* A sound frame's packet passes.
LEMMA SoundAccepted ==
  ASSUME Typed, TableInv, dmx.phase = "open", NEW k \in 0 .. Len(dmx.frames) - 1,
         NEW p \in Packets, Packet(p, k), TableIntact(file), file.h.format = 1,
         file.h.bps \in {16, 24}, Rejected(p)
  PROVE  k \in FrameIds(file) /\ Damaged(file, k)
<1> DEFINE d == dmx.frames[k + 1]
           w == PacketWindow(p)
           h == file.h
           n == FrameSamples(h, k)
<1>1. /\ file \in Files /\ h \in HeaderRecords /\ Nch \in Nat
      /\ WellFormed(file) /\ dmx \in Demuxers
  BY FileType DEF Typed, Types
<1>2. Len(dmx.frames) = FrameCount(h) /\ FrameCount(h) \in Nat BY <1>1, FileType DEF TableInv
<1>3. k \in FrameIds(file) /\ k \in Nat /\ k < FrameCount(h) BY <1>2 DEF FrameIds
<1>4. k + 1 \in 1 .. Len(dmx.frames) /\ (k + 1) - 1 = k BY <1>2
<1>5. Aligned(k) BY DEF TableIntact, Aligned
<1>6. d.disk = file.size[k] /\ d.samples = n /\ d.offset = file.place[k]
  BY <1>4, <1>5 DEF TableInv, Describes, TableIntact
<1>7. n \in Nat /\ 0 < n /\ n <= RegularFrameSamples(h)
  BY <1>1, <1>3, FramesHold, GeometryTiles, GeometryType
<1>8. p.data.h = [h EXCEPT !.total = n] /\ p.data.offset = d.offset /\ p.data.disk = d.disk
  BY <1>6 DEF Packet, MiniFile
<1>9. FrameCount(p.data.h) = 1 /\ LastFrameSamples(p.data.h) = n BY <1>1, <1>7, <1>8, OneFrame
<1>10. p.data.h.format = 1 /\ p.data.h.bps = h.bps BY <1>1, <1>8 DEF HeaderRecords
<1>11. h.bps = ExpectedBps BY DEF ExpectedBps
<1>12. w.offset = file.place[k] /\ w.disk = file.size[k] /\ w.samples = n
  BY <1>6, <1>8, <1>9 DEF PacketWindow
<1>13. Undecodable(file, w) BY <1>9, <1>10, <1>11 DEF Rejected
<1>14. k \in Matching(file, w) BY <1>3, <1>12 DEF Matching
<1>15. /\ file.size[k] \in Nat /\ file.size[k] > 4
       /\ n * h.channels <= 8 * (file.size[k] - 4)
  BY <1>1, <1>3, Layout DEF WellFormed
<1>16. \/ file.place[k] + file.size[k] > file.len
       \/ \A v \in Matching(file, w) : v \in file.bad \/ FrameSamples(h, v) < n
  <2>1. ~(w.disk < 4) BY <1>12, <1>15
  <2>2. ~(w.samples * h.channels > 8 * (w.disk - 4))
    <3> PICK x : x = n * h.channels OBVIOUS
    <3>1. x \in Nat BY <1>1, <1>7, ProductInNat DEF HeaderRecords
    <3>2. w.samples * h.channels = x /\ w.disk = file.size[k] BY <1>12
    <3>3. QED BY <1>15, <3>1, <3>2
  <2> HIDE DEF w, n
  <2>3. QED BY <1>12, <1>13, <2>1, <2>2 DEF Undecodable
<1>17. ~(FrameSamples(h, k) < n) BY <1>7
<1>18. file.place[k] + file.size[k] > file.len \/ k \in file.bad BY <1>14, <1>16, <1>17
<1>19. QED BY <1>3, <1>18 DEF Damaged

RejectedInv ==
  TableIntact(file) /\ file.h.format = 1 /\ file.h.bps \in {16, 24} /\ answer = "Invalid" =>
    /\ Regular \in Nat /\ Regular > 0
    /\ \E k \in FrameIds(file) :
         answered[Len(answered)] = k * Regular /\ Damaged(file, k)

LEMMA StepRejected == PlayInv /\ RejectedInv /\ [Next]_vars => RejectedInv'
<1> SUFFICES ASSUME PlayInv, RejectedInv, [Next]_vars PROVE RejectedInv' OBVIOUS
<1>0. /\ Typed /\ TableInv /\ PacketInv /\ dmx \in Demuxers
      /\ tdec.pending \in Packets \cup {None} /\ answered \in Seq(Nat)
  BY DEF PlayInv, Typed, Types
<1>1. ASSUME file' = file, answered' = answered, answer' = "Invalid" => answer = "Invalid"
      PROVE  RejectedInv'
  BY <1>1 DEF RejectedInv, TableIntact, Damaged, Regular
<1>2. CASE ReceiveFrame
  <2> PICK p : p = tdec.pending OBVIOUS
  <2>1. CASE p # None /\ Rejected(p)
    <3>1. p \in Packets BY <1>0, <2>1
    <3>2. /\ file' = file /\ dmx.phase = "open" /\ answered' = Append(answered, p.pts)
      BY <1>2, <2>1 DEF ReceiveFrame
    <3>3. PICK k \in 0 .. Len(dmx.frames) - 1 : Packet(p, k)
      BY <1>0, <2>1 DEF PacketInv, Nth
    <3>4. answered'[Len(answered')] = k * Regular
      <4>1. p.pts = k * Regular /\ p.pts \in Nat BY <3>1, <3>3 DEF Packet, Packets
      <4>2. QED BY <1>0, <3>2, <4>1
    <3>5. Regular \in Nat /\ Regular > 0
      <4>1. /\ file \in Files /\ file.h \in HeaderRecords /\ Regular \in Nat
            /\ Len(dmx.frames) = FrameCount(file.h)
        BY <1>0, <3>2, FileType DEF Typed, Types, TableInv
      <4>2. k \in Nat /\ k < FrameCount(file.h) BY <4>1, FileType
      <4>3. QED BY <4>1, <4>2, GeometryTiles DEF Regular
    <3>6. TableIntact(file) /\ file.h.format = 1 /\ file.h.bps \in {16, 24} =>
            k \in FrameIds(file) /\ Damaged(file, k)
      BY <1>0, <2>1, <3>1, <3>2, <3>3, SoundAccepted
    <3>7. Regular' = Regular BY <3>2 DEF Regular
    <3>8. QED BY <3>2, <3>4, <3>5, <3>6, <3>7 DEF RejectedInv, TableIntact, Damaged
  <2>2. CASE p # None /\ ~Rejected(p)
    <3>1. answer' = "Frame" BY <1>2, <2>2 DEF ReceiveFrame
    <3>2. QED BY <3>1 DEF RejectedInv
  <2>3. CASE p = None
    <3>1. answer' \in {"Eof", "NeedMore"} BY <1>2, <2>3 DEF ReceiveFrame
    <3>2. QED BY <3>1 DEF RejectedInv
  <2>4. QED BY <2>1, <2>2, <2>3
<1>3. CASE Open
  <2>1. OpenError # "Invalid" BY DEF OpenError, HeaderError, NoError
  <2>2. QED BY <1>1, <1>3, <2>1 DEF Open
<1>4. CASE PushDescriptor BY <1>1, <1>4 DEF PushDescriptor
<1>5. CASE FinishOpen BY <1>1, <1>5 DEF FinishOpen, NoError
<1>6. CASE NextPacket BY <1>1, <1>6 DEF NextPacket
<1>7. CASE SendPacket BY <1>1, <1>7 DEF SendPacket
<1>8. CASE Flush BY <1>1, <1>8 DEF Flush
<1>9. ASSUME NEW i \in {0, 1}, NEW s \in SeekTargets, SeekTo(i, s) PROVE RejectedInv'
  <2>1. SeekError(i) # "Invalid" BY DEF SeekError, NoError
  <2>2. QED BY <1>1, <1>9, <2>1 DEF SeekTo
<1>10. CASE UNCHANGED vars BY <1>1, <1>10 DEF vars
<1>11. QED
  BY <1>2, <1>3, <1>4, <1>5, <1>6, <1>7, <1>8, <1>9, <1>10 DEF Next

LEMMA RejectedOnlyDamage == RejectedInv /\ Typed => OnlyDamageRejects
<1> SUFFICES ASSUME RejectedInv, Typed,
                    TableIntact(file), file.h.format = 1, file.h.bps \in {16, 24},
                    answer = "Invalid"
             PROVE  Damaged(file, answered[Len(answered)] \div Regular)
  BY DEF OnlyDamageRejects
<1>1. PICK k \in FrameIds(file) :
        answered[Len(answered)] = k * Regular /\ Damaged(file, k)
  BY DEF RejectedInv
<1>2. Regular \in Nat /\ Regular > 0 BY DEF RejectedInv
<1>3. k \in Nat BY FileType DEF Typed, Types, FrameIds
<1>4. (k * Regular) \div Regular = k
  <2> PICK R : R = Regular OBVIOUS
  <2>1. k * R = k * R + 0 /\ k * R \in Nat BY <1>2, <1>3, ProductInNat
  <2>2. (k * R) \div R = k BY <1>2, <1>3, <2>1, DivOf
  <2>3. QED BY <2>2
<1>5. QED BY <1>1, <1>4

THEOREM OnlyDamageRejectsCorrect == PlayerSpec => []OnlyDamageRejects
<1>1. RejectedInv /\ Typed => OnlyDamageRejects BY RejectedOnlyDamage
<1>2. Init => RejectedInv BY DEF Init, RejectedInv
<1>3. PlayInv => Typed BY DEF PlayInv
<1>4. Spec => []OnlyDamageRejects
  BY <1>1, <1>2, <1>3, InitPlay, StepPlay, StepRejected, PTL DEF Spec
<1>5. QED BY <1>4, PlayerCallsAdapters, PTL
=============================================================================
