----------------------------- MODULE MCRegistry -----------------------------
(***************************************************************************)
(* The reading and the writing half of src/registry.rs.  They share no     *)
(* state: a behaviour is of one half, and the other rests in an initial    *)
(* state.  Reading is Playback and Player over streams of up to 3 frames   *)
(* of 2 samples, with room behind the frames for a tag, so that displaced  *)
(* windows stay inside the file.  Writing is EncoderAdapter.               *)
(***************************************************************************)
EXTENDS Player, EncoderAdapter

CONSTANTS
  Totals,       \* per-channel sample counts
  Kinds         \* channels, format and bits per sample of a stream

VARIABLE side   \* the half this behaviour is of

registryVars == <<playerVars, encoderVars, side>>

AnyKinds == {<<1, 1, 16>>, <<2, 1, 24>>, <<1, 2, 16>>}
HealthyKinds == {<<1, 1, 16>>, <<1, 1, 20>>, <<1, 1, 24>>}
MCDigests == {"zero"}
MCTargets == {-1, 1, 2, 5, 7}

Hdr(total, nch, format, bps) ==
  [magic |-> TRUE, crc |-> TRUE, format |-> format, channels |-> nch, bps |-> bps,
   rate |-> 2, total |-> total]

FrameSize == 5
Healthy(h, tail) ==
  LET frames == 0 .. FrameCount(h) - 1
      start  == HEADER_LEN + SeekTableLen(h)
      sizes  == [w \in frames |-> FrameSize]
  IN  [h |-> h, id3 |-> 0, size |-> sizes, table |-> sizes,
       place |-> [w \in frames |-> start + w * FrameSize], bad |-> {},
       tableCrc |-> TRUE, len |-> start + FrameCount(h) * FrameSize + tail, key |-> "zero"]

\* A frame's bytes, the table's CRC, one of its entries (with a CRC that fails
\* or one computed anew), or the file's end.
Mishaps(f) ==
  {[f EXCEPT !.bad = {w}] : w \in FrameIds(f)}
  \cup {[f EXCEPT !.tableCrc = FALSE]}
  \cup {[f EXCEPT !.tableCrc = FALSE, !.table[w] = s] :
          w \in FrameIds(f), s \in {0, 3, 2 * FrameSize, 1000}}
  \cup {[f EXCEPT !.table[w] = 2 * FrameSize] : w \in FrameIds(f)}
  \cup {[f EXCEPT !.len = n] : n \in {HEADER_LEN - 1, DataStart(f) - 1, f.len - 1}}

MCFiles ==
  LET healthy == {Healthy(Hdr(t, k[1], k[2], k[3]), tail) :
                    t \in Totals, k \in Kinds, tail \in {0, FrameSize}}
  IN  healthy \cup UNION {Mishaps(f) : f \in {g \in healthy : g.h.format = 1}}

-----------------------------------------------------------------------------
SomeFile == CHOOSE f \in Files : TRUE

RegistryInit ==
  /\ PlayerInit /\ EncoderInit
  /\ side \in {"reading", "writing"}
  /\ side = "writing" => file = SomeFile /\ step = "free"

Reading == side = "reading" /\ PlayerNext /\ UNCHANGED <<encoderVars, side>>
PlayerStepReading == side = "reading" /\ PlayerStep /\ UNCHANGED <<encoderVars, side>>
Writing == side = "writing" /\ EncoderNext /\ UNCHANGED <<playerVars, side>>

RegistryNext == Reading \/ Writing

RegistrySpec ==
  RegistryInit /\ [][RegistryNext]_registryVars /\ WF_registryVars(PlayerStepReading)
=============================================================================
