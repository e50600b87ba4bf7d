------------------------------- MODULE Player -------------------------------
(***************************************************************************)
(* The two hosts that drive the adapters of Playback.  One calls them in   *)
(* any order.  The other is a player: it pulls a packet, sends it, asks    *)
(* for its frame and goes on after a rejected one, flushes at the end of   *)
(* the stream and asks until the decoder says Eof                          *)
(* (fuzz_targets/registry_decode.rs); whoever listens may seek between two *)
(* packets or after the end, and it plays on from there                    *)
(* (fuzz_targets/demuxer.rs).                                              *)
(***************************************************************************)
EXTENDS Playback

VARIABLES
  step,     \* "free" for the first host, what the player does next otherwise
  from      \* history: the frame the player started from, or was sent to last

playerVars == <<vars, step, from>>

PlayerInit == Init /\ step \in {"free", "open"} /\ from = 0

FreeCall == step = "free" /\ Next /\ UNCHANGED <<step, from>>

OpenStream ==
  /\ step = "open" /\ (Open \/ PushDescriptor \/ FinishOpen)
  /\ step' = CASE dmx'.phase = "open" -> "pull"
               [] dmx'.phase = "refused" -> "closed"
               [] OTHER -> "open"
  /\ UNCHANGED from

Pull ==
  /\ step = "pull" /\ NextPacket
  /\ step' = IF answer' = "Packet" THEN "send" ELSE "flush"
  /\ UNCHANGED from

\* A packet refused as Busy would be sent again; with one in hand none is.
Send ==
  /\ step = "send" /\ SendPacket
  /\ step' = IF answer' = "Ok" THEN "receive" ELSE "send"
  /\ UNCHANGED from

\* A rejected packet is no reason to stop.
Receive ==
  /\ step = "receive" /\ ReceiveFrame
  /\ step' = "pull"
  /\ UNCHANGED from

FlushDecoder == step = "flush" /\ Flush /\ step' = "last" /\ UNCHANGED from

Drain ==
  /\ step = "last" /\ ReceiveFrame
  /\ step' = IF answer' = "Eof" THEN "done" ELSE "last"
  /\ UNCHANGED from

Seek ==
  /\ step \in {"pull", "done"}
  /\ \E pts \in SeekTargets : SeekTo(0, pts)
  /\ step' = IF answer' = "Sought" THEN "pull" ELSE step
  /\ from' = IF answer' = "Sought" THEN dmx'.current ELSE from

PlayerStep ==
  OpenStream \/ Pull \/ Send \/ Receive \/ FlushDecoder \/ Drain

PlayerNext == FreeCall \/ PlayerStep \/ Seek

\* The player's loop runs on by itself; nobody has to seek, or to call freely.
PlayerSpec == PlayerInit /\ [][PlayerNext]_playerVars /\ WF_playerVars(PlayerStep)

-----------------------------------------------------------------------------
(***************************************************************************)
(* PlaysToTheEnd: once nobody seeks any more the player comes to the end:  *)
(* every frame from the one it was sent to has been answered for, in       *)
(* order, played or rejected, and the decoder says Eof.  The flush at an   *)
(* earlier end does not swallow the packets after a seek back              *)
(* (registry.rs:117-155, fuzz_targets/registry_decode.rs:179-192).         *)
(***************************************************************************)
PlayedFrom ==
  LET n    == Len(dmx.frames) - from
      rest == SubSeq(answered, Len(answered) - n + 1, Len(answered))
  IN  n >= 0 /\ rest = [j \in 1 .. n |-> (from + j - 1) * Regular]

PlaysToTheEnd == <>[](step \in {"free", "closed"} \/ (step = "done" /\ PlayedFrom))
=============================================================================
