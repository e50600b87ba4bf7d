---------------------------- MODULE MCFrameCodec ----------------------------
(***************************************************************************)
(* Bytes of 8 bits, words of 8: long mono frames for the trackers and the  *)
(* LMS history, short ones in two frames for the reset, two and three      *)
(* channels for the decorrelation.                                         *)
(***************************************************************************)
EXTENDS Trace

CONSTANT LongRows

\* The ends of the word, the ends of the depth, and values between.
MonoSamples == {LeastInt, 0, 2^(Depth - 1) - 1, 100}
FewSamples == {LeastInt, -3, 0, 2^(Depth - 1) - 1, 2^(W - 1) - 1}

RowsOf(nch, n, S) == [1 .. n -> [0 .. nch - 1 -> S]]

\* TLC works a definition of its own out once, a constant's at every use.
ShortStreams ==
  [nch : {1}, frames : {<<f>> : f \in RowsOf(1, LongRows, MonoSamples)}]
    \cup [nch : {1}, frames : RowsOf(1, 2, FewSamples) \X RowsOf(1, 1, FewSamples)]
    \cup [nch : {2}, frames : {<<f>> : f \in RowsOf(2, 2, FewSamples)}]
    \cup [nch : {3}, frames : {<<f>> : f \in RowsOf(3, 1, FewSamples)}]
MCStreams == ShortStreams

NoPassword == [i \in Taps |-> 0]
Digest == [i \in Taps |-> IF i % 2 = 0 THEN 3 ELSE -7]
MCPrimings == {NoPassword, Digest}
MCDxMags == <<1, 2, 2, 4>>
=============================================================================
