--------------------------- MODULE MCFFusionCodec ---------------------------
(* Instances of FFusionCodec for TLC.  Frames 0 and 1 are both key frames: *)
(* a stream that starts at 0 flushes the decoder on its first decode, one  *)
(* entered at 1 does not.                                                  *)
EXTENDS FFusionCodec, TLC

StreamKeys      == {0, 1, 4}
StreamDroppable == {2}
NoFrames        == {}

All420          == [f \in Frame |-> "YUV420P"]
All422          == [f \in Frame |-> "YUV422P"]

RecordSymmetry == Permutations(Records)

=============================================================================
