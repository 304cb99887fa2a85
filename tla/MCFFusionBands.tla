--------------------------- MODULE MCFFusionBands ---------------------------
(* Instances of FFusionBands for TLC.  The streams are short but hold all  *)
(* that the flush test and the decoder tell apart: two groups of pictures, *)
(* droppable frames between reference frames, and a damaged packet.        *)
EXTENDS FFusionBands, TLC

StreamKeys      == {0, 3}
StreamDroppable == {1, 4}
NoFrames        == {}
DamagedPackets  == {3}
All420          == [f \in Frame |-> "YUV420P"]
TenBit          == [f \in Frame |-> "YUV420P10LE"]

RecordSymmetry == Permutations(Records)

=============================================================================
