----------------------------- MODULE MCBandsTask -----------------------------
(* The instance of BandsTask for TLC, with the stream of MCFFusionBands.   *)
EXTENDS BandsTask

StreamKeys      == {0, 3}
StreamDroppable == {1, 4}
NoFrames        == {}
All420          == [f \in Frame |-> "YUV420P"]

=============================================================================
