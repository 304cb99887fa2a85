----------------------------- MODULE MCVp9Tiles -----------------------------
(* Instances of Vp9Tiles for TLC. *)
EXTENDS Vp9Tiles

=============================================================================
