----------------------------- MODULE MCInitOnce -----------------------------
(* Instances of InitOnce for TLC. *)
EXTENDS InitOnce, TLC

ThreadSymmetry == Permutations(Threads)

=============================================================================
