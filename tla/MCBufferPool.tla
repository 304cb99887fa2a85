---------------------------- MODULE MCBufferPool ----------------------------
(* Instances of BufferPool for TLC. *)
EXTENDS BufferPool, TLC

(* Pools and data are interchangeable, threads are not: one is Decoder.    *)
MemorySymmetry == Permutations(Pools) \cup Permutations(Data)

=============================================================================
