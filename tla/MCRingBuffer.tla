---------------------------- MODULE MCRingBuffer ----------------------------
(* Instances of RingBuffer for TLC. Threads of one kind are interchangeable. *)
EXTENDS RingBuffer, TLC

Symmetry == Permutations(Producers)

=============================================================================
