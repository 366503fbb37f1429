---------------------------- MODULE MCRingBuffer ----------------------------
(* RingBuffer on a small instance. *)
EXTENDS RingBuffer, TLC

Symmetry == Permutations(Thread) \cup Permutations(Value)

=============================================================================
