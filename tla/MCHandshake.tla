----------------------------- MODULE MCHandshake -----------------------------
(* Handshake on small instances.  Indices and workers are interchangeable. *)
EXTENDS Handshake, TLC

IndexSymmetry == Permutations(Index) \cup Permutations(Worker)

=============================================================================
