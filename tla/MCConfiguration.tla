--------------------------- MODULE MCConfiguration ---------------------------
(***************************************************************************)
(* Configuration for model checking.                                       *)
(***************************************************************************)
EXTENDS Configuration, TLC

\* Connections are alike, and so are the public keys that are not weak.
Symmetry == Permutations(Connection) \cup Permutations(Key \ Weak)
=============================================================================
