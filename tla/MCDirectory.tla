---------------------------- MODULE MCDirectory ----------------------------
(* Finite instance of Directory for TLC. *)
EXTENDS Directory, TLC

Symmetry == Permutations(Tablets) \cup Permutations(Points)
=============================================================================
