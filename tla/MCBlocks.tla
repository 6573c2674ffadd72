------------------------------ MODULE MCBlocks ------------------------------
(* Small instances of Blocks for TLC. *)
EXTENDS Blocks, TLC

Symmetry == Permutations(Tokens)
=============================================================================
