------------------------------ MODULE MCArrays ------------------------------
(* Small instances of Arrays for TLC. *)
EXTENDS Arrays, TLC

ItemSymmetry == Permutations(Items)
=============================================================================
