----------------------------- MODULE MCAtomArray -----------------------------
(* Small instances of AtomArray for TLC. *)
EXTENDS AtomArray, TLC

GoroutineSymmetry == Permutations(Goroutines)
=============================================================================
