---------------------------- MODULE MCTaskStorage ----------------------------
(* TaskStorage for TLC: additions are alike. *)
EXTENDS TaskStorage, TLC

Symmetry == Permutations(Adds)
=============================================================================
