-------------------------------- MODULE MCOpen --------------------------------
(* Small instances of Em8300Open for TLC. *)
EXTENDS Em8300Open, TLC

\* The processes run the same code, and the blocks are alike.
Symmetry == Permutations(Procs) \cup Permutations(Blocks)
===============================================================================
