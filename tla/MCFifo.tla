-------------------------------- MODULE MCFifo --------------------------------
(* Small instances of Em8300Fifo for TLC. *)
EXTENDS Em8300Fifo, TLC

\* The writers run the same code.
Symmetry == Permutations(Writers)

\* Of every write the second chunk cannot be read, and the others can.
SecondChunks == Writers \X (1 .. MaxCalls) \X {2}
===============================================================================
