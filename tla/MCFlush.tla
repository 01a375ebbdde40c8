------------------------------- MODULE MCFlush -------------------------------
(* Small instances of Em8300Flush for TLC. *)
EXTENDS Em8300Flush, TLC

\* Of every write the second chunk cannot be read, and the others can.
SecondChunks == Writers \X (1 .. MaxCalls) \X {2}
===============================================================================
