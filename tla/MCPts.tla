-------------------------------- MODULE MCPts --------------------------------
(* Small instances of Em8300Pts for TLC. *)
EXTENDS Em8300Pts
===============================================================================
