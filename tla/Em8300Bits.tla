------------------------------ MODULE Em8300Bits ------------------------------
(***************************************************************************)
(* The operator & of C, on words of 16 bits, as wide as a register of the   *)
(* card.                                                                    *)
(***************************************************************************)
EXTENDS Integers

LargestWord == 65535
Words == 0 .. LargestWord

\* Of a pair of words: the lowest bit of both, and the rest of both shifted
\* down.
And[p \in Words \X Words] ==
  IF p[1] = 0 THEN 0
  ELSE 2 * And[<<p[1] \div 2, p[2] \div 2>>] + (p[1] % 2) * (p[2] % 2)

\* A power of two shares no bit with the number before it.
PowerOfTwo(n) == n # 0 /\ And[<<n, n - 1>>] = 0
===============================================================================
