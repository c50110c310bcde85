------------------------------- MODULE Bytes -------------------------------
(* Memory is a function from addresses to bytes.  A load takes a block of  *)
(* it into a register, a store puts a register back.                       *)
EXTENDS Integers

(* The w bytes at address a.                                               *)
LoadAt(m, a, w) == [j \in 0..(w - 1) |-> m[a + j]]

(* Memory m with the w bytes of v at address a.                            *)
StoreAt(m, a, w, v) ==
  [x \in DOMAIN m |-> IF a <= x /\ x < a + w THEN v[x - a] ELSE m[x]]

(* What a memmove of n bytes leaves: all of them are read before any of    *)
(* them is written, however source and destination overlap.                *)
Moved(m, dst, src, n) == StoreAt(m, dst, n, LoadAt(m, src, n))
=============================================================================
