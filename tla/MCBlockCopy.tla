---------------------------- MODULE MCBlockCopy ----------------------------
(* Vectors of 4 bytes, arms of 1, 2 and 4, rep movsb from 18 bytes on.     *)
EXTENDS BlockCopy

CONSTANT MaxLen

(* Every byte is told apart from every other: it starts as its address.    *)
MCByte == 0..Size
MCWidths == {1, 2, 4}

CopyInit ==
  /\ mem = [a \in Cells |-> a + 1] /\ old = mem
  /\ n \in 0..MaxLen /\ room \in 0..MaxRoom
  /\ src \in 0..(Size - n) /\ dst \in 0..(Size - n - room)
  /\ pc = "ladder" /\ i = 0 /\ head = Empty /\ tail = Empty
=============================================================================
