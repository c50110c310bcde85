------------------------------ MODULE Bitmap ------------------------------
(***************************************************************************)
(* Bitmaps as sets of bit positions, runs of equal bits in them, and the   *)
(* answer of the searches of changes 256 and 262, as their reference.c     *)
(* computes it bit by bit.                                                 *)
(***************************************************************************)
EXTENDS Integers

CONSTANT Byte     \* bits in a byte: 8

ASSUME ByteAssumption == Byte \in Nat \ {0}

NotFound == -1

(* The bits that a call looks for, in a bitmap of so many bits.            *)
Wanted(bits, want, size) == {i \in 0..(size - 1) : (i \in bits) = (want = "set")}

(* The n bits from i on belong to S.                                       *)
Run(S, i, n) == i..(i + n - 1) \subseteq S

Lowest(S) == CHOOSE i \in S : \A j \in S : i <= j

(* The first run of n bits of S at or after lo.                            *)
Scan(S, lo, n) ==
  LET starts == {i \in S : i >= lo /\ Run(S, i, n)}
  IN  IF starts = {} THEN NotFound ELSE Lowest(starts)

(* A hint at or past the end is no hint.                                   *)
HintOf(call) == IF call.hint >= call.size THEN 0 ELSE call.hint

(* No bits at all are found at the hint, rounded down to a byte.           *)
AtHint(call) == HintOf(call) - (HintOf(call) % Byte)

(* From the hint to the end, and then from the beginning: a run across the *)
(* point where the search turns round does not count.                      *)
Search(S, call) ==
  IF call.null THEN NotFound
  ELSE IF call.num = 0 THEN AtHint(call)
  ELSE IF call.num > call.size THEN NotFound
  ELSE LET first == Scan(S, HintOf(call), call.num)
       IN  IF first # NotFound THEN first ELSE Scan(S, 0, call.num)

(* What a call that writes leaves: the bits it found are inverted.         *)
Flipped(bits, want, lo, hi) ==
  IF want = "set" THEN bits \ (lo..(hi - 1)) ELSE bits \union (lo..(hi - 1))

After(bits, call, answer) ==
  IF call.write /\ answer # NotFound
  THEN Flipped(bits, call.want, answer, answer + call.num)
  ELSE bits
=============================================================================
