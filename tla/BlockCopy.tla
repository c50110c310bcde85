----------------------------- MODULE BlockCopy -----------------------------
(***************************************************************************)
(* The body of change 296, RtlCopyUnicodeString: the size ladder that      *)
(* copies n bytes with the widest loads and stores that fit, forwards or   *)
(* backwards, and the wide NUL after them.  Source and destination may     *)
(* overlap in any way; registers are loaded and stored in the order of the *)
(* assembly, for every store may hit bytes that a later load still needs.  *)
(***************************************************************************)
EXTENDS Bytes

CONSTANTS
  Size,      \* addresses are 0..(Size - 1)
  Byte,      \* the values of a byte
  Zero,      \* the byte a NUL is made of
  W,         \* bytes in a vector register: 32
  Widths,    \* widths of the arms below two vectors: 1, 2, 4, 8, 16, 32
  Erms,      \* from this length on rep movsb does the copy: 2560
  MaxRoom    \* bound on MaximumLength - n

Cells == 0..(Size - 1)

ASSUME SizeAssumption == Size \in Nat /\ Zero \in Byte /\ MaxRoom \in Nat
ASSUME WidthsAssumption ==
  /\ W \in Nat \ {0} /\ Widths \subseteq Nat \ {0}
  /\ \A k \in 1..(2 * W - 1) : \E w \in Widths : w <= k /\ k < 2 * w
ASSUME ErmsAssumption == Erms \in Nat /\ Erms >= 2 * W

VARIABLES
  mem,            \* address -> byte
  old,            \* ghost: the memory the call found
  src, dst, n,    \* the two buffers, and the bytes to copy
  room,           \* MaximumLength - n, computed before the copy
  pc, i,          \* the arm that is running, and its index
  head, tail      \* the blocks held in registers

inputs == <<old, src, dst, n, room>>
vars == <<mem, inputs, pc, i, head, tail>>

Empty == LoadAt(<<>>, 0, 0)

(* The caller's buffers: n readable bytes, and n + room writable ones.     *)
Init ==
  /\ mem \in [Cells -> Byte] /\ old = mem
  /\ n \in Nat /\ room \in 0..MaxRoom
  /\ src \in Cells /\ src + n <= Size
  /\ dst \in Cells /\ dst + n + room <= Size
  /\ pc = "ladder" /\ i = 0 /\ head = Empty /\ tail = Empty

(* The width of the arm for n bytes: two of them, overlapping, cover n.    *)
WidthFor(k) == CHOOSE w \in Widths : w <= k /\ k < 2 * w

(* The destination lies inside the source: the unsigned dst - src < n.     *)
Inside == src <= dst /\ dst < src + n

(* No more than two vectors: every load is done before any store.          *)
Small ==
  /\ pc = "ladder" /\ n < 2 * W
  /\ mem' = IF n = 0 THEN mem
            ELSE LET w == WidthFor(n)
                     first == LoadAt(mem, src, w)
                     last  == LoadAt(mem, src + n - w, w)
                 IN  StoreAt(StoreAt(mem, dst, w, first), dst + n - w, w, last)
  /\ pc' = "nul"
  /\ UNCHANGED <<inputs, i, head, tail>>

(* Forwards in blocks of two vectors, from the first aligned destination;  *)
(* head and tail are loaded before the loop and stored after it.           *)
StartForward ==
  /\ pc = "ladder" /\ n >= 2 * W /\ n < Erms /\ ~Inside
  /\ head' = LoadAt(mem, src, W)
  /\ tail' = LoadAt(mem, src + n - 2 * W, 2 * W)
  /\ i' = (-dst) % W
  /\ pc' = "forward"
  /\ UNCHANGED <<mem, inputs>>

(* Mutant of ForwardBlock: a block is copied when one vector is left.      *)
ForwardBlockTooFar ==
  /\ pc = "forward" /\ i <= n - W
  /\ mem' = StoreAt(mem, dst + i, 2 * W, LoadAt(mem, src + i, 2 * W))
  /\ i' = i + 2 * W
  /\ UNCHANGED <<inputs, pc, head, tail>>

(* The loop: one block of two vectors.                                     *)
ForwardBlock ==
  /\ pc = "forward" /\ i <= n - 2 * W
  /\ mem' = StoreAt(mem, dst + i, 2 * W, LoadAt(mem, src + i, 2 * W))
  /\ i' = i + 2 * W
  /\ UNCHANGED <<inputs, pc, head, tail>>

(* Mutant of EndForward: the tail is loaded after the loop.                *)
EndForwardLate ==
  /\ pc = "forward" /\ i > n - 2 * W
  /\ mem' = StoreAt(StoreAt(mem, dst + n - 2 * W, 2 * W, LoadAt(mem, src + n - 2 * W, 2 * W)),
                    dst, W, head)
  /\ pc' = "nul"
  /\ UNCHANGED <<inputs, i, head, tail>>

(* fwd_tail: the tail and then the head go from the registers to memory.   *)
EndForward ==
  /\ pc = "forward" /\ i > n - 2 * W
  /\ mem' = StoreAt(StoreAt(mem, dst + n - 2 * W, 2 * W, tail), dst, W, head)
  /\ pc' = "nul"
  /\ UNCHANGED <<inputs, i, head, tail>>

(* rep movsb: byte by byte from the first destination aligned to two       *)
(* vectors; the head is loaded before it and stored after it.              *)
StartErms ==
  /\ pc = "ladder" /\ n >= Erms /\ ~Inside
  /\ head' = LoadAt(mem, src, 2 * W)
  /\ i' = (-dst) % (2 * W)
  /\ pc' = "erms"
  /\ UNCHANGED <<mem, inputs, tail>>

ErmsByte ==
  /\ pc = "erms" /\ i < n
  /\ mem' = StoreAt(mem, dst + i, 1, LoadAt(mem, src + i, 1))
  /\ i' = i + 1
  /\ UNCHANGED <<inputs, pc, head, tail>>

EndErms ==
  /\ pc = "erms" /\ i >= n
  /\ mem' = StoreAt(mem, dst, 2 * W, head)
  /\ pc' = "nul"
  /\ UNCHANGED <<inputs, i, head, tail>>

(* Backwards, a vector at a time from the top; the head is loaded first    *)
(* and stored last.                                                        *)
StartBackward ==
  /\ pc = "ladder" /\ n >= 2 * W /\ Inside
  /\ head' = LoadAt(mem, src, W)
  /\ i' = n
  /\ pc' = "backward"
  /\ UNCHANGED <<mem, inputs, tail>>

BackwardBlock ==
  /\ pc = "backward" /\ i >= W
  /\ mem' = StoreAt(mem, dst + i - W, W, LoadAt(mem, src + i - W, W))
  /\ i' = i - W
  /\ UNCHANGED <<inputs, pc, head, tail>>

EndBackward ==
  /\ pc = "backward" /\ i < W
  /\ mem' = StoreAt(mem, dst, W, head)
  /\ pc' = "nul"
  /\ UNCHANGED <<inputs, i, head, tail>>

(* Mutant of Nul: one free byte is taken for enough.                       *)
NulInOneByte(m) ==
  IF room >= 1 THEN StoreAt(m, dst + n - (n % 2), 2, [j \in 0..1 |-> Zero]) ELSE m

(* The wide NUL, at the last character boundary, if there is room for it.  *)
Nul(m) ==
  IF room >= 2 THEN StoreAt(m, dst + n - (n % 2), 2, [j \in 0..1 |-> Zero]) ELSE m

WriteNul ==
  /\ pc = "nul"
  /\ mem' = Nul(mem)
  /\ pc' = "done"
  /\ UNCHANGED <<inputs, i, head, tail>>

Returned == pc = "done" /\ UNCHANGED vars

Next ==
  \/ Small
  \/ StartForward \/ ForwardBlock \/ EndForward
  \/ StartErms \/ ErmsByte \/ EndErms
  \/ StartBackward \/ BackwardBlock \/ EndBackward
  \/ WriteNul \/ Returned

Spec == Init /\ [][Next]_vars
-----------------------------------------------------------------------------
(* Index, buffers and registers stay within what the caller handed over.   *)
TypeOK ==
  /\ mem \in [Cells -> Byte] /\ old \in [Cells -> Byte]
  /\ n \in Nat /\ room \in 0..MaxRoom
  /\ src \in Nat /\ src + n <= Size
  /\ dst \in Nat /\ dst + n + room <= Size
  /\ pc \in {"ladder", "forward", "erms", "backward", "nul", "done"}
  /\ i \in 0..n

(* Whatever the length, the alignment and the overlap, the call leaves     *)
(* what a memmove and the NUL after it leave: no byte too few, none too    *)
(* many, and none that was overwritten before it was read.                 *)
CopiesAsMemmove == pc = "done" => mem = Nul(Moved(old, dst, src, n))

(* The bytes outside the destination are never touched, not even for a     *)
(* while: another thread or the page behind the buffer may own them.       *)
OutsideUntouched ==
  \A a \in Cells : a < dst \/ a >= dst + n + room => mem[a] = old[a]
=============================================================================
