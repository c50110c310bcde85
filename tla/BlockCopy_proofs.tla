-------------------------- MODULE BlockCopy_proofs --------------------------
(***************************************************************************)
(* The copy of change 296 is a memmove for every length, overlap and       *)
(* alignment, whatever the width of a vector, the arms below it and the    *)
(* length from which rep movsb is used.                                    *)
(***************************************************************************)
EXTENDS BlockCopy, TLAPS

(* Memory when the bytes lo..(hi - 1) have been copied and no others.      *)
Copied(lo, hi) ==
  [a \in Cells |-> IF dst + lo <= a /\ a < dst + hi THEN old[src + (a - dst)] ELSE old[a]]

(* What the registers and the memory hold in the middle of each arm.       *)
InForward ==
  /\ n >= 2 * W /\ ~Inside
  /\ (-dst) % W <= i
  /\ head = LoadAt(old, src, W) /\ tail = LoadAt(old, src + n - 2 * W, 2 * W)
  /\ mem = Copied((-dst) % W, i)
InErms ==
  /\ n >= 2 * W /\ ~Inside
  /\ (-dst) % (2 * W) <= i
  /\ head = LoadAt(old, src, 2 * W)
  /\ mem = Copied((-dst) % (2 * W), i)
InBackward ==
  /\ n >= 2 * W /\ Inside
  /\ head = LoadAt(old, src, W)
  /\ mem = Copied(i, n)

IInv ==
  /\ TypeOK
  /\ pc = "ladder" => mem = old
  /\ pc = "forward" => InForward
  /\ pc = "erms" => InErms
  /\ pc = "backward" => InBackward
  /\ pc = "nul" => mem = Copied(0, n)
  /\ pc = "done" => mem = Nul(Copied(0, n))

-----------------------------------------------------------------------------
(* A remainder is smaller than its divisor.                                *)
LEMMA Remainder == ASSUME NEW a \in Int, NEW b \in Nat \ {0} PROVE a % b \in 0..(b - 1)
  OBVIOUS

(* Memory stays memory while any part of the buffer is copied.             *)
LEMMA CopiedType ==
  ASSUME TypeOK, NEW lo \in Nat, NEW hi \in 0..n
  PROVE  Copied(lo, hi) \in [Cells -> Byte]
  BY SizeAssumption DEF TypeOK, Copied, Cells

(* Copying nothing leaves the memory as the call found it.                 *)
LEMMA NothingCopied ==
  ASSUME TypeOK, NEW k \in Int PROVE Copied(k, k) = old
  BY SizeAssumption DEF TypeOK, Copied, Cells

(* A load of bytes that no store has hit yet gets the original ones.       *)
LEMMA LoadsOriginal ==
  ASSUME TypeOK, NEW lo \in Nat, NEW hi \in Nat, NEW k \in Nat, NEW w \in Nat, k + w <= n,
         \/ src + k + w <= dst + lo
         \/ dst + hi <= src + k
  PROVE  LoadAt(Copied(lo, hi), src + k, w) = LoadAt(old, src + k, w)
<1>1. SUFFICES ASSUME NEW j \in 0..(w - 1)
      PROVE  Copied(lo, hi)[src + k + j] = old[src + k + j]
  BY DEF LoadAt
<1>2. /\ src + k + j \in Cells
      /\ ~(dst + lo <= src + k + j /\ src + k + j < dst + hi)
  BY SizeAssumption DEF TypeOK, Cells
<1> QED  BY <1>2 DEF Copied

(* The intervals lo..(hi - 1) and k..(k + w - 1) make lo2..(hi2 - 1).      *)
Joins(lo, hi, k, w, lo2, hi2) ==
  \A j \in Int : lo2 <= j /\ j < hi2 <=> (lo <= j /\ j < hi) \/ (k <= j /\ j < k + w)

(* Storing an original block at its place extends what has been copied,    *)
(* when the block and what was copied before make one interval.            *)
LEMMA StoreExtends ==
  ASSUME TypeOK, NEW lo \in Nat, NEW hi \in Nat, NEW k \in Nat, NEW w \in Nat, k + w <= n,
         NEW lo2 \in Nat, NEW hi2 \in Nat, Joins(lo, hi, k, w, lo2, hi2)
  PROVE  StoreAt(Copied(lo, hi), dst + k, w, LoadAt(old, src + k, w)) = Copied(lo2, hi2)
<1>1. DOMAIN Copied(lo, hi) = Cells
  BY DEF Copied
<1>2. SUFFICES ASSUME NEW a \in Cells
      PROVE  StoreAt(Copied(lo, hi), dst + k, w, LoadAt(old, src + k, w))[a] = Copied(lo2, hi2)[a]
  BY <1>1 DEF StoreAt, Copied
<1>3. /\ a - dst \in Int
      /\ dst + lo <= a /\ a < dst + hi <=> lo <= a - dst /\ a - dst < hi
      /\ dst + lo2 <= a /\ a < dst + hi2 <=> lo2 <= a - dst /\ a - dst < hi2
      /\ dst + k <= a /\ a < dst + k + w <=> k <= a - dst /\ a - dst < k + w
  BY SizeAssumption DEF TypeOK, Cells
<1>4. lo2 <= a - dst /\ a - dst < hi2
        <=> (lo <= a - dst /\ a - dst < hi) \/ (k <= a - dst /\ a - dst < k + w)
  BY <1>3 DEF Joins
<1>5. CASE dst + k <= a /\ a < dst + k + w
  <2>1. /\ a - (dst + k) \in 0..(w - 1)
        /\ src + k + (a - (dst + k)) = src + (a - dst)
    BY <1>5, SizeAssumption DEF TypeOK, Cells
  <2>2. LoadAt(old, src + k, w)[a - (dst + k)] = old[src + (a - dst)]
    BY <2>1 DEF LoadAt
  <2>3. Copied(lo2, hi2)[a] = old[src + (a - dst)]
    BY <1>3, <1>5, <1>4 DEF Copied
  <2> QED  BY <1>1, <1>5, <2>2, <2>3 DEF StoreAt
<1>6. CASE ~(dst + k <= a /\ a < dst + k + w)
  <2>1. StoreAt(Copied(lo, hi), dst + k, w, LoadAt(old, src + k, w))[a] = Copied(lo, hi)[a]
    BY <1>1, <1>6 DEF StoreAt
  <2> QED  BY <1>3, <1>6, <1>4, <2>1 DEF Copied
<1> QED  BY <1>5, <1>6

(* Having copied all n bytes is a memmove.                                 *)
LEMMA AllCopied == ASSUME TypeOK PROVE Moved(old, dst, src, n) = Copied(0, n)
<1>1. old = Copied(0, 0)
  BY NothingCopied
<1>2. /\ dst + 0 = dst /\ src + 0 = src /\ n \in Nat /\ 0 \in Nat /\ 0 + n <= n
      /\ Joins(0, 0, 0, n, 0, n)
  BY DEF TypeOK, Joins
<1>3. StoreAt(Copied(0, 0), dst + 0, n, LoadAt(old, src + 0, n)) = Copied(0, n)
  BY <1>2, StoreExtends
<1> QED  BY <1>1, <1>2, <1>3 DEF Moved

(* The arm for n bytes: two of its blocks, laid at both ends, cover n.     *)
LEMMA WidthFits ==
  ASSUME NEW k \in 1..(2 * W - 1)
  PROVE  WidthFor(k) \in Nat /\ WidthFor(k) <= k /\ k <= 2 * WidthFor(k)
<1>1. PICK w \in Widths : w <= k /\ k < 2 * w
  BY WidthsAssumption
<1>2. WidthFor(k) \in Widths /\ WidthFor(k) <= k /\ k < 2 * WidthFor(k)
  BY <1>1 DEF WidthFor
<1>3. Widths \subseteq Nat
  BY WidthsAssumption
<1>4. k \in Nat
  OBVIOUS
<1>5. WidthFor(k) \in Nat
  BY <1>2, <1>3
<1> QED  BY <1>2, <1>4, <1>5

(* The NUL stays within the writable bytes after the copy.                 *)
LEMMA NulType ==
  ASSUME TypeOK, NEW m \in [Cells -> Byte]
  PROVE  /\ Nul(m) \in [Cells -> Byte]
         /\ \A a \in Cells : a < dst \/ a >= dst + n + room => Nul(m)[a] = m[a]
<1>1. CASE room >= 2
  <2>1. n - (n % 2) \in Nat /\ n - (n % 2) <= n
    BY DEF TypeOK
  <2>2. \A a \in Cells : dst + n - (n % 2) <= a /\ a < dst + n - (n % 2) + 2
                           => a - (dst + n - (n % 2)) \in 0..1
    BY <2>1, SizeAssumption DEF TypeOK, Cells
  <2>3. \A a \in Cells : Nul(m)[a] = IF dst + n - (n % 2) <= a /\ a < dst + n - (n % 2) + 2
                                     THEN Zero ELSE m[a]
    BY <1>1, <2>2 DEF Nul, StoreAt
  <2>4. Nul(m) = [a \in Cells |-> Nul(m)[a]]
    BY <1>1 DEF Nul, StoreAt
  <2>5. Nul(m) \in [Cells -> Byte]
    BY <2>3, <2>4, SizeAssumption
  <2>6. \A a \in Cells : a < dst \/ a >= dst + n + room
          => ~(dst + n - (n % 2) <= a /\ a < dst + n - (n % 2) + 2)
    BY <1>1, <2>1, SizeAssumption DEF TypeOK, Cells
  <2> QED  BY <2>3, <2>5, <2>6
<1>2. CASE ~(room >= 2)
  BY <1>2 DEF Nul
<1> QED  BY <1>1, <1>2

-----------------------------------------------------------------------------
(* The call starts on the memory it found.                                 *)
LEMMA IInit == Init => IInv
  BY SizeAssumption DEF Init, IInv, TypeOK, Cells

(* What a step has to keep when it leaves the caller's buffers alone.      *)
LEMMA Frame ==
  ASSUME TypeOK, UNCHANGED inputs
  PROVE  /\ \A lo, hi : Copied(lo, hi)' = Copied(lo, hi)
         /\ \A m : Nul(m)' = Nul(m)
         /\ mem' \in [Cells -> Byte] /\ i' \in 0..n
            /\ pc' \in {"ladder", "forward", "erms", "backward", "nul", "done"} => TypeOK'
  BY DEF inputs, TypeOK, Copied, Nul

(* The aligned start of a loop lies within its first block.                *)
LEMMA AlignedStart ==
  ASSUME TypeOK PROVE (-dst) % W \in 0..(W - 1) /\ (-dst) % (2 * W) \in 0..(2 * W - 1)
<1>1. -dst \in Int /\ W \in Nat \ {0} /\ 2 * W \in Nat \ {0}
  BY WidthsAssumption DEF TypeOK
<1> QED  BY <1>1, Remainder

(* Up to two vectors: one arm, or nothing at all.                          *)
LEMMA SmallCopies == ASSUME IInv, Small PROVE mem' = Copied(0, n)
<1>1. TypeOK /\ mem = Copied(0, 0)
  BY NothingCopied DEF IInv, Small
<1>2. CASE n = 0
  BY <1>1, <1>2 DEF Small
<1>3. CASE n # 0
  <2> DEFINE w == WidthFor(n)
  <2>1. /\ n \in Nat /\ n \in 1..(2 * W - 1)
        /\ dst + 0 = dst /\ src + 0 = src
        /\ src + (n - w) = src + n - w /\ dst + (n - w) = dst + n - w
    <3>1. n \in Nat /\ src \in Nat /\ dst \in Nat /\ n < 2 * W /\ W \in Nat
      BY <1>1, WidthsAssumption DEF TypeOK, Small
    <3>2. n \in 1..(2 * W - 1)
      BY <1>3, <3>1
    <3>3. w \in Nat
      BY <3>2, WidthFits
    <3> HIDE DEF w
    <3> QED  BY <3>1, <3>2, <3>3
  <2>2. w \in Nat /\ w <= n /\ n <= 2 * w
    BY <2>1, WidthFits
  <2> HIDE DEF w
  <2>3. /\ 0 \in Nat /\ 0 + w <= n /\ n - w \in Nat /\ n - w + w <= n
        /\ Joins(0, 0, 0, w, 0, w) /\ Joins(0, w, n - w, w, 0, n)
    BY <2>1, <2>2 DEF Joins
  <2>4. StoreAt(Copied(0, 0), dst + 0, w, LoadAt(old, src + 0, w)) = Copied(0, w)
    BY <1>1, <2>1, <2>2, <2>3, StoreExtends
  <2>5. StoreAt(Copied(0, w), dst + (n - w), w, LoadAt(old, src + (n - w), w)) = Copied(0, n)
    BY <1>1, <2>1, <2>2, <2>3, StoreExtends
  <2>6. mem' = StoreAt(StoreAt(mem, dst, w, LoadAt(mem, src, w)),
                       dst + n - w, w, LoadAt(mem, src + n - w, w))
    BY <1>3 DEF Small, w
  <2>7. mem = old /\ Copied(0, 0) = old
    BY <1>1, NothingCopied
  <2> QED  BY <2>1, <2>4, <2>5, <2>6, <2>7
<1> QED  BY <1>2, <1>3

(* A forward block loads original bytes: below an equal or later source    *)
(* nothing was stored yet, and above it the buffers are disjoint.          *)
LEMMA ForwardCopies ==
  ASSUME IInv, ForwardBlock PROVE mem' = Copied((-dst) % W, i + 2 * W)
<1> DEFINE lo == (-dst) % W
<1>1. /\ TypeOK /\ InForward /\ lo \in Nat /\ W \in Nat
      /\ i \in Nat /\ 2 * W \in Nat /\ i + 2 * W <= n /\ n \in Nat /\ i + 2 * W \in Nat
  BY AlignedStart, WidthsAssumption DEF IInv, ForwardBlock, TypeOK
<1> HIDE DEF lo
<1>2. mem = Copied(lo, i) /\ lo <= i
  BY <1>1 DEF InForward, lo
<1>3. src + i + 2 * W <= dst + lo \/ dst + i <= src + i
  <2>1. src \in Nat /\ dst \in Nat
    BY <1>1 DEF TypeOK
  <2>2. ~(src <= dst /\ dst < src + n)
    BY <1>1 DEF InForward, Inside
  <2> QED  BY <1>1, <2>1, <2>2
<1>4. LoadAt(Copied(lo, i), src + i, 2 * W) = LoadAt(old, src + i, 2 * W)
  BY <1>1, <1>3, LoadsOriginal
<1>5. Joins(lo, i, i, 2 * W, lo, i + 2 * W)
  BY <1>1, <1>2 DEF Joins
<1>6. StoreAt(Copied(lo, i), dst + i, 2 * W, LoadAt(old, src + i, 2 * W)) = Copied(lo, i + 2 * W)
  BY <1>1, <1>5, StoreExtends
<1> QED  BY <1>2, <1>4, <1>6 DEF ForwardBlock, lo

(* The tail and the head, loaded before the loop, close both gaps.         *)
LEMMA ForwardEnds ==
  ASSUME IInv, EndForward PROVE mem' = Copied(0, n)
<1> DEFINE lo == (-dst) % W
<1> DEFINE mid == IF lo < n - 2 * W THEN lo ELSE n - 2 * W
<1>1. /\ TypeOK /\ InForward /\ lo \in Nat /\ lo < W /\ W \in Nat /\ 2 * W \in Nat
      /\ i \in Nat /\ n - 2 * W < i /\ i <= n /\ n \in Nat /\ n >= 2 * W
  BY AlignedStart, WidthsAssumption DEF IInv, InForward, EndForward, TypeOK
<1> HIDE DEF lo
<1>2. mem = Copied(lo, i) /\ lo <= i
  BY <1>1 DEF InForward, lo
<1>3. /\ n - 2 * W \in Nat /\ mid \in Nat /\ 0 \in Nat /\ mid < W
      /\ n - 2 * W + 2 * W <= n /\ 0 + W <= n
      /\ Joins(lo, i, n - 2 * W, 2 * W, mid, n) /\ Joins(mid, n, 0, W, 0, n)
  BY <1>1, <1>2 DEF Joins
<1> HIDE DEF mid
<1>4. StoreAt(Copied(lo, i), dst + (n - 2 * W), 2 * W, LoadAt(old, src + (n - 2 * W), 2 * W))
        = Copied(mid, n)
  BY <1>1, <1>3, StoreExtends
<1>5. StoreAt(Copied(mid, n), dst + 0, W, LoadAt(old, src + 0, W)) = Copied(0, n)
  BY <1>1, <1>3, StoreExtends
<1>6. /\ dst + (n - 2 * W) = dst + n - 2 * W /\ src + (n - 2 * W) = src + n - 2 * W
      /\ dst + 0 = dst /\ src + 0 = src
  BY <1>1 DEF TypeOK
<1>7. mem' = StoreAt(StoreAt(mem, dst + n - 2 * W, 2 * W, LoadAt(old, src + n - 2 * W, 2 * W)),
                     dst, W, LoadAt(old, src, W))
  BY <1>1 DEF EndForward, InForward
<1> QED  BY <1>2, <1>4, <1>5, <1>6, <1>7

(* rep movsb copies byte by byte in ascending order, for the same reason.  *)
LEMMA ErmsCopies ==
  ASSUME IInv, ErmsByte PROVE mem' = Copied((-dst) % (2 * W), i + 1)
<1> DEFINE lo == (-dst) % (2 * W)
<1>1. /\ TypeOK /\ InErms /\ lo \in Nat /\ i \in Nat /\ i + 1 <= n /\ n \in Nat
      /\ 1 \in Nat /\ i + 1 \in Nat
  BY AlignedStart DEF IInv, ErmsByte, TypeOK
<1> HIDE DEF lo
<1>2. mem = Copied(lo, i) /\ lo <= i
  BY <1>1 DEF InErms, lo
<1>3. src + i + 1 <= dst + lo \/ dst + i <= src + i
  <2>1. src \in Nat /\ dst \in Nat
    BY <1>1 DEF TypeOK
  <2>2. ~(src <= dst /\ dst < src + n)
    BY <1>1 DEF InErms, Inside
  <2> QED  BY <1>1, <2>1, <2>2
<1>4. LoadAt(Copied(lo, i), src + i, 1) = LoadAt(old, src + i, 1)
  BY <1>1, <1>3, LoadsOriginal
<1>5. Joins(lo, i, i, 1, lo, i + 1)
  BY <1>1, <1>2 DEF Joins
<1>6. StoreAt(Copied(lo, i), dst + i, 1, LoadAt(old, src + i, 1)) = Copied(lo, i + 1)
  BY <1>1, <1>5, StoreExtends
<1> QED  BY <1>2, <1>4, <1>6 DEF ErmsByte, lo

(* Its head, two vectors, closes the gap below the aligned start.          *)
LEMMA ErmsEnds ==
  ASSUME IInv, EndErms PROVE mem' = Copied(0, n)
<1> DEFINE lo == (-dst) % (2 * W)
<1>1. /\ TypeOK /\ InErms /\ lo \in Nat /\ lo < 2 * W /\ 2 * W \in Nat
      /\ i = n /\ n \in Nat /\ n >= 2 * W
  BY AlignedStart, WidthsAssumption DEF IInv, InErms, EndErms, TypeOK
<1> HIDE DEF lo
<1>2. mem = Copied(lo, n)
  BY <1>1 DEF InErms, lo
<1>3. /\ 0 \in Nat /\ 0 + 2 * W <= n /\ Joins(lo, n, 0, 2 * W, 0, n)
      /\ dst + 0 = dst /\ src + 0 = src
  BY <1>1 DEF Joins, TypeOK
<1>4. StoreAt(Copied(lo, n), dst + 0, 2 * W, LoadAt(old, src + 0, 2 * W)) = Copied(0, n)
  BY <1>1, <1>3, StoreExtends
<1> QED  BY <1>1, <1>2, <1>3, <1>4 DEF EndErms, InErms

(* A backward block loads original bytes: what was stored lies above it.   *)
LEMMA BackwardCopies ==
  ASSUME IInv, BackwardBlock PROVE mem' = Copied(i - W, n)
<1>1. /\ TypeOK /\ InBackward /\ mem = Copied(i, n) /\ W \in Nat
      /\ i \in Nat /\ i - W \in Nat /\ i <= n /\ n \in Nat /\ i - W + W <= n
  BY WidthsAssumption DEF IInv, InBackward, BackwardBlock, TypeOK
<1>2. src \in Nat /\ dst \in Nat /\ src <= dst
  BY <1>1 DEF InBackward, Inside, TypeOK
<1>3. /\ src + (i - W) + W <= dst + i
      /\ src + (i - W) = src + i - W /\ dst + (i - W) = dst + i - W
      /\ Joins(i, n, i - W, W, i - W, n)
  BY <1>1, <1>2 DEF Joins
<1>4. LoadAt(Copied(i, n), src + (i - W), W) = LoadAt(old, src + (i - W), W)
  BY <1>1, <1>3, LoadsOriginal
<1>5. StoreAt(Copied(i, n), dst + (i - W), W, LoadAt(old, src + (i - W), W)) = Copied(i - W, n)
  BY <1>1, <1>3, StoreExtends
<1> QED  BY <1>1, <1>3, <1>4, <1>5 DEF BackwardBlock

(* The head, loaded first, goes in last.                                   *)
LEMMA BackwardEnds ==
  ASSUME IInv, EndBackward PROVE mem' = Copied(0, n)
<1>1. /\ TypeOK /\ InBackward /\ mem = Copied(i, n) /\ W \in Nat
      /\ i \in Nat /\ i < W /\ n \in Nat /\ n >= 2 * W
  BY WidthsAssumption DEF IInv, InBackward, EndBackward, TypeOK
<1>2. /\ 0 \in Nat /\ 0 + W <= n /\ Joins(i, n, 0, W, 0, n)
      /\ dst + 0 = dst /\ src + 0 = src
  BY <1>1 DEF Joins, TypeOK
<1>3. StoreAt(Copied(i, n), dst + 0, W, LoadAt(old, src + 0, W)) = Copied(0, n)
  BY <1>1, <1>2, StoreExtends
<1> QED  BY <1>1, <1>2, <1>3 DEF EndBackward, InBackward

-----------------------------------------------------------------------------
(* Every instruction group keeps the invariant.                            *)
LEMMA IStep == IInv /\ [Next]_vars => IInv'
<1> SUFFICES ASSUME IInv, [Next]_vars PROVE IInv'
  OBVIOUS
<1>1. /\ TypeOK /\ n \in Nat /\ i \in 0..n /\ W \in Nat \ {0}
      /\ mem \in [Cells -> Byte] /\ old \in [Cells -> Byte]
      /\ (-dst) % W \in 0..(W - 1) /\ (-dst) % (2 * W) \in 0..(2 * W - 1)
  BY AlignedStart, WidthsAssumption DEF IInv, TypeOK
<1>2. CASE Small
  <2>1. mem' = Copied(0, n) /\ pc' = "nul" /\ UNCHANGED <<inputs, i>>
    BY <1>2, SmallCopies DEF Small
  <2>2. mem' \in [Cells -> Byte]
    BY <1>1, <2>1, CopiedType
  <2> QED  BY <1>1, <2>1, <2>2, Frame DEF IInv, inputs
<1>3. CASE StartForward
  <2>1. /\ mem = old /\ UNCHANGED <<mem, inputs>> /\ pc' = "forward" /\ n >= 2 * W /\ ~Inside
        /\ i' = (-dst) % W
        /\ head' = LoadAt(old, src, W) /\ tail' = LoadAt(old, src + n - 2 * W, 2 * W)
    BY <1>3 DEF StartForward, IInv
  <2>2. i' \in 0..n /\ old = Copied(i', i')
    BY <1>1, <2>1, NothingCopied
  <2>3. TypeOK'
    BY <1>1, <2>1, <2>2, Frame DEF inputs
  <2>4. InForward'
    BY <1>1, <2>1, <2>2, Frame DEF InForward, Inside, inputs
  <2> QED  BY <2>1, <2>3, <2>4 DEF IInv
<1>4. CASE ForwardBlock
  <2>1. /\ mem' = Copied((-dst) % W, i') /\ UNCHANGED <<inputs, pc, head, tail>>
        /\ pc = "forward" /\ i' = i + 2 * W /\ i + 2 * W <= n
    BY <1>1, <1>4, ForwardCopies DEF ForwardBlock
  <2>2. i' \in 0..n /\ (-dst) % W \in Nat /\ (-dst) % W <= i' /\ InForward
    BY <1>1, <2>1 DEF IInv, InForward
  <2>3. mem' \in [Cells -> Byte]
    BY <1>1, <2>1, <2>2, CopiedType
  <2>4. TypeOK'
    BY <1>1, <2>1, <2>2, <2>3, Frame
  <2>5. InForward'
    BY <1>1, <2>1, <2>2, Frame DEF InForward, Inside, inputs
  <2> QED  BY <2>1, <2>4, <2>5 DEF IInv
<1>5. CASE EndForward
  <2>1. mem' = Copied(0, n) /\ pc' = "nul" /\ UNCHANGED <<inputs, i>>
    BY <1>5, ForwardEnds DEF EndForward
  <2>2. mem' \in [Cells -> Byte]
    BY <1>1, <2>1, CopiedType
  <2> QED  BY <1>1, <2>1, <2>2, Frame DEF IInv, inputs
<1>6. CASE StartErms
  <2>1. /\ mem = old /\ UNCHANGED <<mem, inputs>> /\ pc' = "erms" /\ n >= 2 * W /\ ~Inside
        /\ i' = (-dst) % (2 * W) /\ head' = LoadAt(old, src, 2 * W)
    BY <1>1, <1>6, ErmsAssumption DEF StartErms, IInv
  <2>2. i' \in 0..n /\ old = Copied(i', i')
    BY <1>1, <2>1, NothingCopied
  <2>3. TypeOK'
    BY <1>1, <2>1, <2>2, Frame DEF inputs
  <2>4. InErms'
    BY <1>1, <2>1, <2>2, Frame DEF InErms, Inside, inputs
  <2> QED  BY <2>1, <2>3, <2>4 DEF IInv
<1>7. CASE ErmsByte
  <2>1. /\ mem' = Copied((-dst) % (2 * W), i') /\ UNCHANGED <<inputs, pc, head, tail>>
        /\ pc = "erms" /\ i' = i + 1 /\ i + 1 <= n
    BY <1>1, <1>7, ErmsCopies DEF ErmsByte
  <2>2. i' \in 0..n /\ (-dst) % (2 * W) \in Nat /\ (-dst) % (2 * W) <= i' /\ InErms
    BY <1>1, <2>1 DEF IInv, InErms
  <2>3. mem' \in [Cells -> Byte]
    BY <1>1, <2>1, <2>2, CopiedType
  <2>4. TypeOK'
    BY <1>1, <2>1, <2>2, <2>3, Frame
  <2>5. InErms'
    BY <1>1, <2>1, <2>2, Frame DEF InErms, Inside, inputs
  <2> QED  BY <2>1, <2>4, <2>5 DEF IInv
<1>8. CASE EndErms
  <2>1. mem' = Copied(0, n) /\ pc' = "nul" /\ UNCHANGED <<inputs, i>>
    BY <1>8, ErmsEnds DEF EndErms
  <2>2. mem' \in [Cells -> Byte]
    BY <1>1, <2>1, CopiedType
  <2> QED  BY <1>1, <2>1, <2>2, Frame DEF IInv, inputs
<1>9. CASE StartBackward
  <2>1. /\ mem = old /\ UNCHANGED <<mem, inputs>> /\ pc' = "backward" /\ n >= 2 * W /\ Inside
        /\ i' = n /\ head' = LoadAt(old, src, W)
    BY <1>9 DEF StartBackward, IInv
  <2>2. i' \in 0..n /\ old = Copied(i', n)
    BY <1>1, <2>1, NothingCopied
  <2>3. TypeOK'
    BY <1>1, <2>1, <2>2, Frame DEF inputs
  <2>4. InBackward'
    BY <1>1, <2>1, <2>2, Frame DEF InBackward, Inside, inputs
  <2> QED  BY <2>1, <2>3, <2>4 DEF IInv
<1>10. CASE BackwardBlock
  <2>1. /\ mem' = Copied(i', n) /\ UNCHANGED <<inputs, pc, head, tail>>
        /\ pc = "backward" /\ i' = i - W /\ i >= W
    BY <1>1, <1>10, BackwardCopies DEF BackwardBlock
  <2>2. i' \in 0..n /\ i' \in Nat /\ n \in 0..n /\ InBackward
    BY <1>1, <2>1 DEF IInv
  <2>3. mem' \in [Cells -> Byte]
    BY <1>1, <2>1, <2>2, CopiedType
  <2>4. TypeOK'
    BY <1>1, <2>1, <2>2, <2>3, Frame
  <2>5. InBackward'
    BY <1>1, <2>1, <2>2, Frame DEF InBackward, Inside, inputs
  <2> QED  BY <2>1, <2>4, <2>5 DEF IInv
<1>11. CASE EndBackward
  <2>1. mem' = Copied(0, n) /\ pc' = "nul" /\ UNCHANGED <<inputs, i>>
    BY <1>11, BackwardEnds DEF EndBackward
  <2>2. mem' \in [Cells -> Byte]
    BY <1>1, <2>1, CopiedType
  <2> QED  BY <1>1, <2>1, <2>2, Frame DEF IInv, inputs
<1>12. CASE WriteNul
  <2>1. mem' = Nul(Copied(0, n)) /\ mem = Copied(0, n) /\ pc' = "done" /\ UNCHANGED <<inputs, i>>
    BY <1>12 DEF WriteNul, IInv
  <2>2. mem' \in [Cells -> Byte]
    BY <1>1, <2>1, NulType
  <2> QED  BY <1>1, <2>1, <2>2, Frame DEF IInv, inputs
<1>13. CASE UNCHANGED vars
  <2>1. UNCHANGED <<inputs, mem, pc, i, head, tail>>
    BY <1>13 DEF vars
  <2>2. TypeOK'
    BY <1>1, <2>1 DEF TypeOK, inputs, Cells
  <2>3. InForward => InForward'
    BY <1>1, <2>1, Frame DEF InForward, Inside, inputs
  <2>4. InErms => InErms'
    BY <1>1, <2>1, Frame DEF InErms, Inside, inputs
  <2>5. InBackward => InBackward'
    BY <1>1, <2>1, Frame DEF InBackward, Inside, inputs
  <2>6. Copied(0, n)' = Copied(0, n) /\ Nul(Copied(0, n))' = Nul(Copied(0, n))
    BY <1>1, <2>1, Frame DEF inputs
  <2> QED  BY <2>1, <2>2, <2>3, <2>4, <2>5, <2>6 DEF IInv, inputs
<1> QED
  BY <1>2, <1>3, <1>4, <1>5, <1>6, <1>7, <1>8, <1>9, <1>10, <1>11, <1>12, <1>13
  DEF Next, Returned

(* The invariant holds throughout.                                         *)
THEOREM Invariant == Spec => []IInv
  BY IInit, IStep, PTL DEF Spec

(* Index, program point and memory stay well formed in every arm.          *)
THEOREM TypeCorrect == Spec => []TypeOK
<1>1. IInv => TypeOK
  BY DEF IInv
<1> QED  BY <1>1, Invariant, PTL

(* RtlCopyUnicodeString's ladder is a memmove and a NUL, for every length, *)
(* overlap and alignment and every width of its blocks.                    *)
THEOREM CopyIsMemmove == Spec => []CopiesAsMemmove
<1>1. IInv => CopiesAsMemmove
  BY AllCopied DEF IInv, CopiesAsMemmove
<1> QED  BY <1>1, Invariant, PTL

(* Nothing outside the destination is written at any moment of the call.   *)
THEOREM StaysInside == Spec => []OutsideUntouched
<1>1. ASSUME IInv PROVE OutsideUntouched
  <2>1. TypeOK /\ n \in Nat /\ i \in 0..n /\ room \in Nat /\ dst \in Nat
    BY <1>1, SizeAssumption DEF IInv, TypeOK
  <2>2. ASSUME NEW lo \in Nat, NEW hi \in 0..n, NEW a \in Cells, a < dst \/ a >= dst + n + room
        PROVE  Copied(lo, hi)[a] = old[a]
    BY <2>1, <2>2, SizeAssumption DEF Copied, Cells
  <2>3. CASE pc = "ladder"
    BY <1>1, <2>3 DEF IInv, OutsideUntouched
  <2>4. CASE pc = "forward"
    BY <1>1, <2>1, <2>2, <2>4, AlignedStart, WidthsAssumption DEF IInv, InForward, OutsideUntouched
  <2>5. CASE pc = "erms"
    BY <1>1, <2>1, <2>2, <2>5, AlignedStart, WidthsAssumption DEF IInv, InErms, OutsideUntouched
  <2>6. CASE pc = "backward"
    BY <1>1, <2>1, <2>2, <2>6 DEF IInv, InBackward, OutsideUntouched
  <2>7. CASE pc = "nul"
    BY <1>1, <2>1, <2>2, <2>7 DEF IInv, OutsideUntouched
  <2>8. CASE pc = "done"
    <3>1. Copied(0, n) \in [Cells -> Byte]
      BY <2>1, CopiedType
    <3>2. \A a \in Cells : a < dst \/ a >= dst + n + room => Nul(Copied(0, n))[a] = Copied(0, n)[a]
      BY <2>1, <3>1, NulType
    <3> QED  BY <1>1, <2>1, <2>2, <2>8, <3>2 DEF IInv, OutsideUntouched
  <2> QED  BY <2>1, <2>3, <2>4, <2>5, <2>6, <2>7, <2>8 DEF TypeOK
<1> QED  BY <1>1, Invariant, PTL
=============================================================================
