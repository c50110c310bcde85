-------------------------- MODULE FindBits_proofs --------------------------
(***************************************************************************)
(* The searches of changes 256 and 262 answer as a search bit by bit does, *)
(* and invert the bits of their answer and no others, for bitmaps of any   *)
(* size and machine words, vectors and witness blocks of any width.        *)
(***************************************************************************)
EXTENDS FindBits, TLAPS, WellFoundedInduction

(* Runs and searches in bitmaps of any size.                               *)

(* Every set of positions has a lowest one.                                *)
LEMMA LowestIs ==
  ASSUME NEW S \in SUBSET Nat, S # {}
  PROVE  Lowest(S) \in S /\ \A j \in S : Lowest(S) <= j
<1>1. \E i \in S : \A j \in S : ~ (<<j, i>> \in OpToRel(<, Nat))
  BY WFMin, NatLessThanWellFounded
<1>2. PICK i \in S : \A j \in S : ~ (<<j, i>> \in OpToRel(<, Nat))
  BY <1>1
<1>3. \A j \in S : i <= j
  <2>1. TAKE j \in S
  <2>2. <<j, i>> \in Nat \X Nat
    OBVIOUS
  <2>3. ~ (j < i)
    BY <1>2, <2>2 DEF OpToRel
  <2> QED BY <2>3
<1> QED BY <1>3 DEF Lowest

(* A search answers with the first run, and with nothing if there is none. *)
LEMMA ScanIs ==
  ASSUME NEW S \in SUBSET Nat, NEW lo \in Nat, NEW n \in Nat, NEW r \in S,
         r >= lo, Run(S, r, n),
         \A i \in S : i >= lo /\ Run(S, i, n) => r <= i
  PROVE  Scan(S, lo, n) = r
<1> DEFINE starts == {i \in S : i >= lo /\ Run(S, i, n)}
<1>1. r \in starts
  OBVIOUS
<1>2. PICK m \in starts : m = Lowest(starts) /\ \A j \in starts : m <= j
  <2>1. starts \subseteq Nat /\ starts # {}
    BY <1>1
  <2> QED BY <2>1, LowestIs
<1>3. m = r
  <2>1. m <= r /\ r <= m
    BY <1>1, <1>2
  <2> QED BY <2>1
<1> QED BY <1>1, <1>2, <1>3 DEF Scan

LEMMA ScanFails ==
  ASSUME NEW S, NEW lo, NEW n, \A i \in S : ~(i >= lo /\ Run(S, i, n))
  PROVE  Scan(S, lo, n) = NotFound
  BY DEF Scan

(* A remainder is smaller than its divisor, and a multiple leaves none.    *)
LEMMA Remainder == ASSUME NEW a \in Int, NEW b \in Nat \ {0} PROVE a % b \in 0..(b - 1)
  OBVIOUS

LEMMA MultipleOf == ASSUME NEW j \in Nat, NEW b \in Nat \ {0} PROVE (j * b) % b = 0
  OBVIOUS

(* Every b positions there is a multiple of b.                             *)
LEMMA NextMultiple ==
  ASSUME NEW x \in Nat, NEW b \in Nat \ {0}
  PROVE  \E p \in x..(x + b - 1) : p % b = 0
<1> DEFINE j == (x + b - 1) \div b
<1>1. j \in Nat /\ j * b \in Nat
  OBVIOUS
<1>2. j * b <= x + b - 1 /\ x + b - 1 < j * b + b
  OBVIOUS
<1>3. (j * b) % b = 0
  BY <1>1, MultipleOf
<1>4. j * b \in x..(x + b - 1)
  BY <1>1, <1>2
<1> QED BY <1>3, <1>4

(* A run of the lengths L at i and at i + s, s <= L, is one of L + s.      *)
LEMMA RunsJoin ==
  ASSUME NEW S \in SUBSET Nat, NEW i \in Nat, NEW L \in Nat, NEW s \in 0..L
  PROVE  Run(S, i, L + s) <=> Run(S, i, L) /\ Run(S, i + s, L)
  BY DEF Run
-----------------------------------------------------------------------------

(* Runs of n bits of S that start at or after lo ...                       *)
Starts(S, lo, n) == {i \in S : i >= lo /\ Run(S, i, n)}

(* ... reach b bits further than a position.                               *)
NoneBefore(S, lo, n, b, at) == \A i \in Starts(S, lo, n) : i + b > at

Multiple(x, b) == \E j \in Int : x = j * b

(* What the word scanner knows when it is about to look at the word at bs. *)
ScannedTo(S, lo, n, bs, c) ==
  /\ c <= bs /\ c < n
  /\ c > 0 => bs - c >= lo /\ Run(S, bs - c, c)
  /\ ~(bs - c - 1 \in S /\ bs - c - 1 >= lo)
  /\ \A i \in Starts(S, lo, n) : i + n > bs
-----------------------------------------------------------------------------
(* A run of n >= 2b - 1 bits contains every block of b bits that starts    *)
(* less than b bits after it does.                                         *)
LEMMA BlockInRun ==
  ASSUME NEW R \in SUBSET Nat, NEW n \in Nat, NEW b \in Nat \ {0}, n >= 2 * b - 1,
         NEW i \in Nat, Run(R, i, n), NEW p \in i..(i + b - 1)
  PROVE  Run(R, p, b)
BY DEF Run

(* The witness argument: where no aligned block of wanted bits starts, no  *)
(* run of n bits is skipped.                                               *)
LEMMA NothingSkipped ==
  ASSUME NEW S \in SUBSET Nat, NEW R \in SUBSET Nat, S \subseteq R,
         NEW lo \in Nat, NEW n \in Nat, NEW b \in Nat \ {0}, n >= 2 * b - 1,
         NEW at \in Nat, NEW end \in Nat, NoneBefore(S, lo, n, b, at),
         \A p \in at..(end - 1) : (p - at) % b = 0 => ~Run(R, p, b)
  PROVE  NoneBefore(S, lo, n, b, end)
<1> SUFFICES ASSUME NEW i \in Starts(S, lo, n), ~(i + b > end) PROVE FALSE
  BY DEF NoneBefore
<1>1. i \in Nat /\ Run(R, i, n) /\ i + b > at
  BY DEF Starts, NoneBefore, Run
<1>2. CASE i < at
  <2>1. Run(R, at, b)
    BY <1>1, <1>2, BlockInRun
  <2>2. at \in at..(end - 1) /\ (at - at) % b = 0
    BY <1>1
  <2> QED BY <1>1, <1>2, <2>1, <2>2
<1>3. CASE i >= at
  <2> DEFINE x == i - at
  <2>0. x \in Nat
    BY <1>1, <1>3
  <2> HIDE DEF x
  <2>1. PICK q \in x..(x + b - 1) : q % b = 0
    BY <2>0, NextMultiple
  <2> USE DEF x
  <2>2. at + q \in i..(i + b - 1) /\ (at + q) - at = q
    BY <1>1, <1>3, <2>1
  <2>3. Run(R, at + q, b)
    BY <1>1, <2>2, BlockInRun
  <2> QED BY <1>1, <1>3, <2>1, <2>2, <2>3
<1> QED BY <1>1, <1>2, <1>3

(* Measuring the run around a witness, from its start s (or a word below)  *)
(* to its end e: if it is long enough, it is the first such run ...        *)
LEMMA MeasuredLong ==
  ASSUME NEW S \in SUBSET Nat, NEW R \in SUBSET Nat, S \subseteq R,
         NEW lo \in Nat, NEW n \in Nat \ {0}, NEW b \in Nat \ {0}, n >= 2 * b - 1,
         NEW a \in Nat, NoneBefore(S, lo, n, b, a),
         NEW low \in lo..a, low <= lo \/ low <= a - b,
         NEW s \in low..a, \A i \in low..a : Run(R, i, a - i) => s <= i,
         NEW i \in Starts(S, lo, n)
  PROVE  s <= i
<1>1. i \in Nat /\ i >= lo /\ Run(S, i, n) /\ i + b > a
  BY DEF Starts, NoneBefore
<1>2. CASE i <= a
  <2>1. Run(R, i, a - i)
    BY <1>1, <1>2 DEF Run
  <2> QED BY <1>1, <1>2, <2>1
<1>3. CASE i > a
  BY <1>1, <1>3
<1> QED BY <1>1, <1>2, <1>3

(* ... and if not, the next one starts behind it.                          *)
LEMMA MeasuredShort ==
  ASSUME NEW S \in SUBSET Nat, NEW R \in SUBSET Nat, S \subseteq R,
         NEW lo \in Nat, NEW n \in Nat \ {0}, NEW b \in Nat \ {0}, n >= 2 * b - 1,
         NEW a \in Nat, NoneBefore(S, lo, n, b, a),
         NEW low \in lo..a, low <= lo \/ low <= a - b,
         NEW s \in low..a, \A i \in low..a : Run(R, i, a - i) => s <= i,
         NEW e \in Nat, e >= a, e \notin R, e - s < n,
         NEW i \in Starts(S, lo, n)
  PROVE  i > e /\ i > a
<1>1. i \in Nat /\ i >= lo /\ Run(S, i, n) /\ i + b > a
  BY DEF Starts, NoneBefore
<1>2. s <= i
  BY MeasuredLong
<1>3. i + n > e
  BY <1>1, <1>2
<1>4. ~(i <= e)
  BY <1>1, <1>3 DEF Run
<1> QED BY <1>1, <1>4

(* A window around a witness in which there is no run of n bits.           *)
LEMMA WindowEmpty ==
  ASSUME NEW S \in SUBSET Nat,
         NEW lo \in Nat, NEW n \in Nat \ {0}, NEW b \in Nat \ {0}, n >= 2 * b - 1,
         NEW a \in Nat, NoneBefore(S, lo, n, b, a),
         NEW W \in Nat, NEW low \in Nat, low <= lo \/ low <= a - b,
         NEW hi \in Nat, hi > a + n + W, lo <= a + W,
         \A i \in Starts(S, low, n) : i + n > hi,
         NEW e \in Nat, e >= a, e \notin S, \A j \in a..(e - 1) : j \in S,
         NEW i \in Starts(S, lo, n)
  PROVE  i > a + W /\ i > e
<1>1. i \in Nat /\ i >= lo /\ Run(S, i, n) /\ i + b > a
  BY DEF Starts, NoneBefore
<1>2. i >= low
  BY <1>1
<1>3. i > a + W
  BY <1>1, <1>2 DEF Starts
<1>4. ASSUME i <= e PROVE FALSE
  <2>1. i + n <= e
    BY <1>1, <1>4 DEF Run
  <2> DEFINE f == IF a < lo THEN lo ELSE a
  <2>2. f \in Nat /\ f >= lo /\ f >= a /\ f <= i /\ f <= a + W
    BY <1>1, <1>3
  <2>3. Run(S, f, n) /\ f \in S
    BY <2>1, <2>2, <1>1 DEF Run
  <2>4. f \in Starts(S, lo, n)
    BY <2>2, <2>3 DEF Starts
  <2>5. f + b > a
    BY <2>4 DEF NoneBefore
  <2>6. f >= low
    BY <2>2, <2>5
  <2>7. f \in Starts(S, low, n)
    BY <2>3, <2>6 DEF Starts
  <2> QED BY <2>7, <2>2
<1> QED BY <1>1, <1>3, <1>4
-----------------------------------------------------------------------------
(* The wanted bits of the word at bs that the window from lo on contains.  *)
WordBits(S, lo, bs, W) == {x \in S : bs <= x /\ x < bs + W /\ x >= lo}

(* What runs in from below ends at e: no run of n bits in between starts   *)
(* before it.                                                              *)
LEMMA BeforeWord ==
  ASSUME NEW S \in SUBSET Nat, NEW lo \in Nat, NEW n \in Nat \ {0}, NEW bs \in Nat,
         NEW c \in Nat, ScannedTo(S, lo, n, bs, c), NEW W \in Nat \ {0},
         NEW e \in Nat, e >= bs, e \notin WordBits(S, lo, bs, W),
         NEW i \in Starts(S, lo, n), i < bs
  PROVE  i >= bs - c /\ (c + (e - bs) < n => e >= bs + W)
<1>1. i \in Nat /\ i >= lo /\ Run(S, i, n) /\ i + n > bs
  BY DEF Starts, ScannedTo
<1>2. i >= bs - c
  <2>1. SUFFICES ASSUME i < bs - c PROVE FALSE
    BY <1>1 DEF ScannedTo
  <2>2. bs - c - 1 \in S /\ bs - c - 1 >= lo
    BY <1>1, <2>1 DEF Run, ScannedTo
  <2> QED BY <2>2 DEF ScannedTo
<1>3. ASSUME c + (e - bs) < n, e < bs + W PROVE FALSE
  <2>1. e \in i..(i + n - 1)
    BY <1>1, <1>2, <1>3 DEF ScannedTo
  <2>2. e \in S /\ e >= lo
    BY <1>1, <2>1 DEF Run
  <2> QED BY <2>2, <1>3 DEF WordBits
<1> QED BY <1>2, <1>3, <1>1

(* The run that is carried into the word and is long enough is the first.  *)
LEMMA CarriedHit ==
  ASSUME NEW S \in SUBSET Nat, NEW lo \in Nat, NEW n \in Nat \ {0}, NEW bs \in Nat,
         NEW c \in Nat, ScannedTo(S, lo, n, bs, c), NEW W \in Nat \ {0},
         NEW e \in Nat, e >= bs, e \notin WordBits(S, lo, bs, W),
         \A j \in bs..(e - 1) : j \in WordBits(S, lo, bs, W),
         c + (e - bs) >= n
  PROVE  bs - c \in Starts(S, lo, n) /\ \A i \in Starts(S, lo, n) : bs - c <= i
<1>1. bs - c \in Nat /\ bs - c >= lo
  <2>1. CASE c > 0
    BY <2>1 DEF ScannedTo
  <2>2. CASE c = 0
    <3>1. bs \in bs..(e - 1)
      BY <2>2
    <3> QED BY <2>2, <3>1 DEF WordBits
  <2> QED BY <2>1, <2>2
<1>2. Run(S, bs - c, n)
  BY <1>1 DEF Run, ScannedTo, WordBits
<1>3. bs - c \in S
  BY <1>1, <1>2 DEF Run
<1>4. ASSUME NEW i \in Starts(S, lo, n) PROVE bs - c <= i
  <2>1. CASE i < bs
    BY <2>1, BeforeWord
  <2>2. CASE i >= bs
    BY <2>2, <1>1 DEF Starts
  <2> QED BY <2>1, <2>2 DEF Starts
<1> QED BY <1>1, <1>2, <1>3, <1>4 DEF Starts

(* If it is not, the first run inside the word is.                         *)
LEMMA InsideHit ==
  ASSUME NEW S \in SUBSET Nat, NEW lo \in Nat, NEW n \in Nat \ {0}, NEW bs \in Nat,
         NEW c \in Nat, ScannedTo(S, lo, n, bs, c), NEW W \in Nat \ {0},
         NEW e \in Nat, e >= bs, e \notin WordBits(S, lo, bs, W), c + (e - bs) < n,
         NEW r \in WordBits(S, lo, bs, W), Run(WordBits(S, lo, bs, W), r, n),
         \A i \in WordBits(S, lo, bs, W) : Run(WordBits(S, lo, bs, W), i, n) => r <= i
  PROVE  r \in Starts(S, lo, n) /\ \A i \in Starts(S, lo, n) : r <= i
<1>1. r \in Nat /\ r \in S /\ r >= lo /\ r >= bs /\ r + n <= bs + W
  <2>1. r \in Nat /\ r \in S /\ r >= lo /\ r >= bs
    BY DEF WordBits
  <2>2. r + n - 1 \in r..(r + n - 1)
    BY <2>1
  <2>3. r + n - 1 \in WordBits(S, lo, bs, W)
    BY <2>2 DEF Run
  <2> QED BY <2>1, <2>3 DEF WordBits
<1>2. Run(S, r, n)
  BY DEF WordBits, Run
<1>3. ASSUME NEW i \in Starts(S, lo, n) PROVE r <= i
  <2>1. i \in Nat /\ i >= lo /\ Run(S, i, n)
    BY DEF Starts
  <2>2. CASE i < bs
    <3>1. e >= bs + W
      BY <2>2, BeforeWord
    <3> QED BY <3>1, <1>1
  <2>3. CASE i >= bs /\ i < r
    <3>1. Run(WordBits(S, lo, bs, W), i, n) /\ i \in WordBits(S, lo, bs, W)
      BY <2>1, <2>3, <1>1 DEF Run, WordBits
    <3> QED BY <3>1, <2>1, <2>3, <1>1
  <2> QED BY <2>1, <2>2, <2>3, <1>1
<1> QED BY <1>1, <1>2, <1>3 DEF Starts

(* And if there is none, nothing is missed when the scan moves on.         *)
LEMMA WordDone ==
  ASSUME NEW S \in SUBSET Nat, NEW lo \in Nat, NEW n \in Nat \ {0}, NEW bs \in Nat,
         NEW c \in Nat, ScannedTo(S, lo, n, bs, c), NEW W \in Nat \ {0},
         NEW e \in Nat, e >= bs, e \notin WordBits(S, lo, bs, W), c + (e - bs) < n,
         \A i \in WordBits(S, lo, bs, W) : ~Run(WordBits(S, lo, bs, W), i, n),
         NEW i \in Starts(S, lo, n)
  PROVE  i + n > bs + W
<1>1. i \in Nat /\ i >= lo /\ Run(S, i, n)
  BY DEF Starts
<1>2. CASE i < bs
  <2>1. i >= bs - c /\ e >= bs + W
    BY <1>2, BeforeWord
  <2> QED BY <2>1, <1>1 DEF ScannedTo
<1>3. CASE i >= bs
  <2>1. SUFFICES ASSUME i + n <= bs + W PROVE FALSE
    BY <1>1
  <2>2. Run(WordBits(S, lo, bs, W), i, n) /\ i \in WordBits(S, lo, bs, W)
    BY <1>1, <1>3, <2>1 DEF Run, WordBits
  <2> QED BY <2>2
<1> QED BY <1>1, <1>2, <1>3

(* A word of wanted bits lengthens the run.                                *)
LEMMA FullWord ==
  ASSUME NEW S \in SUBSET Nat, NEW lo \in Nat, NEW n \in Nat \ {0}, NEW bs \in Nat,
         NEW c \in Nat, ScannedTo(S, lo, n, bs, c), NEW W \in Nat \ {0},
         bs + W \notin WordBits(S, lo, bs, W),
         \A j \in bs..(bs + W - 1) : j \in WordBits(S, lo, bs, W), c + W < n,
         \A i \in WordBits(S, lo, bs, W) : ~Run(WordBits(S, lo, bs, W), i, n)
  PROVE  ScannedTo(S, lo, n, bs + W, c + W)
<1>1. \A i \in Starts(S, lo, n) : i + n > bs + W
  BY WordDone
<1>2. bs - c >= lo
  <2>1. bs \in bs..(bs + W - 1)
    OBVIOUS
  <2>2. bs >= lo
    BY <2>1 DEF WordBits
  <2> QED BY <2>2 DEF ScannedTo
<1>3. Run(S, bs - c, c + W)
  BY <1>2 DEF ScannedTo, Run, WordBits
<1> QED BY <1>1, <1>2, <1>3 DEF ScannedTo

(* Any other word leaves the run at its top.                               *)
LEMMA TopOfWord ==
  ASSUME NEW S \in SUBSET Nat, NEW lo \in Nat, NEW n \in Nat \ {0}, NEW bs \in Nat,
         NEW c \in Nat, ScannedTo(S, lo, n, bs, c), NEW W \in Nat \ {0},
         NEW e \in Nat, e >= bs, e \notin WordBits(S, lo, bs, W), c + (e - bs) < n,
         e < bs + W,
         \A i \in WordBits(S, lo, bs, W) : ~Run(WordBits(S, lo, bs, W), i, n),
         NEW t \in bs..(bs + W), Run(WordBits(S, lo, bs, W), t, bs + W - t),
         \A x \in bs..(bs + W) : Run(WordBits(S, lo, bs, W), x, bs + W - x) => t <= x
  PROVE  ScannedTo(S, lo, n, bs + W, bs + W - t)
<1>1. \A i \in Starts(S, lo, n) : i + n > bs + W
  BY WordDone
<1>2. t > e
  BY DEF Run
<1>3. ~(t - 1 \in S /\ t - 1 >= lo)
  <2>1. SUFFICES ASSUME t - 1 \in S, t - 1 >= lo PROVE FALSE
    OBVIOUS
  <2>2. t - 1 \in WordBits(S, lo, bs, W)
    BY <1>2, <2>1 DEF WordBits
  <2>3. Run(WordBits(S, lo, bs, W), t - 1, bs + W - (t - 1))
    BY <2>2 DEF Run
  <2> QED BY <2>3, <1>2
<1>4. bs + W - t < n
  <2>1. SUFFICES ASSUME bs + W - t >= n PROVE FALSE
    OBVIOUS
  <2>2. Run(WordBits(S, lo, bs, W), t, n) /\ t \in WordBits(S, lo, bs, W)
    BY <2>1 DEF Run
  <2> QED BY <2>2
<1>5. t < bs + W => t >= lo
  BY DEF Run, WordBits
<1>6. Run(S, t, bs + W - t)
  BY DEF Run, WordBits
<1> QED BY <1>1, <1>3, <1>4, <1>5, <1>6 DEF ScannedTo
-----------------------------------------------------------------------------
(* The invariant: what is known at each point of the program.              *)
Sought == Wanted(was, call.want, call.size)
Block  == BlockFor(call.num)

Searching == pc \in {"entry", "mark", "pass", "skip", "measure", "core"}
Untouched == Searching \/ pc = "flip" => bits = was
Unanswered == Searching => reply = Pending
Asking == pc \notin {"entry", "done"} => ~call.null /\ call.num \in 1..call.size

(* The marks are the starts of the runs that are as long as has been       *)
(* shifted so far.                                                         *)
AtMark ==
  pc = "mark" =>
    /\ InOneWord /\ owed < call.num
    /\ y = {i \in Sought : Run(Sought, i, call.num - owed)}
    /\ owed > 0 => step = call.num - owed

(* The second pass comes after a first one that has found nothing.         *)
InPass ==
  pc \in {"pass", "skip", "measure", "core"} =>
    /\ first = IF again THEN 0 ELSE HintOf(call)
    /\ again => Starts(Sought, HintOf(call), call.num) = {}

(* Before the cursor, and before a witness, there is no room for a run.    *)
Skipped(at) == call.num >= 3 /\ NoneBefore(Sought, first, call.num, Block, at)
AtSkip    == pc = "skip" => Skipped(cursor) /\ first < cursor + Byte
AtMeasure ==
  pc = "measure" \/ (pc = "core" /\ back = "reject") =>
    Skipped(cand) /\ first < cand + 2 * Byte /\ cand <= Alloc

(* The window of the word scanner has every run of the pass, and none that *)
(* ends before the word it looks at; it reaches the end of the buffer, or  *)
(* a word beyond what a run around the witness could reach.                *)
AtCore ==
  pc = "core" =>
    /\ first <= from /\ Starts(Sought, first, call.num) = Starts(Sought, from, call.num)
    /\ ScannedTo(Sought, from, call.num, base, carry)
    /\ carry > 0 => start = base - carry
    /\ Multiple(base, Ulong) /\ till <= Alloc
    /\ back = "end" => till = Alloc
    /\ back = "reject" => \/ till = Alloc \/ till > cand + call.num + Word
                          \/ Starts(Sought, first, call.num) = {}

(* What is inverted is the answer.                                         *)
AtFlip ==
  pc \in {"flip", "vector", "element"} =>
    call.write /\ reply \in Nat /\ End <= call.size /\ reply = Search(Sought, call)
AtFill ==
  pc \in {"vector", "element"} =>
    /\ bits = Flipped(Flipped(was, call.want, reply, k), call.want, stop, End)
    /\ reply < k /\ k <= stop /\ stop < End
    /\ Multiple(k, Ulong) /\ Multiple(stop, Ulong)
    /\ pc = "vector" => reply <= stop - Chunk
    /\ pc = "element" => k < stop
AtDone ==
  pc = "done" => reply = Search(Sought, call) /\ bits = After(was, call, reply)

Inv ==
  /\ TypeOK /\ InsideBuffer /\ Untouched /\ Unanswered /\ Asking
  /\ AtMark /\ InPass /\ AtSkip /\ AtMeasure /\ AtCore /\ AtFlip /\ AtFill /\ AtDone
-----------------------------------------------------------------------------
(* Sizes and multiples.                                                    *)

LEMMA Sizes ==
  /\ Ulong \in Nat \ {0} /\ Byte \in Nat \ {0} /\ Byte <= Ulong
  /\ Word \in Nat \ {0} /\ Word = 2 * Ulong /\ Chunk \in Nat \ {0}
  /\ Chunk = Vec * Ulong /\ Vec \in Nat \ {0}
<1>1. Ulong \in Nat \ {0} /\ Byte \in Nat \ {0} /\ Vec \in Nat \ {0} /\ Ulong % Byte = 0
  BY SizesAssumption, ByteAssumption
<1>2. Byte <= Ulong
  BY <1>1
<1>3. Chunk \in Nat /\ Chunk # 0
  BY <1>1 DEF Chunk
<1> QED BY <1>1, <1>2, <1>3 DEF Word, Chunk

LEMMA MultipleSum ==
  ASSUME NEW x \in Int, NEW z \in Int, NEW b \in Nat \ {0}, Multiple(x, b), Multiple(z, b)
  PROVE  Multiple(x + z, b) /\ Multiple(x - z, b)
<1>1. PICK i \in Int, j \in Int : x = i * b /\ z = j * b
  BY DEF Multiple
<1>2. x + z = (i + j) * b /\ x - z = (i - j) * b
  BY <1>1
<1>3. i + j \in Int /\ i - j \in Int
  OBVIOUS
<1> QED BY <1>2, <1>3 DEF Multiple

LEMMA MultipleGap ==
  ASSUME NEW x \in Int, NEW z \in Int, NEW b \in Nat \ {0}, Multiple(x, b), Multiple(z, b), x < z
  PROVE  x + b <= z
<1>1. PICK i \in Int, j \in Int : x = i * b /\ z = j * b
  BY DEF Multiple
<1>2. i < j
  <2>1. SUFFICES ASSUME j <= i PROVE FALSE
    OBVIOUS
  <2>2. PICK d \in Nat : i = j + d
    BY <2>1
  <2>3. x = j * b + d * b /\ d * b >= 0
    BY <1>1, <2>2
  <2> QED BY <1>1, <2>3
<1>3. PICK d \in Nat : j = i + 1 + d
  BY <1>2
<1>4. z = i * b + b + d * b /\ d * b >= 0
  BY <1>1, <1>3
<1> QED BY <1>1, <1>4

LEMMA DownIs ==
  ASSUME NEW x \in Nat, NEW b \in Nat \ {0}
  PROVE  /\ Down(x, b) \in Nat /\ Down(x, b) <= x /\ x < Down(x, b) + b
         /\ Multiple(Down(x, b), b)
<1>1. x % b \in 0..(b - 1) /\ x % b <= x
  OBVIOUS
<1>2. x - (x % b) = (x \div b) * b /\ x \div b \in Int
  OBVIOUS
<1> QED BY <1>1, <1>2 DEF Down, Multiple

LEMMA AllocIs ==
  ASSUME call.size \in Nat
  PROVE  /\ Alloc \in Nat /\ call.size <= Alloc /\ Alloc < call.size + Ulong
         /\ Multiple(Alloc, Ulong)
<1> DEFINE s == call.size
<1> HIDE DEF s
<1>0. s \in Nat /\ Ulong \in Nat \ {0} /\ -s \in Int
  BY Sizes DEF s
<1>1. (-s) % Ulong \in 0..(Ulong - 1)
  BY <1>0
<1>2. -s = ((-s) \div Ulong) * Ulong + ((-s) % Ulong) /\ (-s) \div Ulong \in Int
  BY <1>0
<1> DEFINE q == (-s) \div Ulong
<1>3. s + ((-s) % Ulong) = (-q) * Ulong /\ -q \in Int
  <2> DEFINE r == (-s) % Ulong
  <2>1. r \in Int /\ q \in Int /\ -s = q * Ulong + r
    BY <1>1, <1>2
  <2> HIDE DEF q, r
  <2>2. (-q) * Ulong = -(q * Ulong)
    BY <2>1, <1>0
  <2>3. q * Ulong \in Int
    BY <2>1, <1>0
  <2>4. s + r = (-q) * Ulong
    BY <2>1, <2>2, <2>3, <1>0
  <2> QED BY <2>1, <2>4 DEF r
<1>4. Alloc = s + ((-s) % Ulong)
  BY DEF Alloc, s
<1>5. Multiple(Alloc, Ulong)
  BY <1>3, <1>4 DEF Multiple
<1> QED BY <1>0, <1>1, <1>4, <1>5 DEF s
(* The witness block of a run of three bits or more.                       *)
LEMMA BlockIs ==
  ASSUME NEW n \in Nat, n >= 3
  PROVE  /\ BlockFor(n) \in 2..Word /\ n >= 2 * BlockFor(n) - 1
         /\ n >= 2 * Byte - 1 => Byte <= BlockFor(n)
<1> DEFINE Good == {b \in Blocks : n >= 2 * b - 1}
           Gaps == {Word - b : b \in Good}
<1>1. Good \subseteq 2..Word /\ 2 \in Good
  BY BlocksAssumption, Sizes
<1>2. Gaps \in SUBSET Nat /\ Gaps # {}
  BY <1>1, Sizes
<1>3. Lowest(Gaps) \in Gaps /\ \A j \in Gaps : Lowest(Gaps) <= j
  BY <1>2, LowestIs
<1>4. PICK b \in Good : Lowest(Gaps) = Word - b
  BY <1>3
<1>5. \A c \in Good : c <= b
  <2>1. TAKE c \in Good
  <2>2. Word - c \in Gaps
    OBVIOUS
  <2>3. Word - b <= Word - c
    BY <1>3, <1>4, <2>2
  <2>4. b \in 2..Word /\ c \in 2..Word
    BY <1>1
  <2> QED BY <2>3, <2>4, Sizes
<1>6. b \in Blocks /\ n >= 2 * b - 1 /\ \A c \in Blocks : n >= 2 * c - 1 => c <= b
  BY <1>5
<1>7. BlockFor(n) \in Blocks /\ n >= 2 * BlockFor(n) - 1
      /\ \A c \in Blocks : n >= 2 * c - 1 => c <= BlockFor(n)
  BY <1>6 DEF BlockFor
<1> QED BY <1>1, <1>7, BlocksAssumption

(* What the searches for ends and starts of runs return.                   *)
LEMMA RunEndIs ==
  ASSUME NEW S \in SUBSET Nat, NEW a \in Nat, Alloc \in Nat, a <= Alloc, Alloc \notin S
  PROVE  /\ RunEnd(S, a) \in a..Alloc /\ RunEnd(S, a) \notin S
         /\ \A j \in a..(RunEnd(S, a) - 1) : j \in S
<1> DEFINE E == {e \in a..Alloc : e \notin S}
<1>1. E \in SUBSET Nat /\ E # {}
  <2>1. Alloc \in E
    OBVIOUS
  <2> QED BY <2>1
<1>2. Lowest(E) \in E /\ \A j \in E : Lowest(E) <= j
  BY <1>1, LowestIs
<1>3. RunEnd(S, a) = Lowest(E)
  BY DEF RunEnd
<1> HIDE DEF E
<1>4. Lowest(E) \in a..Alloc /\ Lowest(E) \notin S
  BY <1>2 DEF E
<1>5. ASSUME NEW j \in a..(Lowest(E) - 1) PROVE j \in S
  BY <1>2, <1>4 DEF E
<1> QED BY <1>3, <1>4, <1>5

LEMMA RunStartIs ==
  ASSUME NEW a \in Nat, first \in Nat, first <= a
  PROVE  /\ WordBelow(a) \in first..a
         /\ WordBelow(a) <= first \/ WordBelow(a) <= a - Word
         /\ RunStart(a) \in WordBelow(a)..a /\ Run(Raw, RunStart(a), a - RunStart(a))
         /\ \A i \in WordBelow(a)..a : Run(Raw, i, a - i) => RunStart(a) <= i
<1> DEFINE E == {s \in WordBelow(a)..a : Run(Raw, s, a - s)}
<1>1. WordBelow(a) \in first..a /\ (WordBelow(a) <= first \/ WordBelow(a) <= a - Word)
  BY Sizes DEF WordBelow
<1>2. a \in E
  BY <1>1 DEF Run
<1>3. E \in SUBSET Nat /\ E # {}
  BY <1>1, <1>2
<1>4. Lowest(E) \in E /\ \A j \in E : Lowest(E) <= j
  BY <1>3, LowestIs
<1>5. RunStart(a) = Lowest(E)
  BY DEF RunStart
<1> QED BY <1>1, <1>4, <1>5

(* The arguments of a call.                                                *)
LEMMA CallIs ==
  ASSUME call \in Calls
  PROVE  /\ call.size \in Nat /\ call.num \in Nat /\ call.hint \in Nat
         /\ call.want \in {"set", "clear"} /\ call.write \in BOOLEAN /\ call.null \in BOOLEAN
         /\ HintOf(call) \in Nat /\ (call.size > 0 => HintOf(call) < call.size)
         /\ call.size + Word <= Span /\ Span \in Nat
<1>1. call \in [size : Nat, num : Nat, hint : Nat, want : {"set", "clear"},
                write : BOOLEAN, null : BOOLEAN]
  BY CallsAssumption
<1> QED BY <1>1, SpanAssumption DEF HintOf

(* The wanted bits lie in the bitmap, and all runs of them, too.           *)
LEMMA SoughtIs ==
  ASSUME call \in Calls
  PROVE  /\ Sought \in SUBSET Nat /\ Sought \subseteq 0..(call.size - 1)
         /\ bits = was => Goal = Sought /\ Sought \subseteq Raw
         /\ Raw \in SUBSET Nat /\ Alloc \notin Raw /\ Alloc \notin Sought
<1>1. call.size \in Nat /\ Alloc \in Nat /\ call.size <= Alloc
  BY CallIs, AllocIs
<1> QED BY <1>1 DEF Sought, Goal, Raw, Wanted

LEMMA RunInside ==
  ASSUME call \in Calls, NEW lo \in Nat, NEW n \in Nat \ {0}, NEW i \in Starts(Sought, lo, n)
  PROVE  i \in Nat /\ i >= lo /\ i + n <= call.size
<1>1. i \in Nat /\ i >= lo /\ Run(Sought, i, n)
  BY SoughtIs DEF Starts
<1>2. i + n - 1 \in i..(i + n - 1)
  BY <1>1
<1>3. i + n - 1 \in Sought
  BY <1>1, <1>2 DEF Run
<1> QED BY <1>1, <1>3, SoughtIs, CallIs
(* The first run of the pass is the answer, and if there is none in the    *)
(* last pass, there is none at all.                                        *)
LEMMA AnswerIs ==
  ASSUME call \in Calls, ~call.null, call.num \in 1..call.size,
         first = IF again THEN 0 ELSE HintOf(call),
         again => Starts(Sought, HintOf(call), call.num) = {},
         NEW r \in Starts(Sought, first, call.num),
         \A i \in Starts(Sought, first, call.num) : r <= i
  PROVE  /\ r \in Nat /\ r # NotFound /\ r + call.num <= call.size
         /\ Search(Sought, call) = r
<1>1. first \in Nat /\ call.num \in Nat \ {0} /\ HintOf(call) \in Nat /\ call.num <= call.size
  BY CallIs
<1>2. r \in Nat /\ r >= first /\ r + call.num <= call.size
  BY <1>1, RunInside
<1>3. Scan(Sought, first, call.num) = r
  <2>1. r \in Sought /\ Run(Sought, r, call.num)
    BY DEF Starts
  <2>2. \A i \in Sought : i >= first /\ Run(Sought, i, call.num) => r <= i
    BY DEF Starts
  <2> QED BY <1>1, <1>2, <2>1, <2>2, ScanIs, SoughtIs
<1>4. again => Scan(Sought, HintOf(call), call.num) = NotFound
  BY ScanFails DEF Starts
<1>5. r # NotFound
  BY <1>2 DEF NotFound
<1>6. call.num # 0 /\ ~(call.num > call.size)
  BY <1>1, CallIs
<1>7. Search(Sought, call) = r
  <2>1. CASE again
    BY <1>3, <1>4, <1>6, <2>1 DEF Search
  <2>2. CASE ~again
    BY <1>3, <1>5, <1>6, <2>2 DEF Search
  <2> QED BY <2>1, <2>2
<1> QED BY <1>2, <1>5, <1>7

LEMMA NoAnswer ==
  ASSUME call \in Calls, ~call.null, call.num \in 1..call.size,
         first = IF again THEN 0 ELSE HintOf(call),
         again => Starts(Sought, HintOf(call), call.num) = {},
         again \/ HintOf(call) = 0,
         Starts(Sought, first, call.num) = {}
  PROVE  Search(Sought, call) = NotFound
<1>1. first = 0 /\ call.num # 0 /\ call.num <= call.size
  BY CallIs
<1>2. Scan(Sought, 0, call.num) = NotFound
  BY <1>1, ScanFails DEF Starts
<1>3. Scan(Sought, HintOf(call), call.num) = NotFound
  BY <1>1, <1>2, ScanFails DEF Starts
<1> QED BY <1>1, <1>2, <1>3 DEF Search

(* What depends on the arguments and on what the call found stays.         *)
LEMMA Same ==
  ASSUME UNCHANGED input
  PROVE  /\ Alloc' = Alloc /\ Sought' = Sought /\ Block' = Block /\ InOneWord' = InOneWord
         /\ call' = call /\ was' = was /\ (HintOf(call))' = HintOf(call)
  BY DEF input, Alloc, Sought, Wanted, Block, BlockFor, InOneWord, HintOf
-----------------------------------------------------------------------------
(* The invariant holds to begin with.                                      *)
LEMMA InvInit == Init => Inv
<1> SUFFICES ASSUME Init PROVE Inv
  OBVIOUS
<1>1. call \in Calls /\ Alloc \in Nat
  BY CallIs, AllocIs DEF Init
<1>2. TypeOK
  BY <1>1 DEF Init, TypeOK
<1>3. InsideBuffer
  BY <1>1 DEF Init, InsideBuffer
<1> QED
  BY <1>2, <1>3 DEF Init, Inv, Searching, Untouched, Unanswered, Asking,
       AtMark, InPass, AtSkip, AtMeasure, AtCore, AtFlip, AtFill, AtDone

(* The early returns.                                                      *)
LEMMA NothingKeeps == Inv /\ Nothing => Inv'
<1> SUFFICES ASSUME Inv, Nothing PROVE Inv'
  OBVIOUS
<1>0. TypeOK /\ UNCHANGED input /\ pc' = "done" /\ bits' = bits /\ bits = was
      /\ Alloc \in Nat /\ call.size \in Nat /\ HintOf(call) \in Nat
  BY CallIs, AllocIs DEF Inv, TypeOK, Nothing, Return, Untouched, Searching
<1>1. reply' = Search(Sought, call) /\ reply' \in {NotFound} \union Nat
      /\ (reply' # NotFound => call.num = 0)
  <2>1. AtHint(call) \in Nat
    BY <1>0, ByteAssumption DEF AtHint
  <2> QED BY <2>1 DEF Nothing, Return, Search
<1>2. TypeOK'
  BY <1>0, <1>1, Same DEF TypeOK, Nothing, input, small, pass, probe, core, fill
<1>3. InsideBuffer'
  BY <1>0, Same DEF Inv, InsideBuffer, Nothing
<1>4. AtDone'
  <2>1. After(was, call, reply') = was
    BY <1>0, <1>1, CallIs DEF After, Flipped, TypeOK
  <2> QED BY <1>0, <1>1, <2>1, Same DEF AtDone
<1> QED
  BY <1>0, <1>2, <1>3, <1>4 DEF Inv, Searching, Untouched, Unanswered, Asking,
       AtMark, InPass, AtSkip, AtMeasure, AtCore, AtFlip, AtFill
(* One word: an element or two are in the buffer.                          *)
LEMMA SmallBuffer ==
  ASSUME call \in Calls, InOneWord, NEW hi \in 1..call.size
  PROVE  (IF hi <= Ulong THEN Ulong ELSE Word) <= Alloc
<1>1. call.size \in Nat /\ Alloc \in Nat /\ call.size <= Alloc /\ Multiple(Alloc, Ulong)
  BY CallIs, AllocIs
<1>2. Multiple(0, Ulong) /\ Multiple(Ulong, Ulong)
  <2>1. 0 = 0 * Ulong /\ Ulong = 1 * Ulong
    BY Sizes
  <2> QED BY <2>1 DEF Multiple
<1>3. 0 + Ulong <= Alloc
  BY <1>1, <1>2, MultipleGap, Sizes
<1>4. Alloc > Ulong => Ulong + Ulong <= Alloc
  BY <1>1, <1>2, MultipleGap, Sizes
<1> QED BY <1>1, <1>3, <1>4, Sizes

LEMMA LoadWordKeeps == Inv /\ LoadWord => Inv'
<1> SUFFICES ASSUME Inv, LoadWord PROVE Inv'
  OBVIOUS
<1>0. /\ TypeOK /\ call \in Calls /\ UNCHANGED input /\ pc' = "mark" /\ bits' = bits /\ bits = was
      /\ Alloc \in Nat /\ call.size \in Nat /\ call.num \in 1..call.size /\ ~call.null
      /\ call.size <= Alloc /\ Goal = Sought /\ Sought \subseteq 0..(call.size - 1) /\ reply = Pending
  BY CallIs, AllocIs, SoughtIs
  DEF Inv, TypeOK, LoadWord, Something, Untouched, Unanswered, Searching
<1>1. TypeOK'
  BY <1>0, Same, Sizes DEF TypeOK, LoadWord, Touch, input, pass, probe, core, fill
<1>2. InsideBuffer'
  <2>1. call.size \in 1..call.size
    BY <1>0
  <2>2. (IF call.size <= Ulong THEN Ulong ELSE Word) <= Alloc
    BY <1>0, <2>1, SmallBuffer DEF LoadWord
  <2> QED BY <1>0, <2>2, Same DEF InsideBuffer, LoadWord, Touch
<1>3. AtMark'
  <2>1. \A i \in Sought : Run(Sought, i, 1)
    BY <1>0 DEF Run
  <2>2. call.num - (call.num - 1) = 1
    BY <1>0
  <2>3. y' = {i \in Sought : Run(Sought, i, call.num - owed')}
    BY <1>0, <2>1, <2>2 DEF LoadWord
  <2> QED BY <1>0, <2>2, <2>3, Same DEF AtMark, LoadWord
<1> QED
  BY <1>0, <1>1, <1>2, <1>3, Same DEF Inv, Searching, Untouched, Unanswered, Asking, LoadWord,
       InPass, AtSkip, AtMeasure, AtCore, AtFlip, AtFill, AtDone

(* Shifting by no more than the length of the runs marked so far marks the *)
(* longer ones.                                                            *)
LEMMA MarkRunsKeeps == Inv /\ MarkRuns => Inv'
<1> SUFFICES ASSUME Inv, MarkRuns PROVE Inv'
  OBVIOUS
<1> DEFINE s == IF step < owed THEN step ELSE owed
           L == call.num - owed
<1>0. /\ TypeOK /\ call \in Calls /\ UNCHANGED input /\ pc = "mark" /\ pc' = "mark"
      /\ bits' = bits /\ bits = was /\ mem' = mem /\ reply = Pending /\ reply' = reply
      /\ Sought \in SUBSET Nat /\ call.num \in Nat /\ owed \in Nat /\ owed > 0
      /\ owed < call.num /\ step = L /\ InOneWord
      /\ y = {i \in Sought : Run(Sought, i, L)}
  BY CallIs, SoughtIs
  DEF Inv, TypeOK, MarkRuns, AtMark, Untouched, Unanswered, Searching
<1>1. L \in Nat /\ s \in 1..L /\ s <= owed /\ owed' = owed - s /\ step' = 2 * s
  BY <1>0 DEF MarkRuns
<1>2. y' = {i \in y : i + s \in y}
  BY DEF MarkRuns
<1> HIDE DEF s, L
<1>3. y' = {i \in Sought : Run(Sought, i, L + s)}
  <2>1. ASSUME NEW i \in Sought
        PROVE  i \in y /\ i + s \in y <=> Run(Sought, i, L + s)
    <3>1. i \in Nat /\ s \in 0..L
      BY <1>0, <1>1
    <3>2. Run(Sought, i, L + s) <=> Run(Sought, i, L) /\ Run(Sought, i + s, L)
      BY <1>0, <1>1, <3>1, RunsJoin
    <3>3. Run(Sought, i + s, L) => i + s \in Sought
      BY <1>1, <3>1 DEF Run
    <3> QED BY <1>0, <3>2, <3>3
  <2> QED BY <1>0, <1>2, <2>1
<1>4. call.num - owed' = L + s /\ owed' < call.num
  BY <1>0, <1>1 DEF L
<1>5. owed' > 0 => step' = call.num - owed'
  BY <1>0, <1>1, <1>4 DEF s
<1>6. AtMark'
  BY <1>0, <1>3, <1>4, <1>5, Same DEF AtMark
<1>7. TypeOK'
  <2>1. y' \subseteq y /\ owed' \in Nat /\ step' \in Nat
    BY <1>1, <1>2, <1>0
  <2> QED BY <1>0, <2>1, Same DEF TypeOK, MarkRuns, pass, probe, core, fill, input
<1> QED
  BY <1>0, <1>6, <1>7, Same DEF Inv, InsideBuffer, Searching, Untouched, Unanswered, Asking,
       InPass, AtSkip, AtMeasure, AtCore, AtFlip, AtFill, AtDone
(* Inverting bits of the bitmap leaves a bitmap.                           *)
LEMMA FlippedInside ==
  ASSUME NEW B, NEW n \in Nat, B \subseteq 0..(n - 1), NEW want,
         NEW lo \in Nat, NEW hi \in Nat, hi <= n
  PROVE  Flipped(B, want, lo, hi) \subseteq 0..(n - 1)
<1>1. lo..(hi - 1) \subseteq 0..(n - 1)
  OBVIOUS
<1> QED BY <1>1 DEF Flipped

(* Without shifting left, the marks are the runs that were asked for.      *)
LEMMA PickMarkKeeps == Inv /\ PickMark => Inv'
<1> SUFFICES ASSUME Inv, PickMark PROVE Inv'
  OBVIOUS
<1>0. /\ TypeOK /\ call \in Calls /\ UNCHANGED input /\ pc = "mark" /\ pc' = "done"
      /\ bits = was /\ Sought \in SUBSET Nat /\ Sought \subseteq 0..(call.size - 1)
      /\ call.size \in Nat /\ call.num \in 1..call.size /\ ~call.null /\ call.write /\ InOneWord
      /\ Alloc \in Nat /\ call.size <= Alloc /\ HintOf(call) \in Nat
      /\ y = {i \in Sought : Run(Sought, i, call.num)}
  <2>1. owed = 0 /\ pc = "mark" /\ pc' = "done" /\ UNCHANGED input
    BY DEF PickMark, Return
  <2>2. call \in Calls
    BY DEF Inv, TypeOK
  <2>3. call.num - 0 = call.num
    BY <2>2, CallIs
  <2> QED BY <2>1, <2>2, <2>3, CallIs, AllocIs, SoughtIs
          DEF Inv, AtMark, InOneWord, Untouched, Searching, Asking
<1> DEFINE ahead == {i \in y : i >= HintOf(call)}
           marks == IF ahead # {} THEN ahead ELSE y
           r == Lowest(marks)
<1>1. CASE y = {}
  <2>1. \A i \in Sought : ~Run(Sought, i, call.num)
    BY <1>0, <1>1
  <2>2. Scan(Sought, HintOf(call), call.num) = NotFound /\ Scan(Sought, 0, call.num) = NotFound
    BY <2>1, ScanFails
  <2>3. reply' = NotFound /\ bits' = bits /\ mem' = mem
    BY <1>1 DEF PickMark, Return
  <2>4. Search(Sought, call) = NotFound
    BY <1>0, <2>2 DEF Search
  <2>5. AtDone'
    BY <1>0, <2>3, <2>4, Same DEF AtDone, After
  <2>6. TypeOK'
    BY <1>0, <2>3, Same DEF TypeOK, PickMark, small, pass, probe, core, fill, input
  <2> QED
    BY <1>0, <2>3, <2>5, <2>6, Same DEF Inv, InsideBuffer, Searching, Untouched, Unanswered, Asking,
         AtMark, InPass, AtSkip, AtMeasure, AtCore, AtFlip, AtFill
<1>2. CASE y # {}
  <2>1. r \in marks /\ \A j \in marks : r <= j
    <3>1. marks \in SUBSET Nat /\ marks # {}
      BY <1>0, <1>2
    <3> QED BY <3>1, LowestIs
  <2>2. r \in Sought /\ Run(Sought, r, call.num) /\ r \in Nat /\ r # NotFound
    <3>1. r \in y
      BY <2>1
    <3>2. r \in Sought /\ Run(Sought, r, call.num)
      BY <3>1, <1>0
    <3> HIDE DEF r
    <3>3. r \in Nat
      BY <3>2, <1>0
    <3> QED BY <3>2, <3>3 DEF NotFound
  <2>3. r + call.num \in 1..call.size
    <3>1. r \in Starts(Sought, 0, call.num) /\ call.num \in Nat \ {0}
      BY <2>2, <1>0 DEF Starts
    <3> QED BY <1>0, <2>2, <3>1, RunInside
  <2>4. Search(Sought, call) = r
    <3>1. CASE ahead # {}
      <4>1. Scan(Sought, HintOf(call), call.num) = r
        <5>1. r >= HintOf(call)
          BY <2>1, <3>1
        <5>2. \A i \in Sought : i >= HintOf(call) /\ Run(Sought, i, call.num) => r <= i
          BY <1>0, <2>1, <3>1
        <5> HIDE DEF r
        <5> QED BY <1>0, <2>2, <5>1, <5>2, ScanIs
      <4> QED BY <1>0, <2>2, <4>1 DEF Search
    <3>2. CASE ahead = {}
      <4>1. Scan(Sought, HintOf(call), call.num) = NotFound
        BY <1>0, <3>2, ScanFails
      <4>2. Scan(Sought, 0, call.num) = r
        <5>1. r >= 0
          BY <2>2
        <5>2. \A i \in Sought : i >= 0 /\ Run(Sought, i, call.num) => r <= i
          BY <1>0, <2>1, <3>2
        <5> HIDE DEF r
        <5> QED BY <1>0, <2>2, <5>1, <5>2, ScanIs
      <4> QED BY <1>0, <4>1, <4>2 DEF Search
    <3> QED BY <3>1, <3>2
  <2>5. reply' = r /\ bits' = Flipped(bits, call.want, r, r + call.num)
        /\ mem' = [lo |-> 0, hi |-> IF r + call.num <= Ulong THEN Ulong ELSE Word]
    BY <1>2 DEF PickMark, Return, Touch
  <2> HIDE DEF r
  <2>6. AtDone'
    BY <1>0, <2>2, <2>4, <2>5, Same DEF AtDone, After
  <2>7. bits' \subseteq 0..(Alloc - 1)
    <3>1. bits \subseteq 0..(Alloc - 1)
      BY <1>0 DEF TypeOK
    <3>2. r + call.num \in Nat /\ r + call.num <= Alloc
      BY <1>0, <2>3
    <3> QED BY <1>0, <2>2, <2>5, <3>1, <3>2, FlippedInside
  <2>8. TypeOK'
    BY <1>0, <2>2, <2>5, <2>7, Same, Sizes
    DEF TypeOK, PickMark, small, pass, probe, core, fill, input
  <2>9. InsideBuffer'
    BY <1>0, <2>3, <2>5, SmallBuffer, Same DEF InsideBuffer
  <2> QED
    BY <1>0, <2>6, <2>8, <2>9, Same DEF Inv, Searching, Untouched, Unanswered, Asking,
         AtMark, InPass, AtSkip, AtMeasure, AtCore, AtFlip, AtFill
<1> QED BY <1>1, <1>2
-----------------------------------------------------------------------------
(* What every step of a pass starts from.                                  *)
LEMMA PassIs ==
  ASSUME Inv, pc \in {"pass", "skip", "measure", "core"}
  PROVE  /\ TypeOK /\ call \in Calls /\ bits = was /\ reply = Pending
         /\ call.size \in Nat /\ call.num \in Nat \ {0} /\ call.num <= call.size /\ ~call.null
         /\ Alloc \in Nat /\ call.size <= Alloc /\ Multiple(Alloc, Ulong)
         /\ first \in Nat /\ first < call.size /\ first = IF again THEN 0 ELSE HintOf(call)
         /\ again => Starts(Sought, HintOf(call), call.num) = {}
         /\ Goal = Sought /\ Sought \in SUBSET Nat /\ Sought \subseteq Raw /\ Raw \in SUBSET Nat
         /\ Alloc \notin Raw /\ Alloc \notin Sought
<1>1. /\ TypeOK /\ call \in Calls /\ bits = was /\ reply = Pending
      /\ call.num \in 1..call.size /\ ~call.null /\ first \in Nat
      /\ first = IF again THEN 0 ELSE HintOf(call)
      /\ again => Starts(Sought, HintOf(call), call.num) = {}
  BY DEF Inv, TypeOK, Untouched, Unanswered, Asking, Searching, InPass
<1> QED BY <1>1, CallIs, AllocIs, SoughtIs

(* Where a run is found, the state is good but for its types and loads.    *)
LEMMA FoundKeeps ==
  ASSUME Inv, pc \in {"pass", "skip", "measure", "core"}, UNCHANGED <<bits, input>>,
         NEW r \in Starts(Sought, first, call.num),
         \A i \in Starts(Sought, first, call.num) : r <= i,
         Found(r), TypeOK', InsideBuffer'
  PROVE  Inv'
<1>1. /\ bits' = was /\ UNCHANGED input /\ reply' = r /\ pc' = IF call.write THEN "flip" ELSE "done"
      /\ ~call.null /\ call.num \in 1..call.size /\ call.write \in BOOLEAN
  BY PassIs, CallIs DEF Found
<1>2. r \in Nat /\ r + call.num <= call.size /\ Search(Sought, call) = r
  BY PassIs, AnswerIs, <1>1
<1>3. AtFlip'
  BY <1>1, <1>2, Same DEF AtFlip, End
<1>4. AtDone'
  BY <1>1, <1>2, Same DEF AtDone, After
<1> QED
  BY <1>1, <1>3, <1>4, Same DEF Inv, Searching, Untouched, Unanswered, Asking,
       AtMark, InPass, AtSkip, AtMeasure, AtCore, AtFill
LEMMA EnterBodyKeeps == Inv /\ EnterBody => Inv'
<1> SUFFICES ASSUME Inv, EnterBody PROVE Inv'
  OBVIOUS
<1>0. /\ TypeOK /\ call \in Calls /\ UNCHANGED input /\ pc' = "pass" /\ bits' = bits /\ bits = was
      /\ call.num \in 1..call.size /\ ~call.null /\ reply' = reply /\ reply = Pending
      /\ HintOf(call) \in Nat /\ first' = HintOf(call) /\ again' = FALSE /\ mem' = mem
  BY CallIs DEF Inv, TypeOK, EnterBody, Something, Untouched, Unanswered, Searching
<1>1. TypeOK'
  BY <1>0, Same DEF TypeOK, EnterBody, input, small, probe, core, fill
<1> QED
  BY <1>0, <1>1, Same DEF Inv, InsideBuffer, Searching, Untouched, Unanswered, Asking,
       AtMark, InPass, AtSkip, AtMeasure, AtCore, AtFlip, AtFill, AtDone

LEMMA TakeAtOnceKeeps == Inv /\ TakeAtOnce => Inv'
<1> SUFFICES ASSUME Inv, TakeAtOnce PROVE Inv'
  OBVIOUS
<1>0. /\ TypeOK /\ pc = "pass" /\ UNCHANGED <<bits, input, small, pass, probe, core, fill>>
      /\ Run(Goal, first, call.num) /\ first + Word <= call.size
      /\ mem' = [lo |-> first, hi |-> first + Word] /\ Found(first)
  BY DEF Inv, TakeAtOnce, AtOnce, Touch
<1>1. first \in Starts(Sought, first, call.num)
  <2>1. first \in first..(first + call.num - 1)
    BY <1>0, PassIs
  <2> QED BY <1>0, <2>1, PassIs DEF Run, Starts
<1>2. \A i \in Starts(Sought, first, call.num) : first <= i
  BY DEF Starts
<1>3. TypeOK'
  BY <1>0, PassIs, Same, Sizes DEF TypeOK, Found, input, small, pass, probe, core, fill
<1>4. InsideBuffer'
  BY <1>0, PassIs, Same, Sizes DEF InsideBuffer
<1> QED BY <1>0, <1>1, <1>2, <1>3, <1>4, FoundKeeps

(* No run of the pass is lost when the word scanner is given a window.     *)
LEMMA EnterKeeps ==
  ASSUME Inv, pc \in {"pass", "skip", "measure"},
         NEW lo \in Nat, NEW hi \in Nat, NEW to \in {"end", "reject"},
         Enter(lo, hi, to), UNCHANGED <<bits, input, reply, small, pass, probe, fill, mem>>,
         first <= lo, Starts(Sought, first, call.num) = Starts(Sought, lo, call.num), hi <= Alloc,
         to = "end" => hi = Alloc,
         to = "reject" =>
           /\ Skipped(cand) /\ first < cand + 2 * Byte /\ cand <= Alloc
           /\ \/ hi = Alloc \/ hi > cand + call.num + Word
              \/ Starts(Sought, first, call.num) = {}
  PROVE  Inv'
<1>0. /\ from' = lo /\ till' = hi /\ back' = to /\ base' = Down(lo, Word)
      /\ carry' = 0 /\ start' = 0 /\ pc' = "core"
      /\ bits' = bits /\ reply' = reply /\ mem' = mem /\ UNCHANGED input
      /\ first' = first /\ again' = again /\ cursor' = cursor /\ cand' = cand
  BY DEF Enter, pass, probe
<1>1. Down(lo, Word) \in Nat /\ Down(lo, Word) <= lo /\ Multiple(Down(lo, Word), Ulong)
  <2>1. PICK j \in Int : Down(lo, Word) = j * Word
    BY DownIs, Sizes DEF Multiple
  <2>2. Down(lo, Word) = (2 * j) * Ulong /\ 2 * j \in Int
    BY <2>1, Sizes
  <2>3. Multiple(Down(lo, Word), Ulong)
    BY <2>2 DEF Multiple
  <2> QED BY <2>3, DownIs, Sizes
<1>2. ScannedTo(Sought, lo, call.num, Down(lo, Word), 0)
  BY <1>1, PassIs DEF ScannedTo, Starts
<1>3. AtCore'
  BY <1>0, <1>1, <1>2, Same, PassIs DEF AtCore, Starts, ScannedTo, Run
<1>4. AtMeasure'
  BY <1>0, Same DEF AtMeasure, Skipped, NoneBefore
<1>5. TypeOK'
  BY <1>0, <1>1, PassIs, Same DEF TypeOK, small, pass, probe, fill, input
<1>6. InPass'
  BY <1>0, PassIs, Same DEF InPass, Starts
<1> QED
  BY <1>0, <1>3, <1>4, <1>5, <1>6, PassIs, Same
  DEF Inv, InsideBuffer, Searching, Untouched, Unanswered, Asking,
      AtMark, AtSkip, AtFlip, AtFill, AtDone

LEMMA ScanOnlyKeeps == Inv /\ ScanOnly => Inv'
<1> SUFFICES ASSUME Inv, ScanOnly PROVE Inv'
  OBVIOUS
<1>1. pc = "pass" /\ Enter(first, Alloc, "end")
      /\ UNCHANGED <<bits, input, reply, small, pass, probe, fill, mem>>
  BY DEF ScanOnly
<1> QED BY <1>1, PassIs, EnterKeeps

LEMMA StartSkippingKeeps == Inv /\ StartSkipping => Inv'
<1> SUFFICES ASSUME Inv, StartSkipping PROVE Inv'
  OBVIOUS
<1>0. /\ pc = "pass" /\ pc' = "skip" /\ cursor' = Down(first, Byte) /\ call.num >= 3
      /\ bits' = bits /\ reply' = reply /\ mem' = mem /\ UNCHANGED input
      /\ first' = first /\ again' = again /\ cand' = cand /\ UNCHANGED <<small, core, fill>>
  BY DEF StartSkipping, pass
<1>1. cursor' \in Nat /\ cursor' <= first /\ first < cursor' + Byte
  BY <1>0, PassIs, DownIs, Sizes
<1>2. NoneBefore(Sought, first, call.num, Block, cursor')
  BY <1>0, <1>1, PassIs, BlockIs DEF NoneBefore, Starts, Block
<1>3. AtSkip'
  BY <1>0, <1>1, <1>2, Same DEF AtSkip, Skipped, NoneBefore
<1>4. TypeOK'
  BY <1>0, <1>1, PassIs, Same DEF TypeOK, small, core, fill, input
<1>5. InPass'
  BY <1>0, PassIs, Same DEF InPass, Starts
<1> QED
  BY <1>0, <1>3, <1>4, <1>5, PassIs, Same
  DEF Inv, InsideBuffer, Searching, Untouched, Unanswered, Asking,
      AtMark, AtMeasure, AtCore, AtFlip, AtFill, AtDone
(* A byte behind a byte.                                                   *)
LEMMA WithinBytes ==
  ASSUME NEW f \in Nat, NEW a \in Nat, NEW p \in Nat, NEW d \in Nat, NEW b \in Nat,
         f < a + b, a <= p, p < d + b
  PROVE  f < d + 2 * b
OBVIOUS

(* A vector without a witness has no room for a run, and one with a        *)
(* witness has none before it.                                             *)
LEMMA SkipKeeps == Inv /\ Skip => Inv'
<1> SUFFICES ASSUME Inv, Skip PROVE Inv'
  OBVIOUS
<1>0. /\ pc = "skip" /\ bits' = bits /\ reply' = reply /\ UNCHANGED input
      /\ first' = first /\ again' = again /\ UNCHANGED <<small, core, fill>>
      /\ mem' = [lo |-> cursor, hi |-> cursor + Chunk] /\ cursor + Chunk <= Alloc
  BY DEF Skip, Touch, pass
<1>1. /\ cursor \in Nat /\ cand \in Nat /\ call.num \in Nat /\ call.num >= 3 /\ first < cursor + Byte
      /\ NoneBefore(Sought, first, call.num, Block, cursor) /\ first \in Nat /\ Alloc \in Nat
  BY <1>0, PassIs DEF Inv, AtSkip, Skipped, TypeOK
<1>2. Block \in 2..Word /\ call.num >= 2 * Block - 1 /\ Block = BlockFor(call.num)
  BY <1>1, BlockIs DEF Block
<1>3. Block \in Nat \ {0}
  BY <1>2, Sizes
<1>4. \A end \in Nat :
        (\A p \in cursor..(end - 1) : p \in cursor..(cursor + Chunk - 1) /\ p \notin Witnesses(cursor))
        => NoneBefore(Sought, first, call.num, Block, end)
  <2>1. TAKE end \in Nat
  <2>2. HAVE \A p \in cursor..(end - 1) :
               p \in cursor..(cursor + Chunk - 1) /\ p \notin Witnesses(cursor)
  <2>3. \A p \in cursor..(end - 1) : (p - cursor) % Block = 0 => ~Run(Raw, p, Block)
    BY <2>2, <1>2 DEF Witnesses
  <2> QED BY <1>0, <1>1, <1>2, <1>3, <2>3, PassIs, NothingSkipped
<1>5. TypeOK /\ InsideBuffer'
  BY <1>0, <1>1, PassIs, Same, Sizes DEF InsideBuffer
<1>6. CASE Witnesses(cursor) = {}
  <2>1. cursor' = cursor + Chunk /\ pc' = pc /\ cand' = cand /\ cursor' \in Nat
    BY <1>0, <1>1, <1>6, Sizes DEF Skip
  <2>2. NoneBefore(Sought, first, call.num, Block, cursor')
    BY <1>1, <1>4, <1>6, <2>1, Sizes
  <2>3. first < cursor' + Byte
    BY <1>1, <2>1, Sizes
  <2>4. AtSkip'
    BY <1>0, <1>1, <2>1, <2>2, <2>3, Same DEF AtSkip, Skipped, NoneBefore
  <2>5. TypeOK'
    BY <1>0, <1>1, <1>5, <2>1, Same, Sizes DEF TypeOK, small, core, fill, input
  <2>6. InPass'
    BY <1>0, PassIs, Same DEF InPass, Starts
  <2> QED
    BY <1>0, <1>5, <2>1, <2>4, <2>5, <2>6, PassIs, Same
    DEF Inv, Searching, Untouched, Unanswered, Asking, AtMark, AtMeasure, AtCore, AtFlip, AtFill, AtDone
<1>7. CASE Witnesses(cursor) # {}
  <2> DEFINE p == Lowest(Witnesses(cursor))
  <2>1. p \in Witnesses(cursor) /\ \A q \in Witnesses(cursor) : p <= q
    <3>1. Witnesses(cursor) \in SUBSET Nat
      BY <1>1, Sizes DEF Witnesses
    <3> QED BY <3>1, <1>7, LowestIs
  <2>2. cand' = Down(p, Byte) /\ pc' = "measure" /\ cursor' = cursor
    BY <1>7 DEF Skip
  <2> HIDE DEF p
  <2>3. p \in cursor..(cursor + Chunk - 1)
    BY <2>1 DEF Witnesses
  <2>4. p \in Nat /\ cursor <= p /\ p <= cursor + Chunk - 1
    BY <2>3, <1>1, Sizes
  <2>5. cand' \in Nat /\ cand' <= p /\ p < cand' + Byte
    BY <2>2, <2>4, DownIs, Sizes
  <2>6. NoneBefore(Sought, first, call.num, Block, p)
    <3>1. \A q \in cursor..(p - 1) : q \in cursor..(cursor + Chunk - 1) /\ q \notin Witnesses(cursor)
      BY <2>1, <2>4, <1>1, Sizes
    <3> QED BY <3>1, <2>4, <1>4
  <2>7. NoneBefore(Sought, first, call.num, Block, cand')
    BY <2>4, <2>5, <2>6, <1>2, <1>3, PassIs, <1>0 DEF NoneBefore, Starts
  <2>8. first < cand' + 2 * Byte /\ cand' <= Alloc
    <3>1. Byte \in Nat /\ Chunk \in Nat
      BY Sizes
    <3>2. p <= Alloc
      BY <1>0, <1>1, <2>4, <3>1
    <3>3. first < cand' + 2 * Byte
      BY <1>1, <2>4, <2>5, <3>1, WithinBytes
    <3> QED BY <1>1, <2>4, <2>5, <3>2, <3>3
  <2>9. AtMeasure'
    BY <1>0, <1>1, <2>2, <2>7, <2>8, Same DEF AtMeasure, Skipped, NoneBefore
  <2>10. TypeOK'
    BY <1>0, <1>1, <1>5, <2>2, <2>5, Same, Sizes DEF TypeOK, small, core, fill, input
  <2>11. InPass'
    BY <1>0, PassIs, Same DEF InPass, Starts
  <2> QED
    BY <1>0, <1>5, <2>2, <2>9, <2>10, <2>11, PassIs, Same
    DEF Inv, Searching, Untouched, Unanswered, Asking, AtMark, AtSkip, AtCore, AtFlip, AtFill, AtDone
<1> QED BY <1>6, <1>7

(* The window that begins a word before a bit has every run that reaches   *)
(* over the bit.                                                           *)
LEMMA WindowIs ==
  ASSUME Inv, pc \in {"skip", "measure"}, NEW at \in Nat, Skipped(at)
  PROVE  /\ WindowFrom(at) \in Nat /\ first <= WindowFrom(at)
         /\ Starts(Sought, first, call.num) = Starts(Sought, WindowFrom(at), call.num)
         /\ WindowFrom(at) <= first \/ WindowFrom(at) <= at - Block
<1>1. Block \in 2..Word /\ call.num >= 3 /\ call.num \in Nat
  BY PassIs, BlockIs DEF Skipped, Block
<1>2. WindowFrom(at) \in Nat /\ first <= WindowFrom(at)
      /\ (WindowFrom(at) <= first \/ WindowFrom(at) = at - Word)
  BY PassIs, Sizes DEF WindowFrom
<1>3. WindowFrom(at) <= first \/ WindowFrom(at) <= at - Block
  BY <1>1, <1>2, Sizes
<1> DEFINE w == WindowFrom(at)
<1> HIDE DEF w
<1>4. \A i \in Starts(Sought, first, call.num) : i >= w
  BY <1>1, <1>2, <1>3, PassIs, Sizes DEF Skipped, NoneBefore, Starts, w
<1>5. Starts(Sought, first, call.num) = Starts(Sought, w, call.num)
  BY <1>2, <1>4, PassIs DEF Starts, w
<1> QED BY <1>2, <1>3, <1>5 DEF w

LEMMA TailKeeps == Inv /\ Tail => Inv'
<1> SUFFICES ASSUME Inv, Tail PROVE Inv'
  OBVIOUS
<1>1. /\ pc = "skip" /\ Enter(WindowFrom(cursor), Alloc, "end")
      /\ UNCHANGED <<bits, input, reply, small, pass, probe, fill, mem>>
  BY DEF Tail
<1>2. cursor \in Nat /\ Skipped(cursor)
  BY <1>1, PassIs DEF Inv, AtSkip, TypeOK
<1> QED BY <1>1, <1>2, PassIs, WindowIs, EnterKeeps
LEMMA ByteLater ==
  ASSUME NEW f \in Nat, NEW a \in Nat, NEW d \in Nat, NEW b \in Nat \ {0}, f <= a, d >= a + b
  PROVE  f < d + b
OBVIOUS

(* Stepping over a run moves on by a byte at least, and not past its end.  *)
LEMMA StepOverIs ==
  ASSUME NEW e \in Nat, cand \in Nat
  PROVE  /\ StepOver(e) \in Nat /\ StepOver(e) >= cand + Byte
         /\ StepOver(e) = cand + Byte \/ StepOver(e) <= e
<1> DEFINE d == Down(e, Byte)
<1>1. Byte \in Nat \ {0}
  BY Sizes
<1>2. d \in Nat /\ d <= e
  BY <1>1, DownIs
<1>3. StepOver(e) = IF d < cand + Byte THEN cand + Byte ELSE d
  BY DEF StepOver
<1> HIDE DEF d
<1> QED BY <1>1, <1>2, <1>3

(* Measuring in place: the run around the witness is the first of the      *)
(* pass, or none that counts starts before its end.                        *)
LEMMA MeasureKeeps == Inv /\ Measure => Inv'
<1> SUFFICES ASSUME Inv, Measure PROVE Inv'
  OBVIOUS
<1> DEFINE low == WordBelow(cand)
           s == RunStart(cand)
           e == RunEnd(Raw, cand)
           n == call.num
<1>0. /\ pc = "measure" /\ bits' = bits /\ UNCHANGED <<bits, input>>
      /\ first' = first /\ again' = again /\ cand' = cand /\ UNCHANGED <<small, core, fill>>
      /\ mem' = [lo |-> IF cand < Word THEN 0 ELSE cand - Word, hi |-> cand + n + Word]
      /\ n >= 2 * Byte - 1 /\ cand >= first /\ cand + n + 2 * Word <= call.size
  BY DEF Measure, Around, Touch, Away, pass
<1>1. /\ cand \in Nat /\ cand <= Alloc /\ n \in Nat \ {0} /\ n >= 3
      /\ NoneBefore(Sought, first, n, Block, cand) /\ first \in Nat /\ Alloc \in Nat
      /\ Sought \in SUBSET Nat /\ Raw \in SUBSET Nat /\ Sought \subseteq Raw /\ Goal = Sought
      /\ TypeOK /\ call.size \in Nat /\ call.size <= Alloc /\ reply = Pending /\ bits = was
      /\ Alloc \notin Raw
  BY <1>0, PassIs DEF Inv, AtMeasure, Skipped, TypeOK
<1>2. Block \in Nat \ {0} /\ Block <= Word /\ n >= 2 * Block - 1 /\ Byte <= Block
  BY <1>0, <1>1, BlockIs, Sizes DEF Block
<1>3. /\ low \in first..cand /\ (low <= first \/ low <= cand - Block)
      /\ s \in low..cand /\ Run(Raw, s, cand - s)
      /\ \A i \in low..cand : Run(Raw, i, cand - i) => s <= i
  <2>1. low <= cand - Word => low <= cand - Block
    BY <1>0, <1>1, <1>2, RunStartIs, Sizes
  <2> QED BY <1>0, <1>1, <2>1, RunStartIs
<1>4. e \in cand..Alloc /\ e \notin Raw /\ \A j \in cand..(e - 1) : j \in Raw
  BY <1>0, <1>1, RunEndIs
<1>5. Raw \intersect (0..(call.size - 1)) = Sought
  BY <1>1, CallIs, AllocIs DEF Raw, Sought, Wanted, TypeOK
<1> HIDE DEF low, s, e
<1>6. s \in Nat /\ low \in Nat /\ e \in Nat /\ low <= s /\ s <= cand /\ cand <= e /\ first <= low
  BY <1>1, <1>3, <1>4
<1>7. TypeOK /\ InsideBuffer'
  BY <1>0, <1>1, Same, Sizes DEF InsideBuffer
<1>8. mem' \in [lo : Nat, hi : Nat]
  BY <1>0, <1>1, Sizes
<1>9. CASE e - s >= n
  <2>1. Found(s) /\ cursor' = cursor
    BY <1>9 DEF Measure, Long, s, e
  <2>2. Run(Raw, s, n)
    <3>1. SUFFICES ASSUME NEW x \in s..(s + n - 1) PROVE x \in Raw
      BY DEF Run
    <3>2. CASE x < cand
      <4>1. x \in s..(s + (cand - s) - 1)
        BY <1>1, <1>6, <3>2
      <4> QED BY <1>3, <4>1 DEF Run
    <3>3. CASE x >= cand
      <4>1. x \in cand..(e - 1)
        BY <1>1, <1>6, <1>9, <3>3
      <4> QED BY <1>4, <4>1
    <3> QED BY <3>2, <3>3, <1>6, <1>1
  <2>3. Run(Sought, s, n)
    <3>1. \A x \in s..(s + n - 1) : x \in 0..(call.size - 1)
      BY <1>0, <1>1, <1>6, Sizes
    <3> QED BY <1>5, <2>2, <3>1 DEF Run
  <2>4. s \in Starts(Sought, first, n)
    <3>1. s \in s..(s + n - 1)
      BY <1>1, <1>6
    <3> QED BY <1>6, <1>1, <2>3, <3>1 DEF Starts, Run
  <2>5. \A i \in Starts(Sought, first, n) : s <= i
    BY <1>1, <1>2, <1>3, <1>6, MeasuredLong
  <2>6. TypeOK'
    BY <1>0, <1>1, <1>6, <1>8, <2>1, Same DEF TypeOK, Found, small, core, fill, input
  <2> QED BY <1>0, <1>7, <2>1, <2>4, <2>5, <2>6, FoundKeeps
<1>10. CASE e - s < n
  <2>1. cursor' = StepOver(e) /\ pc' = "skip" /\ reply' = reply
    BY <1>10, <1>1, <1>6 DEF Measure, Long, s, e
  <2>2. \A i \in Starts(Sought, first, n) : i > e /\ i > cand
    BY <1>1, <1>2, <1>3, <1>4, <1>6, <1>10, MeasuredShort
  <2>3. cursor' \in Nat /\ cursor' >= cand + Byte /\ (cursor' = cand + Byte \/ cursor' <= e)
    BY <1>1, <1>6, <2>1, StepOverIs
  <2>4. NoneBefore(Sought, first, n, Block, cursor')
    BY <1>1, <1>2, <1>6, <2>2, <2>3, Sizes DEF NoneBefore, Starts
  <2>5. first < cursor' + Byte
    <3>1. Byte \in Nat \ {0}
      BY Sizes
    <3>2. first \in Nat /\ cand \in Nat /\ first <= cand
      BY <1>0, <1>1
    <3>3. cursor' \in Nat /\ cursor' >= cand + Byte
      BY <2>3
    <3> QED BY <3>1, <3>2, <3>3, ByteLater
  <2>6. AtSkip'
    BY <1>0, <1>1, <2>1, <2>4, <2>5, Same DEF AtSkip, Skipped, NoneBefore
  <2>7. TypeOK'
    BY <1>0, <1>1, <1>8, <2>1, <2>3, Same DEF TypeOK, small, core, fill, input
  <2>8. InPass'
    BY <1>0, PassIs, Same DEF InPass, Starts
  <2> QED
    BY <1>0, <1>1, <1>7, <2>1, <2>6, <2>7, <2>8, PassIs, Same
    DEF Inv, Searching, Untouched, Unanswered, Asking, AtMark, AtMeasure, AtCore, AtFlip, AtFill, AtDone
<1> QED BY <1>1, <1>6, <1>9, <1>10

(* The end of the window: the sum wraps round only where no run counts.    *)
LEMMA ModSmall == ASSUME NEW x \in Nat, NEW m \in Nat, x < m PROVE x % m = x
OBVIOUS

LEMMA ModNat == ASSUME NEW x \in Nat, NEW m \in Nat \ {0} PROVE x % m \in Nat
OBVIOUS

LEMMA RebuildKeeps == Inv /\ Rebuild => Inv'
<1> SUFFICES ASSUME Inv, Rebuild PROVE Inv'
  OBVIOUS
<1> DEFINE n == call.num
           m == (cand + n) % Span
           end == Down(m, Word) + 2 * Word
           hi == IF Alloc < end THEN Alloc ELSE end
<1>1. /\ pc = "measure" /\ Enter(WindowFrom(cand), hi, "reject")
      /\ UNCHANGED <<bits, input, reply, small, pass, probe, fill, mem>>
  BY DEF Rebuild
<1>2. cand \in Nat /\ Skipped(cand) /\ first < cand + 2 * Byte /\ cand <= Alloc
  BY <1>1, PassIs DEF Inv, AtMeasure, TypeOK
<1>3. /\ call \in Calls /\ n \in Nat /\ n >= 3 /\ Alloc \in Nat /\ call.size \in Nat
      /\ first \in Nat /\ NoneBefore(Sought, first, n, Block, cand)
  BY <1>1, <1>2, PassIs DEF Skipped
<1>4. Block \in Nat /\ Block <= Word
  BY <1>3, BlockIs, Sizes DEF Block
<1>5. Span \in Nat \ {0} /\ call.size + Word <= Span /\ Word \in Nat \ {0}
  BY <1>3, CallIs, Sizes
<1> HIDE DEF n
<1>6. m \in Nat
  <2>1. cand + n \in Nat
    BY <1>2, <1>3
  <2> QED BY <2>1, <1>5, ModNat
<1> HIDE DEF m
<1>7. Down(m, Word) \in Nat /\ m < Down(m, Word) + Word
  BY <1>5, <1>6, DownIs
<1>8. end \in Nat /\ m + Word < end
  BY <1>5, <1>6, <1>7
<1>9. cand + n < Span => end > cand + n + Word
  <2> SUFFICES ASSUME cand + n < Span PROVE end > cand + n + Word
    OBVIOUS
  <2>1. cand + n \in Nat
    BY <1>2, <1>3
  <2>2. m = cand + n
    BY <2>1, <1>5, ModSmall DEF m
  <2> QED BY <2>1, <1>5, <1>8, <2>2
<1>10. cand + n >= Span => Starts(Sought, first, n) = {}
  <2>1. SUFFICES ASSUME cand + n >= Span, NEW i \in Starts(Sought, first, n) PROVE FALSE
    OBVIOUS
  <2>2. i + Block > cand
    BY <1>3 DEF NoneBefore
  <2>3. i \in Nat /\ i + n <= call.size
    BY <1>3, RunInside
  <2> QED BY <1>2, <1>3, <1>4, <1>5, <2>1, <2>2, <2>3
<1> HIDE DEF end
<1>11. hi \in Nat /\ hi <= Alloc
  BY <1>3, <1>8
<1>12. hi = Alloc \/ hi > cand + n + Word \/ Starts(Sought, first, n) = {}
  BY <1>2, <1>3, <1>5, <1>8, <1>9, <1>10
<1> QED BY <1>1, <1>2, <1>11, <1>12, PassIs, WindowIs, EnterKeeps DEF n

-----------------------------------------------------------------------------
(* What every step of the word scanner starts from.                        *)
LEMMA CoreIs ==
  ASSUME Inv, pc = "core"
  PROVE  /\ from \in Nat /\ till \in Nat /\ base \in Nat /\ carry \in Nat /\ start \in Nat
         /\ cand \in Nat /\ first <= from
         /\ Starts(Sought, first, call.num) = Starts(Sought, from, call.num)
         /\ ScannedTo(Sought, from, call.num, base, carry)
         /\ carry > 0 => start = base - carry
         /\ Multiple(base, Ulong) /\ till <= Alloc /\ back \in {"end", "reject"}
         /\ back = "end" => till = Alloc
         /\ back = "reject" => \/ till = Alloc \/ till > cand + call.num + Word
                               \/ Starts(Sought, first, call.num) = {}
         /\ StartOf = base - carry
<1>1. TypeOK /\ AtCore
  BY DEF Inv
<1>2. base \in Nat /\ carry \in Nat /\ (carry > 0 => start = base - carry)
  BY <1>1 DEF TypeOK, AtCore
<1>3. StartOf = base - carry
  <2>1. CASE carry = 0
    BY <1>2, <2>1 DEF StartOf
  <2>2. CASE carry # 0
    <3>1. carry > 0
      BY <1>2, <2>2
    <3> QED BY <1>2, <2>2, <3>1 DEF StartOf
  <2> QED BY <2>1, <2>2
<1> QED BY <1>1, <1>3 DEF TypeOK, AtCore

LEMMA WordIs ==
  ASSUME Inv, pc = "core", base < till
  PROVE  /\ InWord = WordBits(Sought, from, base, Word) /\ InWord \in SUBSET Nat
         /\ RunEnd(InWord, base) \in Nat /\ RunEnd(InWord, base) >= base
         /\ RunEnd(InWord, base) <= base + Word
         /\ RunEnd(InWord, base) \notin InWord
         /\ \A j \in base..(RunEnd(InWord, base) - 1) : j \in InWord
         /\ Carried = RunEnd(InWord, base) - base
<1>1. InWord = WordBits(Sought, from, base, Word)
  BY PassIs DEF InWord, WordBits
<1>2. InWord \in SUBSET Nat /\ Alloc \notin InWord /\ Alloc \in Nat /\ base \in Nat /\ base <= Alloc
  BY <1>1, PassIs, CoreIs DEF WordBits
<1>3. RunEnd(InWord, base) \in base..Alloc /\ RunEnd(InWord, base) \notin InWord
      /\ \A j \in base..(RunEnd(InWord, base) - 1) : j \in InWord
  BY <1>2, RunEndIs
<1> DEFINE e == RunEnd(InWord, base)
<1>4. e \in Nat /\ e >= base
  BY <1>2, <1>3
<1>5. e <= base + Word
  <2>1. SUFFICES ASSUME e > base + Word PROVE FALSE
    BY <1>2, <1>4, Sizes
  <2>2. base + Word \in base..(e - 1)
    BY <1>2, <1>4, <2>1, Sizes
  <2>3. base + Word \in InWord
    BY <1>3, <2>2
  <2> QED BY <1>1, <1>2, <2>3, Sizes DEF WordBits
<1> QED BY <1>1, <1>2, <1>3, <1>4, <1>5 DEF Carried

LEMMA WordLoadInside ==
  ASSUME Inv, pc = "core", base < till, WordLoad, UNCHANGED input
  PROVE  InsideBuffer' /\ mem' \in [lo : Nat, hi : Nat]
<1>1. /\ base \in Nat /\ Alloc \in Nat /\ base < Alloc
      /\ Multiple(base, Ulong) /\ Multiple(Alloc, Ulong)
  BY PassIs, CoreIs
<1>2. base + Ulong <= Alloc
  BY <1>1, MultipleGap, Sizes
<1>3. mem' = [lo |-> base, hi |-> IF base + Word <= Alloc THEN base + Word ELSE base + Ulong]
  BY DEF WordLoad, Touch
<1>4. Ulong \in Nat /\ Word \in Nat
  BY Sizes
<1> QED BY <1>1, <1>2, <1>3, <1>4, Same DEF InsideBuffer

(* The run that ends in the word, or else the first one inside it.         *)
LEMMA CoreHitKeeps == Inv /\ CoreHit => Inv'
<1> SUFFICES ASSUME Inv, CoreHit PROVE Inv'
  OBVIOUS
<1> DEFINE n == call.num
           e == RunEnd(InWord, base)
<1>0. /\ pc = "core" /\ base < till /\ WordLoad
      /\ UNCHANGED <<bits, input, small, pass, probe, core, fill>>
      /\ \/ carry + Carried >= n /\ Found(StartOf)
         \/ carry + Carried < n /\ Inside # {} /\ Found(Lowest(Inside))
  BY DEF CoreHit
<1>1. /\ n \in Nat \ {0} /\ base \in Nat /\ carry \in Nat /\ from \in Nat /\ Word \in Nat \ {0}
      /\ Sought \in SUBSET Nat /\ ScannedTo(Sought, from, n, base, carry)
      /\ StartOf = base - carry
      /\ Starts(Sought, first, n) = Starts(Sought, from, n)
  BY <1>0, PassIs, CoreIs, Sizes
<1>2. /\ InWord = WordBits(Sought, from, base, Word) /\ InWord \in SUBSET Nat
      /\ e \in Nat /\ e >= base /\ e \notin InWord /\ \A j \in base..(e - 1) : j \in InWord
      /\ Carried = e - base
  BY <1>0, WordIs
<1> HIDE DEF n, e
<1>3. ASSUME NEW r \in Starts(Sought, from, n), \A i \in Starts(Sought, from, n) : r <= i, Found(r)
      PROVE  Inv'
  <2>1. r \in Nat
    BY <1>1, <1>3 DEF Starts
  <2>2. TypeOK'
    BY <1>0, <1>3, <2>1, PassIs, WordLoadInside, Same
    DEF TypeOK, Found, input, small, pass, probe, core, fill
  <2>3. r \in Starts(Sought, first, call.num) /\ \A i \in Starts(Sought, first, call.num) : r <= i
    BY <1>1, <1>3 DEF n
  <2> QED BY <1>0, <1>3, <2>2, <2>3, WordLoadInside, FoundKeeps
<1>4. CASE carry + Carried >= n /\ Found(StartOf)
  <2>1. carry + (e - base) >= n
    BY <1>2, <1>4
  <2>2. base - carry \in Starts(Sought, from, n)
        /\ \A i \in Starts(Sought, from, n) : base - carry <= i
    BY <1>1, <1>2, <2>1, CarriedHit
  <2> QED BY <1>1, <1>3, <1>4, <2>2
<1>5. CASE carry + Carried < n /\ Inside # {} /\ Found(Lowest(Inside))
  <2> DEFINE r == Lowest(Inside)
  <2>1. Inside \in SUBSET Nat
    BY <1>2 DEF Inside
  <2>2. r \in Inside /\ \A i \in Inside : r <= i
    BY <1>5, <2>1, LowestIs
  <2> HIDE DEF r
  <2>3. /\ r \in InWord /\ Run(InWord, r, n)
        /\ \A i \in InWord : Run(InWord, i, n) => r <= i
    BY <2>2 DEF Inside, n
  <2>4. carry + (e - base) < n
    BY <1>2, <1>5
  <2>5. r \in Starts(Sought, from, n) /\ \A i \in Starts(Sought, from, n) : r <= i
    BY <1>1, <1>2, <2>3, <2>4, InsideHit
  <2> QED BY <1>3, <1>5, <2>5 DEF r
<1> QED BY <1>0, <1>4, <1>5 DEF n

(* The run at the top of a word is where it starts.                        *)
LEMMA TopRunIs ==
  ASSUME base \in Nat
  PROVE  /\ TopRun \in base..(base + Word) /\ Run(InWord, TopRun, base + Word - TopRun)
         /\ \A x \in base..(base + Word) : Run(InWord, x, base + Word - x) => TopRun <= x
<1> DEFINE E == {s \in base..(base + Word) : Run(InWord, s, base + Word - s)}
<1>1. Word \in Nat
  BY Sizes
<1>2. base + Word \in E
  BY <1>1 DEF Run
<1>3. E \in SUBSET Nat /\ E # {}
  BY <1>1, <1>2
<1>4. Lowest(E) \in E /\ \A j \in E : Lowest(E) <= j
  BY <1>3, LowestIs
<1>5. TopRun = Lowest(E)
  BY DEF TopRun
<1> QED BY <1>4, <1>5

(* Without a run, what reaches on is carried into the next word.           *)
LEMMA CoreWordKeeps == Inv /\ CoreWord => Inv'
<1> SUFFICES ASSUME Inv, CoreWord PROVE Inv'
  OBVIOUS
<1> DEFINE n == call.num
           e == RunEnd(InWord, base)
<1>0. /\ pc = "core" /\ base < till /\ WordLoad /\ pc' = "core"
      /\ UNCHANGED <<bits, input, reply, small, pass, probe, from, till, back, fill>>
      /\ carry + Carried < n /\ Inside = {}
      /\ base' = base + Word
  BY DEF CoreWord
<1>1. /\ n \in Nat \ {0} /\ base \in Nat /\ carry \in Nat /\ from \in Nat /\ Word \in Nat \ {0}
      /\ Sought \in SUBSET Nat /\ ScannedTo(Sought, from, n, base, carry)
      /\ StartOf = base - carry /\ Multiple(base, Ulong) /\ Ulong \in Nat \ {0} /\ Word = 2 * Ulong
  BY <1>0, PassIs, CoreIs, Sizes
<1>2. /\ InWord = WordBits(Sought, from, base, Word) /\ InWord \in SUBSET Nat
      /\ e \in Nat /\ e >= base /\ e <= base + Word
      /\ e \notin InWord /\ \A j \in base..(e - 1) : j \in InWord
      /\ Carried = e - base
  BY <1>0, WordIs
<1>3. IF Carried = Word THEN carry' = carry + Word /\ start' = StartOf
      ELSE carry' = base + Word - TopRun /\ start' = TopRun
  BY DEF CoreWord
<1> HIDE DEF n, e
<1>4. \A i \in InWord : ~Run(InWord, i, n)
  BY <1>0 DEF Inside, n
<1>5. /\ carry' \in Nat /\ start' \in Nat /\ start' = base' - carry'
      /\ ScannedTo(Sought, from, n, base', carry')
  <2>1. CASE Carried = Word
    <3>1. e = base + Word /\ carry + Word < n
      BY <1>0, <1>1, <1>2, <2>1 DEF n
    <3>2. ScannedTo(Sought, from, n, base + Word, carry + Word)
      BY <1>1, <1>2, <1>4, <3>1, FullWord
    <3>3. carry <= base
      BY <1>1 DEF ScannedTo
    <3> QED BY <1>0, <1>1, <1>3, <2>1, <3>2, <3>3
  <2>2. CASE Carried # Word
    <3>1. e < base + Word /\ carry + (e - base) < n
      BY <1>0, <1>1, <1>2, <2>2 DEF n
    <3>2. TopRun \in base..(base + Word) /\ Run(InWord, TopRun, base + Word - TopRun)
          /\ \A x \in base..(base + Word) : Run(InWord, x, base + Word - x) => TopRun <= x
      BY <1>1, TopRunIs
    <3>3. carry' = base + Word - TopRun /\ start' = TopRun
      BY <1>3, <2>2
    <3>4. ScannedTo(Sought, from, n, base + Word, base + Word - TopRun)
      BY <1>1, <1>2, <1>4, <3>1, <3>2, TopOfWord
    <3>5. TopRun \in Nat /\ TopRun <= base + Word
      BY <1>1, <3>2
    <3> QED BY <1>0, <1>1, <3>3, <3>4, <3>5
  <2> QED BY <2>1, <2>2
<1>6. Multiple(base', Ulong) /\ base' \in Nat
  <2>1. Word = 2 * Ulong /\ 2 \in Int
    BY <1>1
  <2>2. Multiple(Word, Ulong)
    BY <2>1 DEF Multiple
  <2> QED BY <1>0, <1>1, <2>2, MultipleSum
<1>7. AtCore'
  <2>1. /\ from' = from /\ till' = till /\ back' = back /\ first' = first /\ cand' = cand
        /\ Sought' = Sought /\ call' = call /\ Alloc' = Alloc
    BY <1>0, Same DEF pass, probe
  <2>2. carry' > 0 => start' = base' - carry'
    BY <1>5
  <2> QED BY <1>0, <1>5, <1>6, <2>1, <2>2, CoreIs DEF AtCore, Starts, ScannedTo, Run, n
<1>8. AtMeasure'
  BY <1>0, Same DEF Inv, AtMeasure, Skipped, NoneBefore, Starts, Run, pass, probe
<1>9. InPass'
  BY <1>0, PassIs, Same DEF InPass, Starts, Run, pass
<1>10. TypeOK'
  BY <1>0, <1>5, <1>6, PassIs, WordLoadInside, Same
  DEF TypeOK, input, small, pass, probe, fill
<1> QED
  BY <1>0, <1>7, <1>8, <1>9, <1>10, PassIs, WordLoadInside, Same
  DEF Inv, Searching, Untouched, Unanswered, Asking, AtMark, AtSkip, AtFlip, AtFill, AtDone

(* When the scanner is through, no run of the pass ends in its window, and *)
(* none is left at all if that reached the end of the buffer.              *)
LEMMA ScannedAll ==
  ASSUME Inv, pc = "core", base >= till
  PROVE  /\ \A i \in Starts(Sought, first, call.num) : i \in Nat /\ i + call.num > till
         /\ till = Alloc => Starts(Sought, first, call.num) = {}
<1>1. \A i \in Starts(Sought, first, call.num) :
        i \in Nat /\ i + call.num > till /\ i + call.num <= Alloc
  <2>1. TAKE i \in Starts(Sought, first, call.num)
  <2>2. i \in Starts(Sought, from, call.num)
    BY CoreIs
  <2>3. i + call.num > base
    BY <2>2, CoreIs DEF ScannedTo
  <2>4. i \in Nat /\ i + call.num <= call.size
    BY PassIs, RunInside
  <2> QED BY <2>3, <2>4, PassIs, CoreIs
<1> QED BY <1>1, PassIs, CoreIs

LEMMA TwoBytesLater ==
  ASSUME NEW f \in Nat, NEW a \in Nat, NEW d \in Nat, NEW b \in Nat \ {0},
         f < a + 2 * b, d >= a + b
  PROVE  f < d + b
OBVIOUS

(* A witness whose neighbourhood has no run is stepped over.               *)
LEMMA RejectKeeps == Inv /\ Reject => Inv'
<1> SUFFICES ASSUME Inv, Reject PROVE Inv'
  OBVIOUS
<1> DEFINE n == call.num
           e == RunEnd(Goal, cand)
<1>0. /\ pc = "core" /\ pc' = "skip" /\ base >= till /\ back = "reject"
      /\ cursor' = StepOver(e) /\ cand' = cand /\ first' = first /\ again' = again
      /\ UNCHANGED <<bits, input, reply, small, core, fill, mem>>
  BY DEF Reject, pass
<1>1. /\ cand \in Nat /\ first \in Nat /\ n \in Nat \ {0} /\ n >= 3 /\ Goal = Sought
      /\ cand <= Alloc /\ first < cand + 2 * Byte /\ Sought \in SUBSET Nat /\ Alloc \in Nat
      /\ NoneBefore(Sought, first, n, Block, cand) /\ Alloc \notin Sought
      /\ till \in Nat
      /\ till = Alloc \/ till > cand + n + Word \/ Starts(Sought, first, n) = {}
  BY <1>0, PassIs, CoreIs DEF Inv, AtMeasure, Skipped
<1>2. Block \in Nat \ {0} /\ n >= 2 * Block - 1 /\ Word \in Nat /\ Byte \in Nat \ {0} /\ 2 * Byte <= Word
  BY <1>1, BlockIs, Sizes DEF Block
<1>3. e \in cand..Alloc /\ e \notin Sought /\ \A j \in cand..(e - 1) : j \in Sought
  BY <1>1, RunEndIs
<1>4. e \in Nat /\ e >= cand
  BY <1>1, <1>3
<1>5. first <= cand + Word
  BY <1>1, <1>2
<1> HIDE DEF n, e
<1>6. cursor' \in Nat /\ cursor' >= cand + Byte /\ (cursor' = cand + Byte \/ cursor' <= e)
  BY <1>0, <1>1, <1>4, StepOverIs
<1>7. \A i \in Starts(Sought, first, n) : i > cand + Word /\ i > e
  <2>1. CASE Starts(Sought, first, n) = {}
    BY <2>1
  <2>2. CASE till > cand + n + Word
    <3>1. till > cand + n + Word /\ \A i \in Starts(Sought, first, n) : i + n > till
      BY <1>0, <2>2, ScannedAll DEF n
    <3> QED BY <1>1, <1>2, <1>3, <1>4, <1>5, <3>1, WindowEmpty
  <2>3. CASE till = Alloc
    BY <1>0, <2>3, ScannedAll DEF n
  <2> QED BY <1>1, <2>1, <2>2, <2>3
<1>8. NoneBefore(Sought, first, n, Block, cursor')
  <2>1. ASSUME NEW i \in Starts(Sought, first, n) PROVE i + Block > cursor'
    <3>1. i \in Nat /\ i > cand + Word /\ i > e
      BY <1>1, <1>7, <2>1 DEF Starts
    <3> QED BY <1>1, <1>2, <1>4, <1>6, <3>1
  <2> QED BY <2>1 DEF NoneBefore
<1>9. first < cursor' + Byte
  <2>1. cursor' >= cand + Byte /\ cursor' \in Nat /\ first < cand + 2 * Byte
    BY <1>1, <1>6
  <2> QED BY <1>1, <1>2, <2>1, TwoBytesLater
<1>10. AtSkip'
  BY <1>0, <1>1, <1>8, <1>9, Same DEF AtSkip, Skipped, NoneBefore, Starts, Run, n
<1>11. TypeOK'
  BY <1>0, <1>6, PassIs, Same DEF TypeOK, input, small, core, fill
<1>12. InPass'
  BY <1>0, PassIs, Same DEF InPass, Starts, Run
<1> QED
  BY <1>0, <1>10, <1>11, <1>12, PassIs, Same
  DEF Inv, InsideBuffer, Searching, Untouched, Unanswered, Asking,
      AtMark, AtMeasure, AtCore, AtFlip, AtFill, AtDone

(* The end of a pass.                                                      *)
LEMMA EndPassKeeps == Inv /\ EndPass => Inv'
<1> SUFFICES ASSUME Inv, EndPass PROVE Inv'
  OBVIOUS
<1>0. /\ pc = "core" /\ base >= till /\ back = "end"
      /\ UNCHANGED <<bits, input, small, probe, core, fill, mem>>
  BY DEF EndPass
<1>1. Starts(Sought, first, call.num) = {}
  BY <1>0, CoreIs, ScannedAll
<1>2. CASE again \/ HintOf(call) = 0
  <2>1. reply' = NotFound /\ pc' = "done" /\ UNCHANGED pass
    BY <1>2 DEF EndPass, Return
  <2>2. Search(Sought, call) = NotFound
    <3>1. call.num \in 1..call.size
      BY <1>0, PassIs
    <3> QED BY <1>0, <1>1, <1>2, <3>1, PassIs, NoAnswer
  <2>3. AtDone'
    BY <1>0, <2>1, <2>2, PassIs, Same DEF AtDone, After
  <2>4. TypeOK'
    BY <1>0, <2>1, PassIs, Same DEF TypeOK, input, small, pass, probe, core, fill
  <2> QED
    BY <1>0, <2>1, <2>3, <2>4, PassIs, Same
    DEF Inv, InsideBuffer, Searching, Untouched, Unanswered, Asking,
        AtMark, InPass, AtSkip, AtMeasure, AtCore, AtFlip, AtFill
<1>3. CASE ~(again \/ HintOf(call) = 0)
  <2>1. first' = 0 /\ again' = TRUE /\ pc' = "pass" /\ reply' = reply
    BY <1>3 DEF EndPass
  <2>2. first = HintOf(call)
    BY <1>0, <1>3, PassIs
  <2>3. InPass'
    BY <1>0, <1>1, <2>1, <2>2, Same DEF InPass, Starts, Run
  <2>4. TypeOK'
    BY <1>0, <2>1, PassIs, Same DEF TypeOK, input, small, probe, core, fill
  <2> QED
    BY <1>0, <2>1, <2>3, <2>4, PassIs, Same
    DEF Inv, InsideBuffer, Searching, Untouched, Unanswered, Asking,
        AtMark, AtSkip, AtMeasure, AtCore, AtFlip, AtFill, AtDone
<1> QED BY <1>2, <1>3

-----------------------------------------------------------------------------
(* Inverting one stretch after another inverts what they cover.            *)
LEMMA FlipJoins ==
  ASSUME NEW B, NEW want, NEW a \in Int, NEW b \in Int, NEW c \in Int, a <= b, b <= c
  PROVE  Flipped(Flipped(B, want, a, b), want, b, c) = Flipped(B, want, a, c)
<1>1. a..(c - 1) = (a..(b - 1)) \union (b..(c - 1))
  OBVIOUS
<1> QED BY <1>1 DEF Flipped

LEMMA FlipOver ==
  ASSUME NEW B, NEW want, NEW a \in Int, NEW b \in Int, NEW c \in Int, NEW d \in Int, NEW e \in Int,
         a <= b, d <= b, a <= d, b <= c, c <= e
  PROVE  Flipped(Flipped(Flipped(B, want, a, b), want, c, e), want, d, c) = Flipped(B, want, a, e)
<1>1. a..(e - 1) = (a..(b - 1)) \union (c..(e - 1)) \union (d..(c - 1))
  OBVIOUS
<1> QED BY <1>1 DEF Flipped

LEMMA FlipMore ==
  ASSUME NEW B, NEW want, NEW a \in Int, NEW b \in Int, NEW c \in Int, NEW d \in Int, NEW e \in Int,
         a <= b, b <= c
  PROVE  Flipped(Flipped(Flipped(B, want, a, b), want, d, e), want, b, c)
         = Flipped(Flipped(B, want, a, c), want, d, e)
<1>1. a..(c - 1) = (a..(b - 1)) \union (b..(c - 1))
  OBVIOUS
<1> QED BY <1>1 DEF Flipped

(* What every step of the inversion starts from.                           *)
LEMMA FlipIs ==
  ASSUME Inv, pc \in {"flip", "vector", "element"}
  PROVE  /\ TypeOK /\ call \in Calls /\ call.write /\ call.num \in Nat \ {0} /\ ~call.null
         /\ call.num \in 1..call.size
         /\ reply \in Nat /\ End \in Nat /\ End = reply + call.num /\ reply = Search(Sought, call)
         /\ End <= call.size /\ call.size <= Alloc /\ End <= Alloc /\ Alloc \in Nat
         /\ Multiple(Alloc, Ulong) /\ k \in Nat /\ stop \in Nat
         /\ Ulong \in Nat \ {0} /\ Chunk \in Nat \ {0} /\ reply # NotFound
<1>1. /\ TypeOK /\ call \in Calls /\ call.write /\ call.num \in 1..call.size /\ ~call.null
      /\ reply \in Nat /\ End <= call.size /\ reply = Search(Sought, call)
      /\ k \in Nat /\ stop \in Nat
  BY DEF Inv, TypeOK, Asking, AtFlip
<1>2. call.size \in Nat /\ call.num \in Nat \ {0} /\ End = reply + call.num /\ End \in Nat
  BY <1>1, CallIs DEF End
<1>3. Alloc \in Nat /\ call.size <= Alloc /\ Multiple(Alloc, Ulong)
  BY <1>2, AllocIs
<1>4. reply # NotFound
  BY <1>1 DEF NotFound
<1> QED BY <1>1, <1>2, <1>3, <1>4, Sizes

(* When the bits of the answer are inverted, the call is done.             *)
LEMMA DoneKeeps ==
  ASSUME Inv, pc \in {"flip", "vector", "element"}, pc' = "done", UNCHANGED <<input, reply>>,
         bits' = Flipped(was, call.want, reply, End), TypeOK', InsideBuffer'
  PROVE  Inv'
<1>1. AtDone'
  BY FlipIs, Same DEF AtDone, After
<1> QED BY <1>1 DEF Inv, Searching, Untouched, Unanswered, Asking,
             AtMark, InPass, AtSkip, AtMeasure, AtCore, AtFlip, AtFill

(* Until then, what is left is the stretch from k to stop.                 *)
LEMMA FillKeeps ==
  ASSUME Inv, pc \in {"flip", "vector", "element"}, pc' \in {"vector", "element"},
         UNCHANGED <<input, reply>>,
         bits' = Flipped(Flipped(was, call.want, reply, k'), call.want, stop', End),
         reply < k', k' <= stop', stop' < End, Multiple(k', Ulong), Multiple(stop', Ulong),
         pc' = "vector" => reply <= stop' - Chunk, pc' = "element" => k' < stop',
         TypeOK', InsideBuffer'
  PROVE  Inv'
<1>1. End' = End /\ call' = call /\ was' = was /\ reply' = reply
  BY Same DEF End
<1>2. AtFill'
  BY <1>1 DEF AtFill
<1>3. AtFlip' /\ Asking'
  BY <1>1, FlipIs, Same DEF AtFlip, Asking
<1> QED BY <1>2, <1>3 DEF Inv, Searching, Untouched, Unanswered,
             AtMark, InPass, AtSkip, AtMeasure, AtCore, AtDone

LEMMA FlipEndsKeeps == Inv /\ FlipEnds => Inv'
<1> SUFFICES ASSUME Inv, FlipEnds PROVE Inv'
  OBVIOUS
<1> DEFINE lo == Down(reply, Ulong)
           hi == Down(End - 1, Ulong)
           head == Flipped(bits, call.want, reply, IF lo = hi THEN End ELSE lo + Ulong)
<1>0. /\ pc = "flip" /\ UNCHANGED <<input, reply, small, pass, probe, core>>
      /\ bits' = IF lo = hi THEN head ELSE Flipped(head, call.want, hi, End)
      /\ k' = lo + Ulong /\ stop' = hi
      /\ pc' = IF lo + Ulong >= hi THEN "done"
               ELSE IF hi - lo - Ulong >= Chunk THEN "vector" ELSE "element"
      /\ mem' = [lo |-> lo, hi |-> hi + Ulong]
  BY DEF FlipEnds, Touch
<1>1. /\ reply \in Nat /\ End \in Nat /\ reply <= End - 1 /\ End - 1 \in Nat /\ End <= Alloc
      /\ Alloc \in Nat /\ Multiple(Alloc, Ulong) /\ Ulong \in Nat \ {0} /\ Chunk \in Nat \ {0}
      /\ bits = was /\ bits \subseteq 0..(Alloc - 1)
  BY <1>0, FlipIs DEF Inv, Untouched, TypeOK
<1>2. lo \in Nat /\ lo <= reply /\ reply < lo + Ulong /\ Multiple(lo, Ulong)
  BY <1>1, DownIs
<1>3. hi \in Nat /\ hi <= End - 1 /\ End - 1 < hi + Ulong /\ Multiple(hi, Ulong)
  BY <1>1, DownIs
<1> HIDE DEF lo, hi
<1>4. hi + Ulong <= Alloc
  BY <1>1, <1>3, MultipleGap
<1>5. lo <= hi
  <2>1. hi < lo => hi + Ulong <= lo
    BY <1>1, <1>2, <1>3, MultipleGap
  <2> QED BY <1>1, <1>2, <1>3, <2>1
<1>6. lo # hi => lo + Ulong <= hi
  BY <1>1, <1>2, <1>3, <1>5, MultipleGap
<1>7. head \subseteq 0..(Alloc - 1) /\ bits' \subseteq 0..(Alloc - 1)
  <2>1. head \subseteq 0..(Alloc - 1)
    <3>1. (IF lo = hi THEN End ELSE lo + Ulong) \in Nat
          /\ (IF lo = hi THEN End ELSE lo + Ulong) <= Alloc
      BY <1>1, <1>2, <1>3, <1>4, <1>6
    <3> QED BY <1>1, <3>1, FlippedInside
  <2> HIDE DEF head
  <2>2. Flipped(head, call.want, hi, End) \subseteq 0..(Alloc - 1)
    BY <1>1, <1>3, <2>1, FlippedInside
  <2> QED BY <1>0, <2>1, <2>2
<1>8. TypeOK'
  <2>1. mem' \in [lo : Nat, hi : Nat] /\ k' \in Nat /\ stop' \in Nat
    BY <1>0, <1>1, <1>2, <1>3
  <2> QED BY <1>0, <1>7, <2>1, FlipIs, Same DEF TypeOK, input, small, pass, probe, core
<1>9. InsideBuffer'
  BY <1>0, <1>2, <1>4, Same DEF InsideBuffer
<1>10. Multiple(lo + Ulong, Ulong)
  <2>1. Ulong = 1 * Ulong /\ 1 \in Int
    BY <1>1
  <2>2. Multiple(Ulong, Ulong)
    BY <2>1 DEF Multiple
  <2> QED BY <1>1, <1>2, <2>2, MultipleSum
<1>11. CASE lo = hi
  <2>1. pc' = "done" /\ bits' = Flipped(was, call.want, reply, End)
    BY <1>0, <1>1, <1>2, <1>11
  <2> QED BY <1>0, <1>8, <1>9, <2>1, DoneKeeps
<1>12. CASE lo # hi /\ lo + Ulong = hi
  <2>1. bits' = Flipped(Flipped(was, call.want, reply, hi), call.want, hi, End)
    BY <1>0, <1>1, <1>12
  <2>2. bits' = Flipped(was, call.want, reply, End)
    BY <1>1, <1>2, <1>3, <1>12, <2>1, FlipJoins
  <2>3. pc' = "done"
    BY <1>0, <1>1, <1>2, <1>12
  <2> QED BY <1>0, <1>8, <1>9, <2>2, <2>3, DoneKeeps
<1>13. CASE lo # hi /\ lo + Ulong # hi
  <2>1. lo + Ulong < hi
    BY <1>1, <1>2, <1>3, <1>6, <1>13
  <2>2. bits' = Flipped(Flipped(was, call.want, reply, k'), call.want, stop', End)
    BY <1>0, <1>1, <1>13
  <2>3. /\ pc' \in {"vector", "element"} /\ reply < k' /\ k' < stop' /\ stop' < End
        /\ pc' = "vector" => reply <= stop' - Chunk
    BY <1>0, <1>1, <1>2, <1>3, <2>1
  <2>4. Multiple(k', Ulong) /\ Multiple(stop', Ulong)
    BY <1>0, <1>3, <1>10
  <2>5. k' <= stop' /\ UNCHANGED <<input, reply>>
    BY <1>0, <1>1, <1>2, <1>3, <2>1
  <2> QED BY <1>0, <1>8, <1>9, <2>2, <2>3, <2>4, <2>5, FillKeeps
<1> QED BY <1>11, <1>12, <1>13

(* What the loops know.                                                    *)
LEMMA FillIs ==
  ASSUME Inv, pc \in {"vector", "element"}
  PROVE  /\ bits = Flipped(Flipped(was, call.want, reply, k), call.want, stop, End)
         /\ reply < k /\ k <= stop /\ stop < End /\ stop <= Alloc
         /\ Multiple(k, Ulong) /\ Multiple(stop, Ulong)
         /\ pc = "vector" => reply <= stop - Chunk
         /\ pc = "element" => k < stop
         /\ bits \subseteq 0..(Alloc - 1)
<1>1. AtFill /\ TypeOK
  BY DEF Inv
<1>2. stop < End /\ End <= Alloc /\ Alloc \in Nat /\ stop \in Nat /\ End \in Nat
  BY <1>1, FlipIs DEF AtFill
<1>3. stop <= Alloc
  BY <1>2
<1> QED BY <1>1, <1>3 DEF AtFill, TypeOK

(* Storing whole elements keeps the types and the buffer.                  *)
LEMMA StoreInside ==
  ASSUME Inv, pc \in {"vector", "element"}, NEW lo \in Nat, NEW hi \in Nat, hi <= stop,
         Store(lo, hi), UNCHANGED <<input, reply, small, pass, probe, core, stop>>,
         k' \in Nat, pc' \in {"vector", "element", "done"}
  PROVE  TypeOK' /\ InsideBuffer'
<1>1. bits' = Flipped(bits, call.want, lo, hi) /\ mem' = [lo |-> lo, hi |-> hi]
  BY DEF Store, Touch
<1>2. hi <= Alloc /\ Alloc \in Nat /\ bits \subseteq 0..(Alloc - 1)
  <2>1. hi <= stop /\ stop <= Alloc /\ stop \in Nat /\ Alloc \in Nat
    BY FlipIs, FillIs
  <2> QED BY <2>1, FillIs
<1>3. bits' \subseteq 0..(Alloc - 1)
  BY <1>1, <1>2, FlippedInside
<1>4. InsideBuffer'
  BY <1>1, <1>2, Same DEF InsideBuffer
<1>5. TypeOK'
  BY <1>1, <1>3, FlipIs, Same DEF TypeOK, input, small, pass, probe, core
<1> QED BY <1>4, <1>5

LEMMA FillVectorKeeps == Inv /\ FillVector => Inv'
<1> SUFFICES ASSUME Inv, FillVector PROVE Inv'
  OBVIOUS
<1>0. /\ pc = "vector" /\ pc' = "vector" /\ stop - k >= Chunk /\ Store(k, k + Chunk)
      /\ k' = k + Chunk /\ stop' = stop
      /\ UNCHANGED <<input, reply, small, pass, probe, core, stop>>
  BY DEF FillVector
<1>1. /\ k \in Nat /\ stop \in Nat /\ reply \in Nat /\ End \in Nat /\ Chunk \in Nat \ {0}
      /\ reply < k /\ k <= stop /\ stop < End /\ reply <= stop - Chunk
      /\ Multiple(k, Ulong) /\ Multiple(stop, Ulong) /\ Ulong \in Nat \ {0}
  BY <1>0, FlipIs, FillIs
<1>2. k + Chunk \in Nat /\ k + Chunk <= stop
  BY <1>0, <1>1
<1>3. TypeOK' /\ InsideBuffer'
  BY <1>0, <1>1, <1>2, StoreInside
<1>4. bits' = Flipped(Flipped(was, call.want, reply, k'), call.want, stop', End)
  <2>1. bits' = Flipped(Flipped(Flipped(was, call.want, reply, k), call.want, stop, End),
                        call.want, k, k + Chunk)
    BY <1>0, FillIs DEF Store
  <2> QED BY <1>0, <1>1, <1>2, <2>1, FlipMore
<1>5. Multiple(k', Ulong)
  <2>1. Chunk = Vec * Ulong /\ Vec \in Int
    BY Sizes
  <2>2. Multiple(Chunk, Ulong)
    BY <2>1 DEF Multiple
  <2> QED BY <1>0, <1>1, <2>2, MultipleSum
<1>6. reply < k' /\ k' <= stop' /\ stop' < End /\ Multiple(stop', Ulong)
      /\ (pc' = "vector" => reply <= stop' - Chunk) /\ (pc' = "element" => k' < stop')
  BY <1>0, <1>1, <1>2
<1> QED BY <1>0, <1>3, <1>4, <1>5, <1>6, FillKeeps

(* The last vector starts inside the answer, and overlaps only what has    *)
(* been stored.                                                            *)
LEMMA FillTailKeeps == Inv /\ FillTail => Inv'
<1> SUFFICES ASSUME Inv, FillTail PROVE Inv'
  OBVIOUS
<1>0. /\ pc = "vector" /\ pc' = "done" /\ stop - k < Chunk /\ Store(stop - Chunk, stop)
      /\ k' = k /\ UNCHANGED <<input, reply, small, pass, probe, core, stop>>
  BY DEF FillTail, fill
<1>1. /\ k \in Nat /\ stop \in Nat /\ reply \in Nat /\ End \in Nat /\ Chunk \in Nat \ {0}
      /\ reply < k /\ k <= stop /\ stop < End /\ reply <= stop - Chunk
  BY <1>0, FlipIs, FillIs
<1>2. stop - Chunk \in Nat /\ stop - Chunk <= k
  BY <1>0, <1>1
<1>3. TypeOK' /\ InsideBuffer'
  BY <1>0, <1>1, <1>2, StoreInside
<1>4. bits' = Flipped(was, call.want, reply, End)
  <2>1. bits' = Flipped(Flipped(Flipped(was, call.want, reply, k), call.want, stop, End),
                        call.want, stop - Chunk, stop)
    BY <1>0, FillIs DEF Store
  <2> QED BY <1>1, <1>2, <2>1, FlipOver
<1> QED BY <1>0, <1>3, <1>4, DoneKeeps

LEMMA FillElementKeeps == Inv /\ FillElement => Inv'
<1> SUFFICES ASSUME Inv, FillElement PROVE Inv'
  OBVIOUS
<1>0. /\ pc = "element" /\ Store(k, k + Ulong) /\ k' = k + Ulong /\ stop' = stop
      /\ pc' = IF k + Ulong = stop THEN "done" ELSE "element"
      /\ UNCHANGED <<input, reply, small, pass, probe, core, stop>>
  BY DEF FillElement
<1>1. /\ k \in Nat /\ stop \in Nat /\ reply \in Nat /\ End \in Nat
      /\ reply < k /\ k < stop /\ stop < End
      /\ Multiple(k, Ulong) /\ Multiple(stop, Ulong) /\ Ulong \in Nat \ {0}
  BY <1>0, FlipIs, FillIs
<1>2. k + Ulong \in Nat /\ k + Ulong <= stop
  BY <1>1, MultipleGap
<1>3. TypeOK' /\ InsideBuffer'
  BY <1>0, <1>1, <1>2, StoreInside
<1>4. bits' = Flipped(Flipped(was, call.want, reply, k'), call.want, stop', End)
  <2>1. bits' = Flipped(Flipped(Flipped(was, call.want, reply, k), call.want, stop, End),
                        call.want, k, k + Ulong)
    BY <1>0, FillIs DEF Store
  <2> QED BY <1>0, <1>1, <1>2, <2>1, FlipMore
<1>5. CASE k + Ulong = stop
  <2>1. bits' = Flipped(Flipped(was, call.want, reply, stop), call.want, stop, End)
    BY <1>0, <1>4, <1>5
  <2>2. bits' = Flipped(was, call.want, reply, End)
    BY <1>1, <2>1, FlipJoins
  <2>3. pc' = "done"
    BY <1>0, <1>5
  <2> QED BY <1>0, <1>3, <2>2, <2>3, DoneKeeps
<1>6. CASE k + Ulong # stop
  <2>1. Multiple(Ulong, Ulong)
    <3>1. Ulong = 1 * Ulong /\ 1 \in Int
      BY <1>1
    <3> QED BY <3>1 DEF Multiple
  <2>2. Multiple(k', Ulong)
    BY <1>0, <1>1, <2>1, MultipleSum
  <2>3. pc' = "element" /\ reply < k' /\ k' < stop' /\ k' <= stop' /\ stop' < End
        /\ Multiple(stop', Ulong)
    BY <1>0, <1>1, <1>2, <1>6
  <2> QED BY <1>0, <1>3, <1>4, <2>2, <2>3, FillKeeps
<1> QED BY <1>5, <1>6
-----------------------------------------------------------------------------
(* Every step keeps the invariant.                                         *)
LEMMA StutterKeeps == Inv /\ UNCHANGED vars => Inv'
<1> SUFFICES ASSUME Inv, UNCHANGED vars PROVE Inv'
  OBVIOUS
<1>1. UNCHANGED <<bits, input, reply, pc, y, owed, step, first, again, cursor, cand,
                  from, till, base, carry, start, back, k, stop, mem>>
  BY DEF vars, small, pass, probe, core, fill
<1>2. End' = End
  BY <1>1, Same DEF End
<1>3. TypeOK' /\ InsideBuffer'
  BY <1>1, Same DEF Inv, TypeOK, InsideBuffer
<1>4. Untouched' /\ Unanswered' /\ Asking' /\ AtMark' /\ InPass' /\ AtSkip' /\ AtMeasure'
  BY <1>1, Same DEF Inv, Searching, Untouched, Unanswered, Asking, AtMark, InPass,
     AtSkip, AtMeasure, Skipped, NoneBefore, Starts, Run
<1>5. AtCore'
  BY <1>1, Same DEF Inv, AtCore, ScannedTo, Starts, Run
<1>6. AtFlip' /\ AtFill' /\ AtDone'
  BY <1>1, <1>2, Same DEF Inv, AtFlip, AtFill, AtDone
<1> QED BY <1>3, <1>4, <1>5, <1>6 DEF Inv

LEMMA InvStep == Inv /\ [Next]_vars => Inv'
<1> SUFFICES ASSUME Inv, [Next]_vars PROVE Inv'
  OBVIOUS
<1>1. CASE OneWord
  BY <1>1, LoadWordKeeps, MarkRunsKeeps, PickMarkKeeps DEF OneWord
<1>2. CASE Passes
  BY <1>2, EnterBodyKeeps, TakeAtOnceKeeps, ScanOnlyKeeps, StartSkippingKeeps, SkipKeeps,
     TailKeeps, MeasureKeeps, RebuildKeeps DEF Passes
<1>3. CASE Core
  BY <1>3, CoreHitKeeps, CoreWordKeeps, RejectKeeps, EndPassKeeps DEF Core
<1>4. CASE Fill
  BY <1>4, FlipEndsKeeps, FillVectorKeeps, FillTailKeeps, FillElementKeeps DEF Fill
<1>5. CASE Nothing
  BY <1>5, NothingKeeps
<1>6. CASE Returned \/ UNCHANGED vars
  BY <1>6, StutterKeeps DEF Returned
<1> QED BY <1>1, <1>2, <1>3, <1>4, <1>5, <1>6 DEF Next, Step

-----------------------------------------------------------------------------
(* Whatever the searches go through, their state is of its types.          *)
THEOREM TypeCorrect == Spec => []TypeOK
<1>1. Inv => TypeOK
  BY DEF Inv
<1> QED BY InvInit, InvStep, <1>1, PTL DEF Spec

(* No load and no store touches memory outside of the elements that the    *)
(* caller allocated, whatever their number and wherever the answer is.     *)
THEOREM StaysInside == Spec => []InsideBuffer
<1>1. Inv => InsideBuffer
  BY DEF Inv
<1> QED BY InvInit, InvStep, <1>1, PTL DEF Spec

(* The vector search never moves past a run that could be the answer.      *)
THEOREM MissesNothing == Spec => []NothingMissed
<1>1. Inv => NothingMissed
  <2>1. SUFFICES ASSUME Inv, pc = "skip", NEW i \in Goal, i >= first, Run(Goal, i, call.num)
                 PROVE  i + BlockFor(call.num) > cursor
    BY DEF NothingMissed
  <2>2. i \in Starts(Sought, first, call.num)
    BY <2>1, PassIs DEF Starts
  <2> QED BY <2>1, <2>2 DEF Inv, AtSkip, Skipped, NoneBefore, Block
<1> QED BY InvInit, InvStep, <1>1, PTL DEF Spec

(* An answer is a position, or says that there is none.                    *)
LEMMA SearchIs == ASSUME call \in Calls PROVE Search(Sought, call) \in Nat \union {NotFound}
<1>1. \A lo \in Nat : Scan(Sought, lo, call.num) \in Nat \union {NotFound}
  <2>1. TAKE lo \in Nat
  <2> DEFINE starts == {i \in Sought : i >= lo /\ Run(Sought, i, call.num)}
  <2>2. starts # {} => Lowest(starts) \in Nat
    <3>1. starts \in SUBSET Nat
      BY SoughtIs
    <3> QED BY <3>1, LowestIs
  <2> QED BY <2>2 DEF Scan
<1>2. HintOf(call) \in Nat /\ 0 \in Nat
  BY CallIs
<1>3. AtHint(call) \in Nat
  BY <1>2, ByteAssumption DEF AtHint
<1> QED BY <1>1, <1>2, <1>3 DEF Search

LEMMA FlippedOutside ==
  ASSUME NEW B, NEW want, NEW lo, NEW hi, NEW i, i \notin lo..(hi - 1)
  PROVE  i \in Flipped(B, want, lo, hi) <=> i \in B
<1>1. CASE want = "set"
  BY <1>1 DEF Flipped
<1>2. CASE want # "set"
  BY <1>2 DEF Flipped
<1> QED BY <1>1, <1>2

(* The bits that are not part of the answer keep their values throughout.  *)
THEOREM OthersAreKept == Spec => []OthersKept
<1>1. Inv => OthersKept
  <2>1. SUFFICES ASSUME Inv, NEW i \in 0..(Alloc - 1), (i \in bits) # (i \in was)
                 PROVE  call.write /\ reply >= 0 /\ i >= reply /\ i < reply + call.num
    BY DEF OthersKept
  <2>2. call \in Calls /\ call.num \in Nat /\ i \in Int
    <3>1. call \in Calls
      BY <2>1 DEF Inv, TypeOK
    <3> QED BY <3>1, CallIs, AllocIs
  <2>3. pc \in {"vector", "element", "done"}
    BY <2>1 DEF Inv, TypeOK, Untouched, Searching
  <2>4. CASE pc = "done"
    <3>1. reply \in Nat \union {NotFound} /\ bits = After(was, call, reply)
      BY <2>1, <2>2, <2>4, SearchIs DEF Inv, AtDone
    <3>2. call.write /\ reply # NotFound /\ reply \in Nat
      BY <2>1, <3>1 DEF After
    <3>3. bits = Flipped(was, call.want, reply, reply + call.num)
      BY <3>1, <3>2 DEF After
    <3>4. i \in reply..((reply + call.num) - 1)
      <4>1. i \notin reply..((reply + call.num) - 1)
            => (i \in Flipped(was, call.want, reply, reply + call.num) <=> i \in was)
        BY FlippedOutside
      <4> QED BY <2>1, <3>3, <4>1
    <3> QED BY <2>2, <3>2, <3>4
  <2>5. CASE pc \in {"vector", "element"}
    <3>1. /\ bits = Flipped(Flipped(was, call.want, reply, k), call.want, stop, End)
          /\ call.write /\ reply \in Nat /\ k \in Nat /\ stop \in Nat /\ End = reply + call.num
          /\ reply < k /\ k <= stop /\ stop < End
      BY <2>1, <2>5, FlipIs, FillIs
    <3>2. i \in reply..(k - 1) \/ i \in stop..(End - 1)
      BY <2>1, <3>1 DEF Flipped
    <3> QED BY <2>2, <3>1, <3>2
  <2> QED BY <2>3, <2>4, <2>5
<1> QED BY InvInit, InvStep, <1>1, PTL DEF Spec
-----------------------------------------------------------------------------
(* The contract reads the bitmap as this module does.                      *)
LEMMA SameSearch ==
  ASSUME NEW B, NEW c, NEW r
  PROVE  /\ Contract!Search(Contract!Wanted(B, c.want, c.size), c)
            = Search(Wanted(B, c.want, c.size), c)
         /\ Contract!After(B, c, r) = After(B, c, r)
BY DEF Search, Wanted, AtHint, HintOf, Scan, Run, Lowest, NotFound, After, Flipped,
       Contract!Search, Contract!Wanted, Contract!AtHint, Contract!HintOf, Contract!Scan,
       Contract!Run, Contract!Lowest, Contract!NotFound, Contract!After, Contract!Flipped

(* No step changes what it was asked, and a call that has returned stays.  *)
LEMMA InputKept == [Next]_vars => UNCHANGED input
BY DEF Next, Step, Nothing, OneWord, LoadWord, MarkRuns, PickMark, Passes, EnterBody, TakeAtOnce,
       ScanOnly, StartSkipping, Skip, Tail, Measure, Rebuild, Core, CoreHit, CoreWord, Reject,
       EndPass, Fill, FlipEnds, FillVector, FillTail, FillElement, Returned, vars

LEMMA StaysDone == [Next]_vars /\ pc = "done" => UNCHANGED vars
BY DEF Next, Step, Nothing, OneWord, LoadWord, Something, MarkRuns, PickMark, Passes, EnterBody,
       TakeAtOnce, ScanOnly, StartSkipping, Skip, Tail, Measure, Rebuild, Core, CoreHit, CoreWord,
       Reject, EndPass, Fill, FlipEnds, FillVector, FillTail, FillElement, Returned

(* The search with its vectors, witnesses and windows, and the inversion   *)
(* with its overlapping stores, implement the one step of the contract.    *)
THEOREM Implements == Spec => KeepsContract
<1>1. Init => Contract!Init
  <2>1. SUFFICES ASSUME Init PROVE Contract!Init
    OBVIOUS
  <2>2. was \subseteq Nat /\ pc # "done"
    <3>1. TypeOK /\ Alloc \in Nat
      BY <2>1, InvInit, CallIs, AllocIs DEF Inv, Init
    <3> QED BY <2>1, <3>1 DEF Init, TypeOK
  <2> QED BY <2>2 DEF Contract!Init
<1>2. Inv /\ Inv' /\ [Next]_vars => [Contract!Serve]_(Contract!vars)
  <2>1. SUFFICES ASSUME Inv, Inv', [Next]_vars PROVE [Contract!Serve]_(Contract!vars)
    OBVIOUS
  <2>2. was' = was /\ call' = call
    BY <2>1, InputKept DEF input
  <2>3. CASE pc = "done"
    <3>1. pc' = pc /\ bits' = bits /\ reply' = reply
      BY <2>1, <2>3, StaysDone DEF vars
    <3> QED BY <2>2, <2>3, <3>1 DEF Contract!vars
  <2>4. CASE pc # "done" /\ pc' # "done"
    BY <2>2, <2>4 DEF Contract!vars
  <2>5. CASE pc # "done" /\ pc' = "done"
    <3>1. reply' = Search(Wanted(was, call.want, call.size), call) /\ bits' = After(was, call, reply')
      BY <2>1, <2>2, <2>5 DEF Inv, AtDone, Sought
    <3> QED BY <2>2, <2>5, <3>1, SameSearch DEF Contract!Serve
  <2> QED BY <2>3, <2>4, <2>5
<1> QED BY InvInit, InvStep, <1>1, <1>2, PTL DEF Spec, KeepsContract, Contract!Spec
-----------------------------------------------------------------------------
(* How far a call is from its end: first the stage it has come to, then    *)
(* what is left of that stage, and around one witness the words that are   *)
(* left of its window.                                                     *)
Hunting  == pc \in {"skip", "measure"} \/ (pc = "core" /\ back = "reject")
Scanning == pc = "core" /\ back = "end"
Turn     == IF again THEN 3 ELSE 0
Ahead(x, end) == IF x < end THEN end - x ELSE 0

Stage ==
  IF pc = "entry" THEN 9
  ELSE IF pc = "pass" THEN 8 - Turn
  ELSE IF Hunting THEN 7 - Turn
  ELSE IF Scanning THEN 6 - Turn
  ELSE IF pc \in {"mark", "flip"} THEN 2
  ELSE IF pc \in {"vector", "element"} THEN 1
  ELSE 0

Amount ==
  IF Hunting THEN Ahead(cursor, Alloc)
  ELSE IF Scanning THEN Ahead(base, till)
  ELSE IF pc = "mark" THEN owed
  ELSE IF pc \in {"vector", "element"} THEN Ahead(k, stop)
  ELSE 0

Place == IF pc = "skip" THEN 2 ELSE IF pc = "measure" THEN 1 ELSE 0

Words == IF pc = "core" THEN Ahead(base, till) ELSE 0

Nearer ==
  \/ Stage' < Stage
  \/ Stage' = Stage /\ Amount' < Amount
  \/ Stage' = Stage /\ Amount' = Amount /\ Place' < Place
  \/ Stage' = Stage /\ Amount' = Amount /\ Place' = Place /\ Words' < Words

Measures == Stage \in 0..9 /\ Amount \in Nat /\ Place \in 0..2 /\ Words \in Nat
StepsNear == [][Step => Nearer]_vars

(* A witness lies in the byte of the cursor or behind it.                  *)
AtWitness ==
  pc = "measure" \/ (pc = "core" /\ back = "reject") => cursor < cand + Byte /\ cursor < Alloc

LEMMA AheadIs ==
  ASSUME NEW x \in Nat, NEW end \in Nat
  PROVE  /\ Ahead(x, end) \in Nat
         /\ \A z \in Nat : x < end /\ x < z => Ahead(z, end) < Ahead(x, end)
BY DEF Ahead

LEMMA TurnIs ==
  ASSUME TypeOK
  PROVE  Turn \in {0, 3} /\ (again => Turn = 3) /\ (~again => Turn = 0)
BY DEF TypeOK, Turn

(* Around a witness the byte behind it is ahead of the cursor.             *)
LEMMA StepOverMoves ==
  ASSUME Inv, AtWitness, pc = "measure" \/ (pc = "core" /\ back = "reject"),
         NEW e \in Nat
  PROVE  /\ StepOver(e) \in Nat /\ Alloc \in Nat /\ cursor \in Nat
         /\ Ahead(StepOver(e), Alloc) < Ahead(cursor, Alloc)
<1>1. /\ cursor \in Nat /\ cand \in Nat /\ Alloc \in Nat
      /\ cursor < cand + Byte /\ cursor < Alloc
  BY PassIs DEF TypeOK, AtWitness
<1>2. StepOver(e) \in Nat /\ StepOver(e) >= cand + Byte
  BY <1>1, StepOverIs
<1>3. cursor < StepOver(e)
  BY <1>1, <1>2, Sizes
<1> QED BY <1>1, <1>2, <1>3, AheadIs

LEMMA WitnessStep ==
  ASSUME Inv, AtWitness, [Next]_vars
  PROVE  AtWitness'
<1>1. CASE Skip
  <2>1. CASE Witnesses(cursor) = {}
    BY <1>1, <2>1 DEF Skip, AtWitness
  <2>2. CASE Witnesses(cursor) # {}
    <3> DEFINE p == Lowest(Witnesses(cursor))
    <3>1. /\ cand' = Down(p, Byte) /\ cursor' = cursor /\ UNCHANGED input
          /\ pc = "skip" /\ cursor + Chunk <= Alloc
      BY <1>1, <2>2 DEF Skip
    <3>2. cursor \in Nat /\ Alloc \in Nat
      BY <3>1, PassIs DEF TypeOK
    <3>3. p \in Witnesses(cursor)
      <4>1. Witnesses(cursor) \in SUBSET Nat
        BY <3>2, Sizes DEF Witnesses
      <4> QED BY <4>1, <2>2, LowestIs
    <3>4. p \in cursor..(cursor + Chunk - 1)
      BY <3>3 DEF Witnesses
    <3> HIDE DEF p
    <3>5. p \in Nat /\ cursor <= p
      BY <3>2, <3>4
    <3>6. Down(p, Byte) \in Nat /\ p < Down(p, Byte) + Byte
      BY <3>5, DownIs, Sizes
    <3>7. cursor < Down(p, Byte) + Byte /\ cursor < Alloc
      BY <3>1, <3>2, <3>5, <3>6, Sizes
    <3> QED BY <3>1, <3>7, Same DEF AtWitness
  <2> QED BY <2>1, <2>2
<1>2. CASE Rebuild
  BY <1>2, Same DEF Rebuild, AtWitness, probe
<1>3. CASE CoreWord
  BY <1>3, Same DEF CoreWord, AtWitness, probe
<1>4. CASE UNCHANGED vars
  BY <1>4, Same DEF vars, core, probe, AtWitness
<1>5. CASE Nothing \/ OneWord \/ Fill
  BY <1>5 DEF Nothing, Return, OneWord, LoadWord, MarkRuns, PickMark,
     Fill, FlipEnds, FillVector, FillTail, FillElement, AtWitness
<1>6. CASE EnterBody \/ TakeAtOnce \/ ScanOnly \/ StartSkipping \/ Tail \/ Measure
  BY <1>6 DEF EnterBody, TakeAtOnce, Found, ScanOnly, Enter, StartSkipping, Tail, Measure, AtWitness
<1>7. CASE CoreHit \/ Reject \/ EndPass
  BY <1>7 DEF CoreHit, Found, Reject, EndPass, Return, AtWitness
<1> QED
  BY <1>1, <1>2, <1>3, <1>4, <1>5, <1>6, <1>7 DEF Next, Step, Passes, Core, Returned

(* The four numbers are numbers.                                           *)
LEMMA MeasuresAre ==
  ASSUME Inv
  PROVE  Measures
<1>1. TypeOK /\ Turn \in {0, 3}
  BY TurnIs DEF Inv
<1>2. Alloc \in Nat
  <2>1. call \in Calls
    BY <1>1 DEF TypeOK
  <2> QED BY <2>1, CallIs, AllocIs
<1>3. /\ Ahead(cursor, Alloc) \in Nat /\ Ahead(base, till) \in Nat
      /\ Ahead(k, stop) \in Nat /\ owed \in Nat
  BY <1>1, <1>2, AheadIs DEF TypeOK
<1>4. Stage \in 0..9 /\ Place \in 0..2
  BY <1>1 DEF Stage, Place
<1>5. Amount \in Nat /\ Words \in Nat
  BY <1>3 DEF Amount, Words
<1> QED BY <1>4, <1>5 DEF Measures
-----------------------------------------------------------------------------
(* The steps of one word, and those that leave a stage behind.             *)
LEMMA OneWordNears ==
  ASSUME Inv, Nothing \/ OneWord
  PROVE  Nearer
<1>1. CASE Nothing
  BY <1>1 DEF Nothing, Return, Nearer, Stage, Hunting, Scanning
<1>2. CASE LoadWord
  BY <1>2 DEF LoadWord, Something, Nearer, Stage, Hunting, Scanning
<1>3. CASE MarkRuns
  <2>1. /\ pc = "mark" /\ pc' = "mark" /\ owed > 0 /\ owed \in Nat
        /\ owed' = owed - (IF step < owed THEN step ELSE owed)
        /\ step = call.num - owed /\ owed < call.num
    BY <1>3 DEF MarkRuns, Inv, AtMark, TypeOK
  <2>2. call.num \in Nat
    BY CallIs DEF Inv, TypeOK
  <2>3. owed' < owed
    BY <2>1, <2>2
  <2>4. Stage' = 2 /\ Stage = 2 /\ Amount = owed /\ Amount' = owed'
    BY <2>1 DEF Stage, Amount, Hunting, Scanning
  <2> QED BY <2>3, <2>4 DEF Nearer
<1>4. CASE PickMark
  <2>1. pc = "mark" /\ pc' = "done"
    BY <1>4 DEF PickMark, Return
  <2> QED BY <2>1 DEF Nearer, Stage, Hunting, Scanning
<1> QED BY <1>1, <1>2, <1>3, <1>4 DEF OneWord

(* A stage that is left for a later one.                                   *)
LEMMA FoundNears ==
  ASSUME Inv, pc \in {"pass", "skip", "measure", "core"}, NEW r, Found(r)
  PROVE  Nearer
<1>1. TypeOK /\ Turn \in {0, 3}
  BY TurnIs DEF Inv
<1>2. Stage >= 3
  BY <1>1 DEF Stage, Hunting, Scanning, TypeOK
<1>3. Stage' \in {0, 2}
  BY DEF Found, Stage, Hunting, Scanning
<1>4. Stage \in Int
  BY MeasuresAre DEF Measures
<1> QED BY <1>2, <1>3, <1>4 DEF Nearer

LEMMA TurnSame ==
  ASSUME UNCHANGED pass
  PROVE  Turn' = Turn
BY DEF pass, Turn

LEMMA PassesNear ==
  ASSUME Inv, Inv', AtWitness, Passes
  PROVE  Nearer
<1>0. TypeOK /\ TypeOK' /\ Turn \in {0, 3}
  BY TurnIs DEF Inv
<1>1. CASE EnterBody
  <2>1. pc = "entry" /\ pc' = "pass" /\ again' = FALSE
    BY <1>1 DEF EnterBody, Something
  <2>2. Turn' = 0
    BY <2>1 DEF Turn
  <2> QED BY <2>1, <2>2 DEF Nearer, Stage
<1>2. CASE TakeAtOnce
  BY <1>2, FoundNears DEF TakeAtOnce
<1>3. CASE ScanOnly
  <2>1. pc = "pass" /\ pc' = "core" /\ back' = "end" /\ Turn' = Turn
    BY <1>3, TurnSame DEF ScanOnly, Enter
  <2> QED BY <1>0, <2>1 DEF Nearer, Stage, Hunting, Scanning
<1>4. CASE StartSkipping
  <2>1. pc = "pass" /\ pc' = "skip" /\ Turn' = Turn
    BY <1>4, TurnSame DEF StartSkipping
  <2> QED BY <1>0, <2>1 DEF Nearer, Stage, Hunting, Scanning
<1>5. CASE Skip
  <2>1. /\ pc = "skip" /\ cursor + Chunk <= Alloc /\ UNCHANGED <<input, pass>>
        /\ \/ cursor' = cursor + Chunk /\ pc' = "skip"
           \/ cursor' = cursor /\ pc' = "measure"
    BY <1>5 DEF Skip
  <2>2. Turn' = Turn /\ Alloc' = Alloc /\ Alloc \in Nat /\ cursor \in Nat
    BY <2>1, TurnSame, Same, PassIs DEF TypeOK
  <2>3. Stage' = Stage /\ Amount = Ahead(cursor, Alloc) /\ Amount' = Ahead(cursor', Alloc)
    BY <2>1, <2>2 DEF Stage, Amount, Hunting, Ahead
  <2>4. CASE cursor' = cursor + Chunk
    <3>1. cursor' \in Nat /\ cursor < cursor' /\ cursor < Alloc
      BY <2>1, <2>2, <2>4, Sizes
    <3>2. Ahead(cursor', Alloc) < Ahead(cursor, Alloc)
      BY <2>2, <3>1, AheadIs
    <3> QED BY <2>3, <3>2 DEF Nearer
  <2>5. CASE cursor' = cursor /\ pc' = "measure"
    <3>1. Place = 2 /\ Place' = 1 /\ Amount' = Amount
      BY <2>1, <2>3, <2>5 DEF Place
    <3> QED BY <2>3, <3>1 DEF Nearer
  <2> QED BY <2>1, <2>4, <2>5
<1>6. CASE Tail
  <2>1. pc = "skip" /\ pc' = "core" /\ back' = "end" /\ Turn' = Turn
    BY <1>6, TurnSame DEF Tail, Enter
  <2> QED BY <1>0, <2>1 DEF Nearer, Stage, Hunting, Scanning
<1>7. CASE Measure
  <2>1. pc = "measure" /\ UNCHANGED <<input, pass>>
    BY <1>7 DEF Measure
  <2>2. CASE Long(cand)
    BY <1>7, <2>1, <2>2, FoundNears DEF Measure
  <2>3. CASE ~Long(cand)
    <3>1. cursor' = StepOver(RunEnd(Raw, cand)) /\ pc' = "skip"
      BY <1>7, <2>3 DEF Measure
    <3>2. RunEnd(Raw, cand) \in Nat
      <4>1. cand \in Nat /\ cand <= Alloc /\ Alloc \in Nat /\ Raw \in SUBSET Nat /\ Alloc \notin Raw
        BY <2>1, PassIs DEF Inv, AtMeasure, TypeOK
      <4>2. RunEnd(Raw, cand) \in cand..Alloc
        BY <4>1, RunEndIs
      <4> QED BY <4>1, <4>2
    <3>3. Ahead(cursor', Alloc) < Ahead(cursor, Alloc)
      BY <2>1, <3>1, <3>2, StepOverMoves
    <3>4. Turn' = Turn /\ Alloc' = Alloc
      BY <2>1, TurnSame, Same
    <3>5. Stage' = Stage /\ Amount = Ahead(cursor, Alloc) /\ Amount' = Ahead(cursor', Alloc)
      BY <2>1, <3>1, <3>4 DEF Stage, Amount, Hunting, Ahead
    <3> QED BY <3>3, <3>5 DEF Nearer
  <2> QED BY <2>2, <2>3
<1>8. CASE Rebuild
  <2>1. /\ pc = "measure" /\ pc' = "core" /\ back' = "reject" /\ cursor' = cursor
        /\ UNCHANGED <<input, pass>>
    BY <1>8 DEF Rebuild, Enter, probe
  <2>2. Turn' = Turn /\ Alloc' = Alloc
    BY <2>1, TurnSame, Same
  <2>3. Stage' = Stage /\ Amount = Ahead(cursor, Alloc) /\ Amount' = Ahead(cursor, Alloc)
    BY <2>1, <2>2 DEF Stage, Amount, Hunting, Ahead
  <2>4. Place = 1 /\ Place' = 0
    BY <2>1 DEF Place
  <2> QED BY <2>3, <2>4 DEF Nearer
<1> QED BY <1>1, <1>2, <1>3, <1>4, <1>5, <1>6, <1>7, <1>8 DEF Passes

LEMMA CoreNears ==
  ASSUME Inv, AtWitness, Core
  PROVE  Nearer
<1>0. TypeOK /\ Turn \in {0, 3}
  BY TurnIs DEF Inv
<1>1. CASE CoreHit
  <2>1. pc = "core" /\ \E r : Found(r)
    BY <1>1 DEF CoreHit
  <2> QED BY <2>1, FoundNears
<1>2. CASE CoreWord
  <2>1. /\ pc = "core" /\ pc' = pc /\ base < till /\ base' = base + Word
        /\ UNCHANGED <<input, pass>> /\ till' = till /\ back' = back /\ cursor' = cursor
    BY <1>2 DEF CoreWord, probe
  <2>2. Turn' = Turn /\ Alloc' = Alloc /\ base \in Nat /\ till \in Nat /\ back \in {"end", "reject"}
    BY <1>0, <2>1, TurnSame, Same DEF TypeOK
  <2>3. base' \in Nat /\ base < base'
    BY <2>1, <2>2, Sizes
  <2>4. Ahead(base', till) < Ahead(base, till)
    BY <2>1, <2>2, <2>3, AheadIs
  <2>5. CASE back = "end"
    <3>1. Stage' = Stage /\ Amount = Ahead(base, till) /\ Amount' = Ahead(base', till)
      BY <2>1, <2>2, <2>5 DEF Stage, Amount, Hunting, Scanning, Ahead
    <3> QED BY <2>4, <3>1 DEF Nearer
  <2>6. CASE back = "reject"
    <3>1. Stage' = Stage /\ Amount' = Amount /\ Place' = Place
      BY <2>1, <2>2, <2>6 DEF Stage, Amount, Hunting, Ahead, Place
    <3>2. Words = Ahead(base, till) /\ Words' = Ahead(base', till)
      BY <2>1 DEF Words, Ahead
    <3> QED BY <2>4, <3>1, <3>2 DEF Nearer
  <2> QED BY <2>2, <2>5, <2>6
<1>3. CASE Reject
  <2>1. /\ pc = "core" /\ back = "reject" /\ cursor' = StepOver(RunEnd(Goal, cand)) /\ pc' = "skip"
        /\ UNCHANGED <<input, pass>>
    BY <1>3 DEF Reject
  <2>2. RunEnd(Goal, cand) \in Nat
    <3>1. cand \in Nat /\ cand <= Alloc /\ Alloc \in Nat /\ Goal \in SUBSET Nat /\ Alloc \notin Goal
      BY <2>1, PassIs DEF Inv, AtMeasure, TypeOK
    <3>2. RunEnd(Goal, cand) \in cand..Alloc
      BY <3>1, RunEndIs
    <3> QED BY <3>1, <3>2
  <2>3. Ahead(cursor', Alloc) < Ahead(cursor, Alloc)
    BY <2>1, <2>2, StepOverMoves
  <2>4. Turn' = Turn /\ Alloc' = Alloc
    BY <2>1, TurnSame, Same
  <2>5. Stage' = Stage /\ Amount = Ahead(cursor, Alloc) /\ Amount' = Ahead(cursor', Alloc)
    BY <2>1, <2>4 DEF Stage, Amount, Hunting, Ahead
  <2> QED BY <2>3, <2>5 DEF Nearer
<1>4. CASE EndPass
  <2>1. pc = "core" /\ back = "end" /\ Stage = 6 - Turn
    BY <1>4 DEF EndPass, Stage, Hunting, Scanning
  <2>2. CASE again \/ HintOf(call) = 0
    <3>1. pc' = "done"
      BY <1>4, <2>2 DEF EndPass, Return
    <3>2. Stage' = 0
      BY <3>1 DEF Stage, Hunting, Scanning
    <3> QED BY <1>0, <2>1, <3>2 DEF Nearer
  <2>3. CASE ~(again \/ HintOf(call) = 0)
    <3>1. pc' = "pass" /\ again' = TRUE /\ ~again
      BY <1>4, <2>3 DEF EndPass
    <3>2. Turn = 0 /\ Turn' = 3
      BY <3>1 DEF Turn
    <3>3. Stage' = 5
      BY <3>1, <3>2 DEF Stage
    <3> QED BY <2>1, <3>2, <3>3 DEF Nearer
  <2> QED BY <2>2, <2>3
<1> QED BY <1>1, <1>2, <1>3, <1>4 DEF Core

LEMMA FillNears ==
  ASSUME Inv, Inv', Fill
  PROVE  Nearer
<1>1. CASE FlipEnds
  <2>1. pc = "flip" /\ pc' \in {"done", "vector", "element"}
    BY <1>1 DEF FlipEnds
  <2> QED BY <2>1 DEF Nearer, Stage, Hunting, Scanning
<1>2. CASE FillTail
  <2>1. pc = "vector" /\ pc' = "done"
    BY <1>2 DEF FillTail
  <2> QED BY <2>1 DEF Nearer, Stage, Hunting, Scanning
<1>3. ASSUME pc \in {"vector", "element"}, pc' = pc, stop' = stop, k < k', k < stop
      PROVE  Nearer
  <2>1. k \in Nat /\ k' \in Nat /\ stop \in Nat
    BY DEF Inv, TypeOK
  <2>2. Ahead(k', stop) < Ahead(k, stop)
    BY <1>3, <2>1, AheadIs
  <2>3. Stage' = Stage /\ Amount = Ahead(k, stop) /\ Amount' = Ahead(k', stop)
    BY <1>3 DEF Stage, Amount, Hunting, Scanning, Ahead
  <2> QED BY <2>2, <2>3 DEF Nearer
<1>4. CASE FillVector
  <2>1. /\ pc = "vector" /\ pc' = pc /\ stop' = stop /\ k' = k + Chunk /\ stop - k >= Chunk
        /\ k \in Nat /\ stop \in Nat
    BY <1>4 DEF FillVector, Inv, TypeOK
  <2>2. k < k' /\ k < stop
    BY <2>1, Sizes
  <2> QED BY <2>1, <2>2, <1>3
<1>5. CASE FillElement
  <2>1. /\ pc = "element" /\ pc' \in {"done", "element"} /\ stop' = stop /\ k' = k + Ulong
        /\ k \in Nat /\ stop \in Nat /\ k < stop
    BY <1>5 DEF FillElement, Inv, TypeOK, AtFill
  <2>2. k < k'
    BY <2>1, Sizes
  <2>3. CASE pc' = "done"
    BY <2>1, <2>3 DEF Nearer, Stage, Hunting, Scanning
  <2> QED BY <2>1, <2>2, <2>3, <1>3
<1> QED BY <1>1, <1>2, <1>4, <1>5 DEF Fill

(* No step of a call can be taken for ever: the vectors go on to the end   *)
(* of the buffer and a rejected witness moves the cursor behind its own    *)
(* byte, the words of a window are counted, and the second pass is the     *)
(* last.  Four numbers fall in the order of the dictionary.                *)
THEOREM FindEnds == Spec => []Measures /\ StepsNear
<1>1. Inv => Measures
  BY MeasuresAre
<1>2. Init => AtWitness
  BY DEF Init, AtWitness
<1>3. Inv /\ AtWitness /\ [Next]_vars => AtWitness'
  BY WitnessStep
<1>4. Inv /\ Inv' /\ AtWitness /\ [Next]_vars => [Step => Nearer]_vars
  BY OneWordNears, PassesNear, CoreNears, FillNears DEF Step
<1>5. Spec => []Inv
  BY InvInit, InvStep, PTL DEF Spec
<1>6. Spec => []AtWitness
  BY <1>2, <1>3, <1>5, PTL DEF Spec
<1> QED BY <1>1, <1>4, <1>5, <1>6, PTL DEF Spec, StepsNear
=============================================================================
