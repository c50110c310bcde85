----------------------------- MODULE FindBits -----------------------------
(***************************************************************************)
(* RtlFindSetBitsAndClear and RtlFindClearBitsAndSet (change 262) over the *)
(* searches RtlFindSetBits and RtlFindClearBits (change 256), load by load *)
(* and store by store.  A bitmap of one machine word is answered in a      *)
(* register; in a longer one the search looks for witnesses, aligned       *)
(* blocks of wanted bits that every run of the length asked for contains,  *)
(* and measures the run around each.                                       *)
(***************************************************************************)
EXTENDS Bitmap

CONSTANTS
  Ulong,     \* bits in an element of the buffer: 32
  Vec,       \* elements in a vector register: 8
  Blocks,    \* sizes of witness blocks: 2, 4, 8, 16, 32, 64
  Span,      \* bit positions are computed modulo this: 2^32
  Pending,   \* no answer yet
  Calls      \* the calls that are made

Word  == 2 * Ulong     \* bits in a machine word
Chunk == Vec * Ulong   \* bits in a vector register

ASSUME SizesAssumption ==
  /\ Ulong \in Nat \ {0} /\ Vec \in Nat \ {0} /\ Ulong % Byte = 0
  /\ Pending \notin Nat \union {NotFound}
ASSUME BlocksAssumption ==
  /\ {2, Byte} \subseteq Blocks
  /\ \A b \in Blocks : /\ b \in 2..Word /\ Chunk % b = 0
                       /\ b < Byte => Byte % b = 0
                       /\ b >= Byte => b % Byte = 0
ASSUME CallsAssumption ==
  Calls \subseteq [size : Nat, num : Nat, hint : Nat, want : {"set", "clear"},
                   write : BOOLEAN, null : BOOLEAN]
(* Bitmaps end a word before positions wrap round; the code has no guard.  *)
ASSUME SpanAssumption == Span \in Nat /\ \A c \in Calls : c.size + Word <= Span

VARIABLES
  bits, was,           \* the positions of the set bits; ghost: what the call found
  call, reply,         \* the arguments, and what is returned
  pc,
  y, owed, step,       \* one word: the marks, and the shifting still owed
  first, again,        \* the pass: its first bit, and whether it is the second
  cursor, cand,        \* where the next vector is loaded; the byte of a witness
  from, till,          \* the window of the word scanner
  base, carry, start,  \* its word, and the run that reaches into it
  back,                \* where it returns to
  k, stop,             \* the fill: the next element, and the last one
  mem                  \* ghost: the bits that the last load or store touched

input  == <<was, call>>
small  == <<y, owed, step>>
pass   == <<first, again>>
probe  == <<cursor, cand>>
core   == <<from, till, base, carry, start, back>>
fill   == <<k, stop>>
vars   == <<bits, input, reply, pc, small, pass, probe, core, fill, mem>>

Alloc == call.size + ((-call.size) % Ulong)
Down(x, b) == x - (x % b)

(* The wanted bits of the bitmap, and those of the whole buffer, which is  *)
(* what a vector sees.                                                     *)
Goal == Wanted(bits, call.want, call.size)
Raw  == Wanted(bits, call.want, Alloc)

Touch(lo, hi) == mem' = [lo |-> lo, hi |-> hi]

Init ==
  /\ call \in Calls /\ bits \in SUBSET (0..(Alloc - 1)) /\ was = bits
  /\ reply = Pending /\ pc = "entry"
  /\ y = {} /\ owed = 0 /\ step = 1
  /\ first = 0 /\ again = FALSE /\ cursor = 0 /\ cand = 0
  /\ from = 0 /\ till = 0 /\ base = 0 /\ carry = 0 /\ start = 0 /\ back = "end"
  /\ k = 0 /\ stop = 0 /\ mem = [lo |-> 0, hi |-> 0]

(* The call returns r, which wrote nothing.                                *)
Return(r) == reply' = r /\ pc' = "done"

(* A run was found: it is returned, or first inverted.                     *)
Found(r) == reply' = r /\ pc' = IF call.write THEN "flip" ELSE "done"

InOneWord == call.write /\ call.size <= Word

(* The early returns, the same on both paths.  null stands for a NULL      *)
(* header, and also for a header whose Buffer is NULL where a search would *)
(* look at it: with something to search for both answer NotFound.          *)
Nothing ==
  /\ pc = "entry"
  /\ call.null \/ call.num = 0 \/ call.num > call.size
  /\ Return(IF ~call.null /\ call.num = 0 THEN AtHint(call) ELSE NotFound)
  /\ UNCHANGED <<bits, input, small, pass, probe, core, fill, mem>>

Something == pc = "entry" /\ ~call.null /\ call.num \in 1..call.size
-----------------------------------------------------------------------------
(* One word: SMALL of change 262.                                          *)

(* One or two elements are loaded, and what lies behind the end is masked. *)
LoadWord ==
  /\ Something /\ InOneWord
  /\ y' = Goal /\ owed' = call.num - 1 /\ step' = 1
  /\ Touch(0, IF call.size <= Ulong THEN Ulong ELSE Word)
  /\ pc' = "mark"
  /\ UNCHANGED <<bits, input, reply, pass, probe, core, fill>>

(* y &= y >> s: a mark stays where the run goes on for s bits more.        *)
MarkRuns ==
  /\ pc = "mark" /\ owed > 0
  /\ LET s == IF step < owed THEN step ELSE owed
     IN  /\ y' = {i \in y : i + s \in y}
         /\ owed' = owed - s /\ step' = 2 * s
  /\ UNCHANGED <<bits, input, reply, pc, pass, probe, core, fill, mem>>

(* The first mark from the hint on, or the first of all; its bits are      *)
(* inverted under a mask of two elements, the second only if it is reached.*)
PickMark ==
  /\ pc = "mark" /\ owed = 0
  /\ IF y = {} THEN Return(NotFound) /\ UNCHANGED <<bits, mem>>
     ELSE LET ahead == {i \in y : i >= HintOf(call)}
              r == Lowest(IF ahead # {} THEN ahead ELSE y)
          IN  /\ Return(r)
              /\ bits' = Flipped(bits, call.want, r, r + call.num)
              /\ Touch(0, IF r + call.num <= Ulong THEN Ulong ELSE Word)
  /\ UNCHANGED <<input, small, pass, probe, core, fill>>
-----------------------------------------------------------------------------
(* The passes of change 256.                                               *)

(* Mutant of BlockFor: a block that a run of n bits may just miss.         *)
BlockForBold(n) == CHOOSE b \in Blocks : /\ n >= 2 * b - 2
                                         /\ \A c \in Blocks : n >= 2 * c - 2 => c <= b

(* The largest block of which every run of n bits contains an aligned one. *)
BlockFor(n) == CHOOSE b \in Blocks : /\ n >= 2 * b - 1
                                     /\ \A c \in Blocks : n >= 2 * c - 1 => c <= b

EnterBody ==
  /\ Something /\ ~InOneWord
  /\ first' = HintOf(call) /\ again' = FALSE /\ pc' = "pass"
  /\ UNCHANGED <<bits, input, reply, small, probe, core, fill, mem>>

(* One load, on a word boundary: the run starts where the search does.     *)
AtOnce == /\ first % Word = 0 /\ first + Word <= call.size
          /\ call.num <= Word /\ Run(Goal, first, call.num)

TakeAtOnce ==
  /\ pc = "pass" /\ AtOnce
  /\ Found(first) /\ Touch(first, first + Word)
  /\ UNCHANGED <<bits, input, small, pass, probe, core, fill>>

(* fsb_core, called for the words from bit lo to bit hi.                   *)
Enter(lo, hi, to) ==
  /\ from' = lo /\ till' = hi /\ back' = to
  /\ base' = Down(lo, Word) /\ carry' = 0 /\ start' = 0
  /\ pc' = "core"

(* Short runs and short buffers are left to the word scanner.              *)
ScanOnly ==
  /\ pc = "pass" /\ ~AtOnce /\ (call.num < 3 \/ Alloc < Chunk)
  /\ Enter(first, Alloc, "end")
  /\ UNCHANGED <<bits, input, reply, small, pass, probe, fill, mem>>

StartSkipping ==
  /\ pc = "pass" /\ ~AtOnce /\ call.num >= 3 /\ Alloc >= Chunk
  /\ cursor' = Down(first, Byte) /\ pc' = "skip"
  /\ UNCHANGED <<bits, input, reply, small, pass, cand, core, fill, mem>>

(* The aligned blocks of wanted bits in the vector at a bit position.      *)
Witnesses(at) ==
  {p \in at..(at + Chunk - 1) :
     (p - at) % BlockFor(call.num) = 0 /\ Run(Raw, p, BlockFor(call.num))}

(* VSKIP: a vector without a witness is skipped.                           *)
Skip ==
  /\ pc = "skip" /\ cursor + Chunk <= Alloc
  /\ Touch(cursor, cursor + Chunk)
  /\ IF Witnesses(cursor) = {}
     THEN cursor' = cursor + Chunk /\ UNCHANGED <<pc, cand>>
     ELSE cand' = Down(Lowest(Witnesses(cursor)), Byte) /\ pc' = "measure" /\ UNCHANGED cursor
  /\ UNCHANGED <<bits, input, reply, small, pass, core, fill>>

(* A word before a bit, but not before the first bit of the pass; what     *)
(* looks like a negative number to a signed test is the first bit, too.    *)
WindowFrom(bit) ==
  IF bit - Word < first \/ bit - Word >= Span \div 2 THEN first ELSE bit - Word

(* Mutant of Tail: the scan starts at the cursor itself.                   *)
TailAtCursor ==
  /\ pc = "skip" /\ cursor + Chunk > Alloc
  /\ Enter(IF cursor < first THEN first ELSE cursor, Alloc, "end")
  /\ UNCHANGED <<bits, input, reply, small, pass, probe, fill, mem>>

(* fsb_vtail: what is too short for a vector, and the word before it.      *)
Tail ==
  /\ pc = "skip" /\ cursor + Chunk > Alloc
  /\ Enter(WindowFrom(cursor), Alloc, "end")
  /\ UNCHANGED <<bits, input, reply, small, pass, probe, fill, mem>>

(* Where the wanted bits that start at a end.                              *)
RunEnd(S, a) == Lowest({e \in a..Alloc : e \notin S})

(* Where the run around a starts: at most a word below, never before the   *)
(* first bit of the pass.                                                  *)
WordBelow(a) == IF a - Word < first THEN first ELSE a - Word
RunStart(a)  == Lowest({s \in WordBelow(a)..a : Run(Raw, s, a - s)})

Away == /\ call.num >= 2 * Byte - 1
        /\ cand >= first
        /\ cand + call.num + 2 * Word <= call.size

(* The words that are loaded to measure the run around a, at most.         *)
Around(a) == Touch(IF a < Word THEN 0 ELSE a - Word, a + call.num + Word)
Long(a)   == RunEnd(Raw, a) - RunStart(a) >= call.num

(* The byte in which a run ends, but not the witness itself.               *)
StepOver(e) == IF Down(e, Byte) < cand + Byte THEN cand + Byte ELSE Down(e, Byte)

(* Mutant of Measure: a miss resumes at the witness.                       *)
MeasureAgain ==
  /\ pc = "measure" /\ Away
  /\ Around(cand)
  /\ IF Long(cand)
     THEN Found(RunStart(cand)) /\ UNCHANGED cursor
     ELSE cursor' = cand /\ pc' = "skip" /\ UNCHANGED reply
  /\ UNCHANGED <<bits, input, small, pass, cand, core, fill>>

(* Away from both edges the run is measured in place: long enough, or      *)
(* stepped over, never by less than a byte.                                *)
Measure ==
  /\ pc = "measure" /\ Away
  /\ Around(cand)
  /\ IF Long(cand)
     THEN Found(RunStart(cand)) /\ UNCHANGED cursor
     ELSE cursor' = StepOver(RunEnd(Raw, cand)) /\ pc' = "skip" /\ UNCHANGED reply
  /\ UNCHANGED <<bits, input, small, pass, cand, core, fill>>

(* Near an edge, or with a block smaller than a byte, the word scanner     *)
(* searches the neighbourhood of the witness.  The sum may wrap round.     *)
Rebuild ==
  /\ pc = "measure" /\ ~Away
  /\ LET end == Down((cand + call.num) % Span, Word) + 2 * Word
     IN  Enter(WindowFrom(cand), IF Alloc < end THEN Alloc ELSE end, "reject")
  /\ UNCHANGED <<bits, input, reply, small, pass, probe, fill, mem>>
-----------------------------------------------------------------------------
(* fsb_core: word after word, with the run that reaches into it.           *)

(* Mutant of WordLoad: the last word is loaded whole.                      *)
WordLoadWhole == Touch(base, base + Word)

(* The last word may have one element only.                                *)
WordLoad == Touch(base, IF base + Word <= Alloc THEN base + Word ELSE base + Ulong)

(* The wanted bits of a word that the window contains.                     *)
InWord == {b \in Goal : base <= b /\ b < base + Word /\ b >= from}

Carried == RunEnd(InWord, base) - base
StartOf == IF carry = 0 THEN base ELSE start
Inside  == {i \in InWord : Run(InWord, i, call.num)}

(* The run that ends in this word, or else the first one inside it.        *)
CoreHit ==
  /\ pc = "core" /\ base < till
  /\ \/ carry + Carried >= call.num /\ Found(StartOf)
     \/ carry + Carried < call.num /\ Inside # {} /\ Found(Lowest(Inside))
  /\ WordLoad
  /\ UNCHANGED <<bits, input, small, pass, probe, core, fill>>

(* The top of the word, which may reach on.                                *)
TopRun == Lowest({s \in base..(base + Word) : Run(InWord, s, base + Word - s)})

CoreWord ==
  /\ pc = "core" /\ base < till
  /\ carry + Carried < call.num /\ Inside = {}
  /\ IF Carried = Word
     THEN carry' = carry + Word /\ start' = StartOf
     ELSE carry' = base + Word - TopRun /\ start' = TopRun
  /\ base' = base + Word /\ WordLoad
  /\ UNCHANGED <<bits, input, reply, pc, small, pass, probe, from, till, back, fill>>

(* fsb_fz: nothing near the witness, its run is stepped over.              *)
Reject ==
  /\ pc = "core" /\ base >= till /\ back = "reject"
  /\ cursor' = StepOver(RunEnd(Goal, cand))
  /\ pc' = "skip"
  /\ UNCHANGED <<bits, input, reply, small, pass, cand, core, fill, mem>>

(* fsb_pass_done: the second pass starts at the beginning.                 *)
EndPass ==
  /\ pc = "core" /\ base >= till /\ back = "end"
  /\ IF again \/ HintOf(call) = 0
     THEN Return(NotFound) /\ UNCHANGED pass
     ELSE first' = 0 /\ again' = TRUE /\ pc' = "pass" /\ UNCHANGED reply
  /\ UNCHANGED <<bits, input, small, probe, core, fill, mem>>
-----------------------------------------------------------------------------
(* MUT of change 262: the first and the last element under masks, whole    *)
(* elements between them.                                                  *)
End == reply + call.num

FlipEnds ==
  /\ pc = "flip"
  /\ LET lo == Down(reply, Ulong)
         hi == Down(End - 1, Ulong)
         head == Flipped(bits, call.want, reply, IF lo = hi THEN End ELSE lo + Ulong)
     IN  /\ bits' = IF lo = hi THEN head ELSE Flipped(head, call.want, hi, End)
         /\ k' = lo + Ulong /\ stop' = hi
         /\ pc' = IF lo + Ulong >= hi THEN "done"
                  ELSE IF hi - lo - Ulong >= Chunk THEN "vector" ELSE "element"
         /\ Touch(lo, hi + Ulong)
  /\ UNCHANGED <<input, reply, small, pass, probe, core>>

Store(lo, hi) == bits' = Flipped(bits, call.want, lo, hi) /\ Touch(lo, hi)

FillVector ==
  /\ pc = "vector" /\ stop - k >= Chunk
  /\ Store(k, k + Chunk) /\ k' = k + Chunk
  /\ UNCHANGED <<input, reply, pc, small, pass, probe, core, stop>>

(* Mutant of FillTail: the last vector is stored where the loop stopped.   *)
FillTailOver ==
  /\ pc = "vector" /\ stop - k < Chunk
  /\ Store(k, k + Chunk) /\ pc' = "done"
  /\ UNCHANGED <<input, reply, small, pass, probe, core, fill>>

(* The rest is one more vector, which overlaps what is stored already.     *)
FillTail ==
  /\ pc = "vector" /\ stop - k < Chunk
  /\ Store(stop - Chunk, stop) /\ pc' = "done"
  /\ UNCHANGED <<input, reply, small, pass, probe, core, fill>>

(* Mutant of FillElement: the last element is stored as a whole, too.      *)
FillElementOver ==
  /\ pc = "element"
  /\ Store(k, k + Ulong) /\ k' = k + Ulong
  /\ pc' = IF k = stop THEN "done" ELSE "element"
  /\ UNCHANGED <<input, reply, small, pass, probe, core, stop>>

(* Fewer elements than a vector are stored one by one.                     *)
FillElement ==
  /\ pc = "element"
  /\ Store(k, k + Ulong) /\ k' = k + Ulong
  /\ pc' = IF k + Ulong = stop THEN "done" ELSE "element"
  /\ UNCHANGED <<input, reply, small, pass, probe, core, stop>>

Returned == pc = "done" /\ UNCHANGED vars

OneWord == LoadWord \/ MarkRuns \/ PickMark
Passes  == EnterBody \/ TakeAtOnce \/ ScanOnly \/ StartSkipping \/ Skip \/ Tail \/ Measure \/ Rebuild
Core    == CoreHit \/ CoreWord \/ Reject \/ EndPass
Fill    == FlipEnds \/ FillVector \/ FillTail \/ FillElement
Step    == Nothing \/ OneWord \/ Passes \/ Core \/ Fill
Next    == Step \/ Returned

Spec == Init /\ [][Next]_vars
FairSpec == Spec /\ WF_vars(Step)
-----------------------------------------------------------------------------
(* The arguments never change; whatever is scanned lies in the buffer.     *)
TypeOK ==
  /\ call \in Calls /\ bits \subseteq 0..(Alloc - 1) /\ was \subseteq 0..(Alloc - 1)
  /\ reply \in {Pending, NotFound} \union Nat
  /\ pc \in {"entry", "mark", "pass", "skip", "measure", "core", "flip", "vector", "element", "done"}
  /\ y \subseteq 0..(Alloc - 1) /\ owed \in Nat /\ step \in Nat
  /\ first \in Nat /\ again \in BOOLEAN /\ cursor \in Nat /\ cand \in Nat
  /\ from \in Nat /\ till \in Nat /\ base \in Nat /\ carry \in Nat /\ start \in Nat
  /\ back \in {"end", "reject"} /\ k \in Nat /\ stop \in Nat
  /\ mem \in [lo : Nat, hi : Nat]

(* Whatever is skipped, no run that counts is left behind: one that starts *)
(* at or after the first bit of the pass reaches over the cursor, for it   *)
(* has no block of its own before it.                                      *)
NothingMissed ==
  pc = "skip" =>
    \A i \in Goal : i >= first /\ Run(Goal, i, call.num) => i + BlockFor(call.num) > cursor

(* Loads and stores stay in the elements that the caller allocated: the    *)
(* word that would reach behind an odd last one is never touched.          *)
InsideBuffer == mem.lo >= 0 /\ mem.hi <= Alloc

(* While the run is being inverted, and after it, every other bit is as it *)
(* was, the ones behind the end of the bitmap too.                         *)
OthersKept ==
  \A i \in 0..(Alloc - 1) :
    (i \in bits) # (i \in was) => call.write /\ reply >= 0 /\ i >= reply /\ i < reply + call.num

(* Word by word and witness by witness, the call is one step of the        *)
(* contract: the answer of the bit-by-bit search, and its bits inverted.   *)
Contract == INSTANCE BitmapContract WITH
  bits  <- IF pc = "done" THEN bits ELSE was,
  reply <- IF pc = "done" THEN reply ELSE Pending
KeepsContract == Contract!Spec

(* Every call returns: each rejected witness moves the cursor.             *)
Returns == <>(pc = "done")
=============================================================================
