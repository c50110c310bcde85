---------------------------- MODULE MCFindBits ----------------------------
(***************************************************************************)
(* Elements of 4 bits, words of 8 and vectors of 16; witness blocks of 2,  *)
(* 4 (a byte) and 8 bits (a word).  Three families of calls: every short   *)
(* bitmap; searches of long ones with two runs that begin and end at or    *)
(* next to the borders of elements, words and vectors; and long ones with  *)
(* a run that is inverted.                                                 *)
(***************************************************************************)
EXTENDS FindBits

CONSTANTS ShortSizes, ShortHints, LongSizes, LongNums, LongHints, FillNums, Cuts

MakeCall(size, num, hint, want, write, null) ==
  [size |-> size, num |-> num, hint |-> hint, want |-> want, write |-> write, null |-> null]

NullCalls  == {MakeCall(0, 1, 0, "set", TRUE, TRUE), MakeCall(2, 1, 0, "set", FALSE, TRUE)}
ShortCalls == {MakeCall(s, n, h, w, TRUE, FALSE) :
                 s \in ShortSizes, n \in 0..5 \union {8, 9}, h \in ShortHints, w \in {"set", "clear"}}
LongCalls  == {MakeCall(s, n, h, "set", FALSE, FALSE) : s \in LongSizes, n \in LongNums, h \in LongHints}
FillCalls  == {MakeCall(s, n, h, w, TRUE, FALSE) :
                 s \in LongSizes, n \in FillNums, h \in {0, 5}, w \in {"set", "clear"}}
MCCalls    == NullCalls \union ShortCalls \union LongCalls \union FillCalls

Segments == {p[1]..(p[2] - 1) : p \in {q \in Cuts \X Cuts : q[1] <= q[2]}}

(* The same as Init, but for the bitmaps: TLC could not filter them all.   *)
MCBits ==
  IF call \in NullCalls \union ShortCalls THEN SUBSET (0..(Alloc - 1))
  ELSE IF call \in LongCalls
       THEN {(s \union t) \intersect (0..(Alloc - 1)) : s \in Segments, t \in Segments}
  ELSE IF call.want = "set" THEN {s \intersect (0..(Alloc - 1)) : s \in Segments}
  ELSE {0..(Alloc - 1) \ s : s \in Segments}

MCInit ==
  /\ call \in MCCalls /\ bits \in MCBits /\ was = bits
  /\ reply = Pending /\ pc = "entry"
  /\ y = {} /\ owed = 0 /\ step = 1
  /\ first = 0 /\ again = FALSE /\ cursor = 0 /\ cand = 0
  /\ from = 0 /\ till = 0 /\ base = 0 /\ carry = 0 /\ start = 0 /\ back = "end"
  /\ k = 0 /\ stop = 0 /\ mem = [lo |-> 0, hi |-> 0]
MCSpec == MCInit /\ [][Next]_vars /\ WF_vars(Step)
=============================================================================
