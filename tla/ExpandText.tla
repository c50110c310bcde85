----------------------------- MODULE ExpandText -----------------------------
(***************************************************************************)
(* A subject with %names% in it, and the destination it is expanded into,  *)
(* as reference.c of change 291 sees them.  Characters are strings; where  *)
(* the subject ends there is a NUL.                                        *)
(***************************************************************************)
EXTENDS Integers, Sequences

NulChar     == "NUL"
Percent == "%"

Smaller(a, b) == IF a < b THEN a ELSE b
Nearest(S)    == CHOOSE x \in S : \A y \in S : x <= y

CharAt(s, i) == IF i < Len(s) THEN s[i + 1] ELSE NulChar
IsStop(s, i) == CharAt(s, i) \in {NulChar, Percent}

(* The first percent sign or NUL from i on.                                *)
StopFrom(s, i) == Nearest({x \in i..Len(s) : IsStop(s, x)})

(* A name is not empty and lies between two percent signs.                 *)
IsName(s, i) ==
  /\ CharAt(s, i) = Percent /\ i + 1 < Len(s)
  /\ StopFrom(s, i + 1) \in (i + 2)..(Len(s) - 1)
NameAt(s, i) == SubSeq(s, i + 2, StopFrom(s, i + 1))

(* What has become of the destination: the cells, where the next character *)
(* goes, how many cells are free, how many characters the answer would     *)
(* have, and whether they no longer fit.                                   *)
Fresh(cells, size) == [cells |-> cells, out |-> 0, free |-> size, made |-> 0, over |-> FALSE]

Written(cells, at, chars) ==
  [x \in DOMAIN cells |-> IF x \in at..(at + Len(chars) - 1) THEN chars[x - at + 1] ELSE cells[x]]

(* Mutant of Counted: what is not copied is not counted.                   *)
CountedWhileRoom(d, chars) == IF d.over THEN d.made ELSE d.made + Len(chars)

Counted(d, chars) == d.made + Len(chars)

(* Literal characters are counted whether or not they fit; the last free   *)
(* cell is kept for the NUL; nothing is copied once it has not fitted.     *)
Emitted(d, chars) ==
  LET n == IF d.over \/ d.free <= 1 THEN 0 ELSE Smaller(Len(chars), d.free - 1)
  IN  [cells |-> Written(d.cells, d.out, SubSeq(chars, 1, n)),
       out   |-> d.out + n,
       free  |-> d.free - n,
       made  |-> Counted(d, chars),
       over  |-> d.over \/ n < Len(chars)]

(* The value goes straight into the destination, with a NUL behind it that *)
(* is not counted.  If it does not fit, a NUL is all that is written.      *)
Substituted(d, value) ==
  IF Len(value) < d.free
  THEN [d EXCEPT !.cells = Written(d.cells, d.out, value \o <<NulChar>>), !.out = @ + Len(value),
                 !.free = @ - Len(value), !.made = @ + Len(value)]
  ELSE [d EXCEPT !.cells = IF d.free > 0 THEN Written(d.cells, d.out, <<NulChar>>) ELSE d.cells,
                 !.made = @ + Len(value), !.over = TRUE]

(* At the end of the subject.                                              *)
Ended(d) ==
  IF d.over THEN d
  ELSE IF d.free = 0 THEN [d EXCEPT !.over = TRUE]
  ELSE [d EXCEPT !.cells = Written(d.cells, d.out, <<NulChar>>)]
=============================================================================
