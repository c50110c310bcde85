------------------------------ MODULE WildName ------------------------------
(***************************************************************************)
(* Names and expressions with wildcards, as reference.c of change 301      *)
(* matches them.  Characters are strings, positions start at 0.            *)
(***************************************************************************)
EXTENDS Integers, Sequences

Star    == "*"
Any     == "?"
DosStar == "<"
DosAny  == ">"
DosDot  == "\""
Dot     == "."

Dos  == {DosStar, DosAny, DosDot}
Wild == {Star, Any} \union Dos

At(s, i) == s[i + 1]

(* A dot of the name at position i.                                        *)
DotAt(name, i) == i \in 0..(Len(name) - 1) /\ At(name, i) = Dot

(* What one character of the expression may stand for: the characters of   *)
(* the name from i up to j.                                                *)
Takes(c, name, i, j) ==
  LET one  == i < Len(name) /\ j = i + 1
      none == j = i
      end  == i = Len(name)
  IN  \/ c = Star    /\ j \in i..Len(name)
      \/ c = Any     /\ one
      \/ /\ c = DosStar /\ j \in i..Len(name)
         /\ (\E d \in i..Len(name) : DotAt(name, d)) => \E d \in i..Len(name) : DotAt(name, d) /\ j <= d + 1
      \/ c = DosAny  /\ \/ one /\ ~DotAt(name, i)
                        \/ none /\ (end \/ DotAt(name, i))
                        \/ one /\ DotAt(name, i) /\ j = Len(name)
      \/ c = DosDot  /\ ((one /\ DotAt(name, i)) \/ (none /\ end))
      \/ c \notin Wild /\ one /\ At(name, i) = c

(* The name from i up to j can be cut into pieces, one for each character  *)
(* of the expression from p up to q: ends[k] is where the pieces before    *)
(* the k-th can end.                                                       *)
Cuts(expr, name, p, q, i, j) ==
  LET ends[k \in p..q] ==
        IF k = p THEN {i}
        ELSE LET before == ends[k - 1]
             IN  {y \in i..j : \E x \in before : Takes(At(expr, k - 1), name, x, y)}
  IN  j \in ends[q]

(* A star and a literal suffix: the name is then counted without the       *)
(* character that an odd Length cuts in two.                               *)
StarSuffix(expr) ==
  Len(expr) >= 2 /\ At(expr, 0) = Star /\ \A k \in 1..(Len(expr) - 1) : At(expr, k) \notin Wild

EndsWith(s, t) == Len(s) >= Len(t) /\ SubSeq(s, Len(s) - Len(t) + 1, Len(s)) = t

Matches(q) ==
  IF StarSuffix(q.expr)
  THEN EndsWith(SubSeq(q.name, 1, IF q.odd THEN Len(q.name) - 1 ELSE Len(q.name)), Tail(q.expr))
  ELSE IF q.name = <<>> THEN q.expr = <<>>
  ELSE Cuts(q.expr, q.name, 0, Len(q.expr), 0, Len(q.name))
=============================================================================
