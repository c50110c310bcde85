------------------------------ MODULE NameExpr ------------------------------
(***************************************************************************)
(* RtlIsNameInUnUpcasedExpression without upcasing (change 301): answers   *)
(* for the common shapes; then the literal ends of the expression are      *)
(* compared in place, and what lies between them is matched greedily if    *)
(* it has no DOS wildcard, and else column by column, with a bitset of the *)
(* positions of the name that the expression can have come to.             *)
(***************************************************************************)
EXTENDS WildName

CONSTANTS
  Queries,    \* the expressions and names that are asked about
  Bits,       \* bits in a word: 64
  Undecided   \* no verdict yet

(* An odd Length counts one character more than it holds whole.            *)
ASSUME NamesAssumption ==
  /\ Bits \in Nat \ {0} /\ Undecided \notin BOOLEAN
  /\ Queries \subseteq [expr : Seq(STRING), name : Seq(STRING), odd : BOOLEAN]
  /\ \A q \in Queries : q.odd => q.name # <<>>

VARIABLES
  query, verdict,   \* the arguments, and what is returned
  place,
  ep, np,             \* the next characters of the expression and of the name
  star, mark,       \* behind the last star, and where what it stands for ends
  D,                \* the positions of the name that expr[0..p) can end at
  Dwas,             \* ghost: D when its update for this character began
  w, bit, alive     \* the word to be updated, the bit that is shifted into
                    \* it, and whether any word so far is not 0

greedy  == <<star, mark>>
shift   == <<Dwas, w, bit, alive>>
nameVars == <<query, verdict, place, ep, np, greedy, D, shift>>

expr == query.expr
name == query.name
PL == Len(expr)
NL == Len(name)
Expr(k) == At(expr, k)
Name(k) == At(name, k)

NoStar == -1
LeastIn(S) == CHOOSE x \in S : \A y \in S : x <= y
MostIn(S)  == CHOOSE x \in S : \A y \in S : x >= y

NameInit ==
  /\ query \in Queries /\ verdict = Undecided /\ place = "entry"
  /\ ep = 0 /\ np = 0 /\ star = NoStar /\ mark = 0
  /\ D = {} /\ Dwas = {} /\ w = 0 /\ bit = FALSE /\ alive = FALSE

Says(b) == verdict' = b /\ place' = "done"

(* One pass over the expression: its first and its last wildcard, and the  *)
(* literal ends before and behind them.                                    *)
Wilds  == {k \in 0..(PL - 1) : Expr(k) \in Wild}
fw     == LeastIn(Wilds)
lw     == MostIn(Wilds)
HasDos == \E k \in Wilds : Expr(k) \in Dos
SL     == PL - 1 - lw
Target == NL - SL
-----------------------------------------------------------------------------
(* What the leaf dispatcher answers without a frame.                       *)
Dispatch ==
  /\ place = "entry"
  /\ IF NL = 0 THEN Says(PL = 0)
     ELSE IF PL = 0 THEN Says(FALSE)
     ELSE IF Expr(0) = Star /\ PL = 1 THEN Says(TRUE)
     ELSE IF Expr(0) \notin Wild /\ Expr(0) # Name(0) THEN Says(FALSE)
     ELSE place' = "body" /\ UNCHANGED verdict
  /\ UNCHANGED <<query, ep, np, greedy, D, shift>>

(* Mutant of Floor: the character that is cut in two counts here, too.     *)
FloorUp == NL

(* A star and a literal suffix: floor(Length / 2) characters count.        *)
Floor == IF query.odd THEN NL - 1 ELSE NL
FastSuffix ==
  /\ place = "body" /\ Wilds = {0} /\ Expr(0) = Star
  /\ Says(Floor >= PL - 1 /\ SubSeq(name, Floor - PL + 2, Floor) = Tail(expr))
  /\ UNCHANGED <<query, ep, np, greedy, D, shift>>

ExactCompare ==
  /\ place = "body" /\ Wilds = {}
  /\ Says(expr = name)
  /\ UNCHANGED <<query, ep, np, greedy, D, shift>>

(* Both literal ends fit, side by side.                                    *)
Anchored ==
  /\ NL >= fw /\ SubSeq(expr, 1, fw) = SubSeq(name, 1, fw)
  /\ NL - fw >= SL /\ SubSeq(expr, lw + 2, PL) = SubSeq(name, Target + 1, NL)

Anchor ==
  /\ place = "body" /\ Wilds # {} /\ ~(Wilds = {0} /\ Expr(0) = Star)
  /\ IF ~Anchored THEN Says(FALSE) /\ UNCHANGED <<ep, np, D, Dwas>>
     ELSE /\ ep' = fw /\ np' = fw /\ UNCHANGED verdict
          /\ place' = IF HasDos THEN "column" ELSE "greedy"
          /\ D' = {fw} /\ Dwas' = {fw}
  /\ UNCHANGED <<query, greedy, w, bit, alive>>
-----------------------------------------------------------------------------
(* Greedy: only the last star is ever given more.                          *)
pe == lw + 1

Advance ==
  /\ place = "greedy" /\ np # Target /\ ep # pe
  /\ Expr(ep) = Any \/ (Expr(ep) # Star /\ Expr(ep) = Name(np))
  /\ ep' = ep + 1 /\ np' = np + 1
  /\ UNCHANGED <<query, verdict, place, greedy, D, shift>>

(* g_after: behind a star the next literal is looked for at once.          *)
Jump(s, from) ==
  LET hits == {x \in from..(Target - 1) : Name(x) = Expr(s)}
  IN  \/ /\ Expr(s) = Any
         /\ ep' = s /\ np' = from /\ star' = s /\ mark' = from /\ UNCHANGED <<verdict, place>>
      \/ /\ Expr(s) # Any /\ hits # {}
         /\ ep' = s /\ np' = LeastIn(hits) /\ star' = s /\ mark' = LeastIn(hits)
         /\ UNCHANGED <<verdict, place>>
      \/ Expr(s) # Any /\ hits = {} /\ Says(FALSE) /\ UNCHANGED <<ep, np, greedy>>

(* A run of stars; one that ends the middle accepts on sight.              *)
StarRun ==
  LET s == LeastIn({x \in ep..pe : x = pe \/ Expr(x) # Star})
  IN  /\ place = "greedy" /\ np # Target /\ ep # pe /\ Expr(ep) = Star
      /\ IF s = pe THEN Says(TRUE) /\ UNCHANGED <<ep, np, greedy>> ELSE Jump(s, np)
      /\ UNCHANGED <<query, D, shift>>

(* Mutant of More: what the star stands for is given two more.             *)
MoreThanOne == IF mark + 2 > Target THEN Target ELSE mark + 2

More == mark + 1

(* A mismatch: what the last star stands for is given one more.            *)
Back ==
  /\ place = "greedy" /\ np # Target
  /\ ep # pe => Expr(ep) \notin {Star, Any} /\ Expr(ep) # Name(np)
  /\ IF star = NoStar THEN Says(FALSE) /\ UNCHANGED <<ep, np, greedy>> ELSE Jump(star, More)
  /\ UNCHANGED <<query, D, shift>>

(* The name is used up: only stars may be left.                            *)
GreedyTail ==
  /\ place = "greedy" /\ np = Target
  /\ Says(\A x \in ep..lw : Expr(x) = Star)
  /\ UNCHANGED <<query, ep, np, greedy, D, shift>>
-----------------------------------------------------------------------------
(* Columns: one update of D for each character of the expression.          *)

Words      == NL \div Bits + 1
lastns == MostIn({x \in 0..lw : Expr(x) # Star})
Dots   == {x \in 0..(NL - 1) : Name(x) = Dot}
L      == IF Dots = {} THEN -1 ELSE MostIn(Dots)

ColumnEnd ==
  /\ place = "column" /\ ep > lw
  /\ Says(Target \in D)
  /\ UNCHANGED <<query, ep, np, greedy, D, shift>>

(* Only stars are left: any position up to the target will do.             *)
RestStar ==
  /\ place = "column" /\ ep <= lw /\ ep > lastns
  /\ Says(D # {} /\ LeastIn(D) <= Target)
  /\ UNCHANGED <<query, ep, np, greedy, D, shift>>

(* The next column; an empty one ends the match.                           *)
Column(c) == place = "column" /\ ep <= lastns /\ Expr(ep) \in c
NextColumn(S) ==
  /\ IF D = {} THEN Says(FALSE) /\ UNCHANGED <<ep, D, Dwas>>
     ELSE D' = S /\ Dwas' = D /\ ep' = ep + 1 /\ UNCHANGED <<verdict, place>>
  /\ UNCHANGED <<query, np, greedy, w, bit, alive>>

ColumnStar ==
  /\ Column({Star})
  /\ NextColumn(D \union LeastIn(D)..NL)

(* What a DOS star reaches from the positions up to the last dot ends      *)
(* behind that dot; from those above it, with the name.                    *)
ColumnDosStar ==
  LET lo1   == LeastIn(D)
      above == {x \in D : x > L}
      lo2   == LeastIn(above)
  IN  /\ Column({DosStar})
      /\ NextColumn(IF lo1 > L THEN D \union lo1..NL
                    ELSE D \union lo1..(L + 1) \union (IF above = {} THEN {} ELSE lo2..NL))

StartShift ==
  /\ Column(STRING \ {Star, DosStar})
  /\ Dwas' = D /\ w' = 0 /\ bit' = FALSE /\ alive' = FALSE /\ place' = "shift"
  /\ UNCHANGED <<query, verdict, ep, np, greedy, D>>

WordAt(k) == (k * Bits)..(k * Bits + Bits - 1)

(* Mutant of Shifted: a question mark takes what lies behind the end.      *)
ShiftedPastEnd(c) == IF c = Any THEN 0..NL ELSE {x \in 0..(NL - 1) : Name(x) = c}

(* The positions from which the character takes one, and none.             *)
Shifted(c) ==
  CASE c = Any    -> 0..(NL - 1)
    [] c = DosAny -> (0..(NL - 1) \ Dots) \union (Dots \intersect {NL - 1})
    [] c = DosDot -> Dots
    [] OTHER      -> {x \in 0..(NL - 1) : Name(x) = c}
Kept(c) ==
  CASE c = DosAny -> Dots \union {NL}
    [] c = DosDot -> {NL}
    [] OTHER      -> {}

(* Nothing alive in the word: only the bit from below lands.               *)
EmptyWord ==
  /\ place = "shift" /\ w < Words /\ D \intersect WordAt(w) = {}
  /\ D' = IF bit THEN D \union {w * Bits} ELSE D
  /\ alive' = (alive \/ bit) /\ bit' = FALSE /\ w' = w + 1
  /\ UNCHANGED <<query, verdict, place, ep, np, greedy, Dwas>>

ShiftWord ==
  LET d     == D \intersect WordAt(w)
      moved == {x + 1 : x \in d \intersect Shifted(Expr(ep))}
      new   == (moved \intersect WordAt(w)) \union (d \intersect Kept(Expr(ep)))
               \union (IF bit THEN {w * Bits} ELSE {})
  IN  /\ place = "shift" /\ w < Words /\ d # {}
      /\ D' = (D \ d) \union new /\ alive' = (alive \/ new # {})
      /\ bit' = ((w + 1) * Bits \in moved) /\ w' = w + 1
      /\ UNCHANGED <<query, verdict, place, ep, np, greedy, Dwas>>

(* A column with nothing in it ends the match.                             *)
EndShift ==
  /\ place = "shift" /\ w = Words
  /\ IF alive THEN ep' = ep + 1 /\ place' = "column" /\ UNCHANGED verdict
     ELSE Says(FALSE) /\ UNCHANGED ep
  /\ UNCHANGED <<query, np, greedy, D, shift>>

Decided == place = "done" /\ UNCHANGED nameVars

Shapes   == Dispatch \/ FastSuffix \/ ExactCompare \/ Anchor
Greedily == Advance \/ StarRun \/ Back \/ GreedyTail
Columns  == ColumnEnd \/ RestStar \/ ColumnStar \/ ColumnDosStar
            \/ StartShift \/ EmptyWord \/ ShiftWord \/ EndShift
NameStep == Shapes \/ Greedily \/ Columns
NameNext == NameStep \/ Decided

NameSpec     == NameInit /\ [][NameNext]_nameVars
NameFairSpec == NameSpec /\ WF_nameVars(NameStep)
-----------------------------------------------------------------------------
NameTypeOK ==
  /\ query \in Queries /\ verdict \in BOOLEAN \union {Undecided}
  /\ place \in {"entry", "body", "greedy", "column", "shift", "done"}
  /\ ep \in 0..PL /\ np \in 0..NL /\ star \in 0..PL \union {NoStar} /\ mark \in 0..NL
  /\ D \subseteq 0..NL /\ Dwas \subseteq 0..NL
  /\ w \in 0..Words /\ bit \in BOOLEAN /\ alive \in BOOLEAN

(* What the name can have come to from a set of positions.                 *)
Led(S, c) == {j \in 0..NL : \E i \in S : Takes(c, name, i, j)}

ColumnExact ==
  /\ place = "column" /\ ep > fw => D = Led(Dwas, Expr(ep - 1))
  /\ place = "shift" =>
       /\ {x \in D : x >= w * Bits} = {x \in Dwas : x >= w * Bits}
       /\ {x \in D : x < w * Bits} \union (IF bit THEN {w * Bits} ELSE {})
            = Led({x \in Dwas : x < w * Bits}, Expr(ep))

GreedyKeeps ==
  place = "greedy" /\ Matches(query) =>
    \/ Cuts(expr, name, ep, pe, np, Target)
    \/ star # NoStar /\ \E m \in (mark + 1)..Target : Cuts(expr, name, star, pe, m, Target)

(* Giving up on every star but the last, and jumping to the next literal,  *)
(* lose no match: there is one from here, or with more for that star.  And *)
(* word by word a column becomes the positions that the character leads    *)
(* to, no more and no fewer, across the borders of the words too.          *)
NothingLost == GreedyKeeps /\ ColumnExact

(* Whatever shape the expression has, there is a verdict, and it is that   *)
(* of the reference: no star is ever given the same characters again.      *)
Verdicts == INSTANCE NameContract
DecidesRight == Verdicts!Spec /\ Verdicts!Decides
=============================================================================
