----------------------------- MODULE ExpandEnv -----------------------------
(***************************************************************************)
(* ExpandEnvironmentStringsW (change 291): runs of literal characters are  *)
(* found a block at a time and moved as a whole, with the mask of the last *)
(* block kept in registers, and each name is looked up in the environment  *)
(* of the process, which another thread changes meanwhile.  The caller     *)
(* expands one source again and again, into destinations of other sizes,   *)
(* as one does that measures first.                                        *)
(***************************************************************************)
EXTENDS ExpandText

CONSTANTS
  Subjects,    \* the sources
  Sizes,       \* what nSize may be
  Names,       \* the variables that another thread sets
  Values,      \* what it sets them to
  Lane,        \* characters in a vector register: 16
  Aligns,      \* where in such a block the source may begin
  Room,        \* the cells that can be told apart, those behind nSize too
  Untouched,   \* what a cell holds that nobody wrote
  Pending,     \* no answer yet
  None,        \* no block in the registers
  MaxExpands,  \* bound on the calls
  MaxChanges   \* bound on the changes of the environment

ASSUME ExpandAssumption ==
  /\ Lane \in Nat \ {0} /\ Aligns \subseteq 0..(Lane - 1) /\ Room \in Nat /\ Sizes \subseteq 0..Room
  /\ Subjects \subseteq Seq(STRING) /\ Values \subseteq Seq(STRING)
  /\ \A s \in Subjects : \A i \in 1..Len(s) : s[i] # NulChar
  /\ Pending \notin Nat /\ None \notin Nat /\ MaxExpands \in Nat /\ MaxChanges \in Nat

VARIABLES
  env,             \* the variables that are set, and their values
  subject, align,  \* the source, and its place in a block
  nsize,           \* the declared size of the destination
  phase,
  spot, stop,      \* where the code is, and the percent sign or NUL it has found
  to,              \* the destination
  whole,           \* ghost: all that the answer counts
  block, stops,    \* the registers: a block, and its percent signs and NUL
  answer,
  calm, expected,  \* ghost: no change since the call began; what the call
                   \* before this one answers for this one, if that holds
  expands, changes

source   == <<subject, align, nsize>>
cache    == <<block, stops>>
history  == <<calm, expected>>
expandVars == <<env, source, phase, spot, stop, to, whole, cache, answer, history, expands, changes>>

Clean == [x \in 0..(Room - 1) |-> Untouched]

ExpandInit ==
  /\ env \in UNION {[set -> Values] : set \in SUBSET Names}
  /\ subject \in Subjects /\ align \in Aligns /\ nsize = 0
  /\ phase = "idle" /\ spot = 0 /\ stop = 0
  /\ to = Fresh(Clean, 0) /\ whole = <<>>
  /\ block = None /\ stops = {} /\ answer = 0
  /\ calm = FALSE /\ expected = None /\ expands = 0 /\ changes = 0

(* SetEnvironmentVariable in another thread, at any time.                  *)
SetVariable ==
  /\ changes < MaxChanges /\ changes' = changes + 1
  /\ \E n \in Names :
       \/ \E v \in Values : env' = [x \in DOMAIN env \union {n} |-> IF x = n THEN v ELSE env[x]]
       \/ env' = [x \in DOMAIN env \ {n} |-> env[x]]
  /\ env' # env
  /\ calm' = FALSE /\ expected' = None
  /\ UNCHANGED <<source, phase, spot, stop, to, whole, cache, answer, expands>>

CallExpand ==
  /\ phase = "idle" /\ expands < MaxExpands /\ expands' = expands + 1
  /\ nsize' \in Sizes
  /\ calm' = TRUE /\ expected' = IF calm THEN answer ELSE None
  /\ phase' = "entry" /\ answer' = Pending /\ spot' = 0
  /\ to' = Fresh(Clean, nsize') /\ whole' = <<>>
  /\ UNCHANGED <<env, subject, align, stop, cache, changes>>

(* The subject from a position up to another one.                          *)
Chars(i, j) == SubSeq(subject, i + 1, j)

Emit(d, i, j) == Emitted(d, Chars(i, j))
Count(i, j)   == whole' = whole \o Chars(i, j)

Answers(n) == answer' = n /\ phase' = "idle"

(* A NULL source, which is as good as an empty one.                        *)
NullSubject ==
  /\ phase = "entry" /\ subject = <<>>
  /\ to' = Ended(to) /\ Answers(1)
  /\ UNCHANGED <<env, source, spot, stop, whole, cache, history, expands, changes>>

(* Nothing to expand: the string and its NUL, or as much as fits and no    *)
(* NUL.                                                                    *)
FastPath ==
  LET need == Len(subject) + 1
      n    == IF need <= nsize THEN need ELSE IF nsize = 0 THEN 0 ELSE nsize - 1
  IN  /\ phase = "entry" /\ StopFrom(subject, 0) = Len(subject)
      /\ to' = [cells |-> Written(to.cells, 0, SubSeq(subject \o <<NulChar>>, 1, n)),
                out   |-> Smaller(n, Len(subject)), free |-> nsize - Smaller(n, Len(subject)),
                made  |-> Len(subject), over |-> nsize < need]
      /\ Count(0, Len(subject)) /\ spot' = Len(subject) /\ Answers(need)
      /\ UNCHANGED <<env, source, stop, cache, history, expands, changes>>

(* The literals before a stop.                                             *)
Approach(s) ==
  /\ to' = Emit(to, spot, s) /\ Count(spot, s)
  /\ spot' = s /\ phase' = IF CharAt(subject, s) = NulChar THEN "finish" ELSE "percent"

StartGeneral ==
  /\ phase = "entry" /\ StopFrom(subject, 0) < Len(subject)
  /\ Approach(StopFrom(subject, 0)) /\ block' = None
  /\ UNCHANGED <<env, source, stop, stops, answer, history, expands, changes>>
-----------------------------------------------------------------------------
(* NEXTSTOP: in the block that the registers hold, or else in memory.      *)

BlockOf(i) == (align + i) \div Lane
Mask(b)    == {x \in 0..Len(subject) : BlockOf(x) = b /\ IsStop(subject, x)}

Search(i) ==
  LET here == {x \in (IF block = BlockOf(i) THEN stops ELSE Mask(BlockOf(i))) : x >= i}
  IN  IF here # {} THEN Nearest(here)
      ELSE Nearest({x \in i..Len(subject) : BlockOf(x) > BlockOf(i) /\ IsStop(subject, x)})

(* The block of what was found stays in the registers.                     *)
Keep(s) == block' = BlockOf(s) /\ stops' = IF block = BlockOf(s) THEN stops ELSE Mask(BlockOf(s))

LiteralRun ==
  /\ phase = "main"
  /\ Approach(Search(spot)) /\ Keep(Search(spot))
  /\ UNCHANGED <<env, source, stop, answer, history, expands, changes>>

(* All percent signs of a run but the last are literals; that one may      *)
(* begin a name.                                                           *)
PercentRun ==
  LET last == Nearest({x \in spot..Len(subject) : CharAt(subject, x + 1) # Percent})
      s    == Search(last + 1)
  IN  /\ phase = "percent"
      /\ to' = Emit(to, spot, last) /\ Count(spot, last)
      /\ spot' = last /\ stop' = s /\ Keep(s)
      /\ phase' = IF CharAt(subject, s) = Percent THEN "query" ELSE "literal"
      /\ UNCHANGED <<env, source, answer, history, expands, changes>>

(* Mutant of Told: the lookup is told of the whole destination.            *)
ToldAll == [to EXCEPT !.free = nsize]

(* The lookup is told of the free cells.                                   *)
Told == to

(* Mutant of IsSet: a value that does not fit counts as no variable.       *)
IsSetAndFits(name) == name \in DOMAIN env /\ Len(env[name]) < to.free

(* Found, or found too long.                                               *)
IsSet(name) == name \in DOMAIN env

(* Mutant of Behind: the percent sign is passed over twice.                *)
BehindTwice == stop + 2

Behind == stop + 1

(* Mutant of Forget: the registers are believed after the call.            *)
ForgetNothing == UNCHANGED block

Forget == block' = None

(* A real call, which writes into the destination itself and may leave     *)
(* anything in the registers.  The code takes every failure but "too       *)
(* small" for a name that is not set; no other failure is modelled.        *)
Lookup ==
  LET name == Chars(spot + 1, stop)
  IN  /\ phase = "query"
      /\ Forget /\ stops' \in {{Len(subject)}, 0..Len(subject)}
      /\ \/ /\ IsSet(name)
            /\ to' = Substituted(Told, env[name]) /\ whole' = whole \o env[name]
            /\ spot' = Behind /\ phase' = "main"
         \/ ~IsSet(name) /\ phase' = "literal" /\ UNCHANGED <<to, whole, spot>>
      /\ UNCHANGED <<env, source, stop, answer, history, expands, changes>>

(* No such variable, or nothing that closes the name: the percent sign and *)
(* the characters up to the next one are literals.                         *)
CopyLiteral ==
  /\ phase = "literal"
  /\ to' = Emit(Emit(to, spot, spot + 1), spot + 1, stop) /\ Count(spot, stop)
  /\ spot' = stop /\ phase' = IF CharAt(subject, spot') = NulChar THEN "finish" ELSE "percent"
  /\ UNCHANGED <<env, source, stop, cache, answer, history, expands, changes>>

Finish ==
  /\ phase = "finish" /\ to' = Ended(to) /\ Answers(to.made + 1)
  /\ UNCHANGED <<env, source, spot, stop, whole, cache, history, expands, changes>>

NoMoreCalls == phase = "idle" /\ expands = MaxExpands /\ UNCHANGED expandVars

ExpandStep == NullSubject \/ FastPath \/ StartGeneral \/ LiteralRun \/ PercentRun \/ Lookup
              \/ CopyLiteral \/ Finish
ExpandNext == ExpandStep \/ CallExpand \/ SetVariable \/ NoMoreCalls

ExpandSpec     == ExpandInit /\ [][ExpandNext]_expandVars
ExpandFairSpec == ExpandSpec /\ WF_expandVars(ExpandStep)
-----------------------------------------------------------------------------
ExpandTypeOK ==
  /\ env \in UNION {[set -> Values] : set \in SUBSET Names}
  /\ subject \in Subjects /\ align \in Aligns /\ nsize \in Sizes \union {0}
  /\ phase \in {"idle", "entry", "main", "percent", "query", "literal", "finish"}
  /\ spot \in 0..Len(subject) /\ stop \in Nat
  /\ to.made \in Nat /\ to.over \in BOOLEAN /\ DOMAIN to.cells = 0..(Room - 1)
  /\ block \in Nat \union {None} /\ stops \subseteq Nat
  /\ answer \in Nat \union {Pending} /\ expected \in Nat \union {None} /\ calm \in BOOLEAN
  /\ expands \in 0..MaxExpands /\ changes \in 0..MaxChanges

(* Neither the copies nor the lookups, which write into the destination    *)
(* themselves, touch a cell from nSize on: what a lookup is told is free   *)
(* is free.                                                                *)
InsideSize ==
  /\ to.out + to.free = nsize
  /\ \A x \in nsize..(Room - 1) : to.cells[x] = Untouched

(* What a caller's loop relies on, whatever happens to the environment: an *)
(* answer up to nSize means that the whole text is there, with its NUL;    *)
(* any other, that it did not fit.                                         *)
WholeOrTooLong ==
  phase = "idle" /\ expands > 0 =>
    /\ answer = Len(whole) + 1
    /\ answer <= nsize => \A x \in 0..(answer - 1) : to.cells[x] = (whole \o <<NulChar>>)[x + 1]

(* Measuring is worth something: while nobody changes the environment, the *)
(* answer is the same for every size of the destination.                   *)
AnswerIgnoresSize ==
  phase = "idle" /\ expected # None => answer = expected

(* Block by block, the call takes the steps of the reference: the same     *)
(* lookups in the same environments, the same cells, the same answer.  And *)
(* whatever becomes of the environment, it comes to an end.                *)
Reference == INSTANCE ExpandContract WITH
  refused <- phase = "literal" /\ CharAt(subject, stop) = Percent
ExpandImplements == Reference!Spec /\ []<>(phase = "idle")
=============================================================================
