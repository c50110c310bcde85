--------------------------- MODULE ExpandContract ---------------------------
(***************************************************************************)
(* What a caller of ExpandEnvironmentStringsW counts on, after reference.c *)
(* of change 291: character by character, each name looked up once, in the *)
(* environment of that moment.  Characters that are no lookup are copied   *)
(* in any number at a time.                                                *)
(***************************************************************************)
EXTENDS ExpandText

CONSTANTS Pending    \* no answer yet

VARIABLES
  env,               \* the variables that are set, and their values
  subject, to,       \* the source, and what has become of the destination
  spot,              \* the next character
  refused,           \* its name has just been looked up, and is not set
  answer

vars == <<env, subject, to, spot, refused, answer>>
call == <<subject, to, spot, refused, answer>>

Init == spot = 0 /\ refused = FALSE /\ answer = 0

(* Another thread sets a variable, or removes it.                          *)
Change == env' # env /\ UNCHANGED call

Ask ==
  /\ answer # Pending /\ answer' = Pending
  /\ to' = Fresh(to'.cells, to'.free) /\ spot' = 0 /\ refused' = FALSE
  /\ UNCHANGED <<env, subject>>

(* No name begins in these characters but the one that was refused.        *)
Literal(i, k) ==
  \A x \in i..(i + k - 1) : ~IsName(subject, x) \/ (x = spot /\ refused)

Copy ==
  \E k \in 1..(Len(subject) - spot) :
    /\ answer = Pending /\ Literal(spot, k)
    /\ to' = Emitted(to, SubSeq(subject, spot + 1, spot + k))
    /\ spot' = spot + k /\ refused' = FALSE
    /\ UNCHANGED <<env, subject, answer>>

LookUp ==
  /\ answer = Pending /\ ~refused /\ IsName(subject, spot)
  /\ \/ /\ NameAt(subject, spot) \in DOMAIN env
        /\ to' = Substituted(to, env[NameAt(subject, spot)])
        /\ spot' = StopFrom(subject, spot + 1) + 1 /\ UNCHANGED refused
     \/ /\ NameAt(subject, spot) \notin DOMAIN env
        /\ refused' = TRUE /\ UNCHANGED <<to, spot>>
  /\ UNCHANGED <<env, subject, answer>>

End ==
  /\ answer = Pending /\ Literal(spot, Len(subject) - spot)
  /\ to' = Ended(Emitted(to, SubSeq(subject, spot + 1, Len(subject))))
  /\ answer' = to'.made + 1 /\ spot' = Len(subject) /\ refused' = FALSE
  /\ UNCHANGED <<env, subject>>

Spec == Init /\ [][Change \/ Ask \/ Copy \/ LookUp \/ End]_vars
=============================================================================
