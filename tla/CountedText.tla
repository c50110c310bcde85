---------------------------- MODULE CountedText ----------------------------
(***************************************************************************)
(* What a client of counted strings counts on: a string is a sequence of   *)
(* characters with a capacity.  A copy keeps what fits, an append either   *)
(* adds the whole text or says so and changes nothing.                     *)
(***************************************************************************)
EXTENDS Naturals, Sequences

CONSTANTS
  Owned,      \* the strings with a buffer of their own
  Views,      \* the strings initialised from literals
  Literals,   \* the texts of the program's literals
  Cap,        \* owned string -> how many characters its buffer holds
  MaxChars    \* the longest literal that can be appended or counted

VARIABLES
  text,       \* string -> its characters
  status      \* string -> what the last call on it returned, and how
              \* many characters it was offered

vars == <<text, status>>

(* What a call returns when it is offered so many characters.              *)
Return(s, code, chars) == status' = [status EXCEPT ![s] = [code |-> code, of |-> chars]]

Take(t, k) == SubSeq(t, 1, IF Len(t) < k THEN Len(t) ELSE k)

Init ==
  /\ text = [s \in Owned \union Views |-> <<>>]
  /\ status = [s \in Owned \union Views |-> [code |-> "none", of |-> 0]]

(* A view takes the literal, cut at what a counted string can count.       *)
Set(v, lit) == Return(v, "success", Len(lit)) /\ text' = [text EXCEPT ![v] = Take(lit, MaxChars)]

(* A checked initialisation refuses what it cannot count.                  *)
SetChecked(v, lit) ==
  IF Len(lit) <= MaxChars
  THEN Set(v, lit)
  ELSE Return(v, "too long", Len(lit)) /\ text' = [text EXCEPT ![v] = <<>>]

Clear(s) == Return(s, "success", 0) /\ text' = [text EXCEPT ![s] = <<>>]

Copy(d, s) == Return(d, "success", Len(text[s])) /\ text' = [text EXCEPT ![d] = Take(text[s], Cap[d])]

Refuse(d, t) == Return(d, "too small", Len(t)) /\ UNCHANGED text

Add(d, t) ==
  IF Len(text[d]) + Len(t) <= Cap[d]
  THEN Return(d, "success", Len(t)) /\ text' = [text EXCEPT ![d] = @ \o t]
  ELSE Refuse(d, t)

AddLiteral(d, lit) == IF Len(lit) <= MaxChars THEN Add(d, lit) ELSE Refuse(d, lit)

(* An append of nothing always succeeds.                                   *)
Nothing(d) == Return(d, "success", 0) /\ UNCHANGED text

Next ==
  \/ \E v \in Views, lit \in Literals : Set(v, lit) \/ SetChecked(v, lit)
  \/ \E s \in Owned \union Views : Clear(s)
  \/ \E d \in Owned, s \in Owned \union Views : Copy(d, s) \/ Add(d, text[s])
  \/ \E d \in Owned, lit \in Literals : AddLiteral(d, lit)
  \/ \E d \in Owned : Nothing(d)

Spec == Init /\ [][Next]_vars
=============================================================================
