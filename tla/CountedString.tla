--------------------------- MODULE CountedString ---------------------------
(***************************************************************************)
(* UNICODE_STRINGs as a client uses them, call after call: initialised     *)
(* from literals (changes 094 and 096), copied (296) and appended to (101  *)
(* and 102).  Lengths are 16-bit byte counts, buffers are bytes, and what  *)
(* one call leaves is what the next one is given.                          *)
(***************************************************************************)
EXTENDS Bytes, Sequences, FiniteSets

CONSTANTS
  Owned,      \* the strings with a buffer of their own
  Views,      \* the strings initialised from literals
  Clean,      \* the strings the client keeps in whole characters
  Literals,   \* the NUL-terminated sources; a character is <<low, high>>
  MaxOf,      \* owned string -> its MaximumLength
  Guard,      \* bytes behind a buffer, which belong to someone else
  Word,       \* 2^16
  Junk,       \* what a byte holds that nobody wrote
  MaxCalls    \* bound on the calls

Strings == Owned \union Views
MaxName == Word \div 2 - 2          \* 0x7FFE characters
Char    == UNION {{lit[k] : k \in DOMAIN lit} : lit \in Literals}
Byte    == {0, Junk} \union {c[1] : c \in Char} \union {c[2] : c \in Char}

ASSUME StringsAssumption ==
  /\ Owned \intersect Views = {} /\ Views \subseteq Clean /\ Clean \subseteq Strings
  /\ Word \in Nat /\ Word >= 4 /\ Word % 2 = 0 /\ Guard \in Nat
  /\ MaxOf \in [Owned -> 0..(Word - 1)] /\ MaxCalls \in Nat
ASSUME LiteralsAssumption ==
  /\ Literals \subseteq Seq(Char)
  /\ \A c \in Char : c = <<c[1], c[2]>>
  /\ <<0, 0>> \notin Char

VARIABLES
  len, max,   \* string -> Length and MaximumLength, in bytes
  buf,        \* string -> the bytes from its Buffer on
  status,     \* string -> what the last call on it returned, and how
              \* many bytes it was offered (ghost)
  ended,      \* ghost: has a call written the string's NUL since it mattered
  calls

vars == <<len, max, buf, status, ended, calls>>

Call == /\ calls < MaxCalls /\ calls' = calls + 1
        /\ \A s \in Strings : status[s].code # "fault"

(* The bytes of a literal and of its NUL.                                  *)
BytesOf(lit) ==
  [j \in 0..(2 * Len(lit) + 1) |->
     IF j < 2 * Len(lit) THEN lit[j \div 2 + 1][(j % 2) + 1] ELSE 0]

(* The Buffer of a string that points nowhere.                             *)
Nowhere == [j \in {} |-> 0]

WriteNul(b, at) == StoreAt(b, at, 2, [j \in 0..1 |-> 0])

Init ==
  /\ len = [s \in Strings |-> 0]
  /\ max = [s \in Strings |-> IF s \in Owned THEN MaxOf[s] ELSE 0]
  /\ buf = [s \in Strings |-> IF s \in Owned THEN [j \in 0..(MaxOf[s] + Guard - 1) |-> Junk]
                              ELSE Nowhere]
  /\ status = [s \in Strings |-> [code |-> "none", of |-> 0]] /\ calls = 0
  /\ ended = [s \in Strings |-> FALSE]

(* What a call returns, and how many bytes it was offered.                 *)
Return(s, code, bytes) == status' = [status EXCEPT ![s] = [code |-> code, of |-> bytes]]

(* Buffer, Length and MaximumLength of a string that is a literal.         *)
Describe(v, lit, bytes) ==
  /\ len' = [len EXCEPT ![v] = bytes]
  /\ max' = [max EXCEPT ![v] = (bytes + 2) % Word]
  /\ buf' = [buf EXCEPT ![v] = BytesOf(lit)]
  /\ Return(v, "success", 2 * Len(lit)) /\ UNCHANGED ended

(* Mutant of InitString: the length is clamped to the largest even word.   *)
InitStringClampsLate(v, lit) ==
  /\ Call
  /\ Describe(v, lit, IF 2 * Len(lit) >= Word - 2 THEN Word - 2 ELSE 2 * Len(lit))

(* RtlInitUnicodeString: a longer literal is cut to what can be counted.   *)
InitString(v, lit) ==
  /\ Call
  /\ Describe(v, lit, IF 2 * Len(lit) >= Word - 2 THEN Word - 4 ELSE 2 * Len(lit))

NoText(v) ==
  /\ len' = [len EXCEPT ![v] = 0] /\ max' = [max EXCEPT ![v] = 0]
  /\ UNCHANGED ended

(* RtlInitUnicodeStringEx: a longer literal is refused.                    *)
InitStringEx(v, lit) ==
  /\ Call
  /\ IF Len(lit) > MaxName
     THEN /\ NoText(v) /\ Return(v, "too long", 2 * Len(lit))
          /\ buf' = [buf EXCEPT ![v] = BytesOf(lit)]
     ELSE Describe(v, lit, 2 * Len(lit))

(* Either of them on a NULL source.                                        *)
InitNull(v) ==
  /\ Call /\ NoText(v)
  /\ buf' = [buf EXCEPT ![v] = Nowhere] /\ Return(v, "success", 0)

(* Mutant of CopyString: a NUL is written only when two bytes are to spare.*)
CopyStringNeedsMore(d, s) ==
  LET n == IF len[s] > max[d] THEN max[d] ELSE len[s]
      copied == StoreAt(buf[d], 0, n, LoadAt(buf[s], 0, n))
  IN  /\ Call
      /\ len' = [len EXCEPT ![d] = n]
      /\ buf' = [buf EXCEPT ![d] = IF max[d] - n > 2 THEN WriteNul(copied, n - (n % 2)) ELSE copied]
      /\ ended' = [ended EXCEPT ![d] = TRUE]
      /\ Return(d, "success", len[s]) /\ UNCHANGED max

(* RtlCopyUnicodeString: as many bytes as fit, odd or even.                *)
CopyString(d, s) ==
  LET n == IF len[s] > max[d] THEN max[d] ELSE len[s]
      copied == StoreAt(buf[d], 0, n, LoadAt(buf[s], 0, n))
  IN  /\ Call
      /\ len' = [len EXCEPT ![d] = n]
      /\ buf' = [buf EXCEPT ![d] = IF max[d] - n >= 2 THEN WriteNul(copied, n - (n % 2)) ELSE copied]
      /\ ended' = [ended EXCEPT ![d] = TRUE]
      /\ Return(d, "success", len[s]) /\ UNCHANGED max

(* On a NULL source only the length changes: the old text stays in the     *)
(* buffer, and no NUL is put before it.                                    *)
CopyNull(d) ==
  /\ Call
  /\ len' = [len EXCEPT ![d] = 0]
  /\ ended' = [ended EXCEPT ![d] = @ /\ len[d] = 0]
  /\ Return(d, "success", 0) /\ UNCHANGED <<max, buf>>

Refuse(d, add) == Return(d, "too small", add) /\ UNCHANGED <<len, max, buf, ended>>
NoChange(d) == Return(d, "success", 0) /\ UNCHANGED <<len, max, buf, ended>>

(* The text v, of n bytes, goes to offset at; the length becomes newlen.   *)
Put(d, newlen, at, n, v) ==
  /\ len' = [len EXCEPT ![d] = newlen]
  /\ buf' = [buf EXCEPT ![d] =
               LET copied == StoreAt(@, at, n, v)
               IN  IF max[d] - newlen >= 2 THEN WriteNul(copied, at + n) ELSE copied]
  /\ ended' = [ended EXCEPT ![d] = TRUE]
  /\ Return(d, "success", n) /\ UNCHANGED max

(* Mutant of AppendLiteral: the sum of the lengths is a 16-bit one.        *)
AppendLiteralWraps(d, lit) ==
  LET add == 2 * Len(lit)
      newlen == (len[d] + add) % Word
  IN  /\ Call
      /\ IF Len(lit) > MaxName \/ newlen > max[d]
         THEN Refuse(d, add)
         ELSE Put(d, newlen, len[d] - (len[d] % 2), add, BytesOf(lit))

(* RtlAppendUnicodeToString; an odd length appends at a whole character.   *)
AppendLiteral(d, lit) ==
  LET add == 2 * Len(lit)
      newlen == len[d] + add
  IN  /\ Call
      /\ IF Len(lit) > MaxName \/ newlen > max[d]
         THEN Refuse(d, add)
         ELSE Put(d, newlen, len[d] - (len[d] % 2), add, BytesOf(lit))

(* A NULL source appends nothing.                                          *)
AppendNull(d) == Call /\ NoChange(d)

(* The copy of change 102 counts its bytes down in twos until none is left.*)
(* From an odd count that never happens: it copies on to the end of what   *)
(* is mapped, where the process ends.                                      *)
Runaway(d, newlen) ==
  /\ len' = [len EXCEPT ![d] = newlen]
  /\ buf' = [buf EXCEPT ![d] = [j \in DOMAIN @ |-> IF j < len[d] THEN @[j] ELSE 0]]
  /\ Return(d, "fault", newlen - len[d]) /\ UNCHANGED <<max, ended>>

(* Mutant of AppendString: an exact fit is refused.                        *)
AppendStringNeedsMore(d, s) ==
  LET add == len[s]
      newlen == len[d] + add
  IN  /\ Call
      /\ CASE add = 0 -> NoChange(d)
           [] add > 0 /\ newlen >= max[d] -> Refuse(d, add)
           [] add > 0 /\ newlen < max[d] -> Put(d, newlen, len[d], add, LoadAt(buf[s], 0, add))

(* RtlAppendUnicodeStringToString.                                         *)
AppendString(d, s) ==
  LET add == len[s]
      newlen == len[d] + add
  IN  /\ Call
      /\ CASE add = 0 -> NoChange(d)
           [] add > 0 /\ newlen > max[d] -> Refuse(d, add)
           [] add > 0 /\ newlen <= max[d] /\ add % 2 = 0 ->
                Put(d, newlen, len[d], add, LoadAt(buf[s], 0, add))
           [] add > 0 /\ newlen <= max[d] /\ add % 2 = 1 -> Runaway(d, newlen)

(* The client gives whole characters to the strings it keeps clean.        *)
Next ==
  \/ \E v \in Views : InitNull(v) \/ \E lit \in Literals : InitString(v, lit) \/ InitStringEx(v, lit)
  \/ \E d \in Owned : CopyNull(d) \/ AppendNull(d) \/ \E lit \in Literals : AppendLiteral(d, lit)
  \/ \E d \in Owned, s \in Strings : (d \in Clean => s \in Clean) /\ CopyString(d, s)
  \/ \E d \in Owned, s \in Clean : AppendString(d, s)
  \/ calls = MaxCalls /\ UNCHANGED vars

Spec == Init /\ [][Next]_vars
-----------------------------------------------------------------------------
(* Lengths are 16-bit words, and no more than the buffer that they count.  *)
TypeOK ==
  /\ len \in [Strings -> 0..(Word - 1)] /\ max \in [Strings -> 0..(Word - 1)]
  /\ \A s \in Strings : len[s] <= max[s] /\ buf[s] \in [DOMAIN buf[s] -> Byte]
  /\ ended \in [Strings -> BOOLEAN] /\ calls \in 0..MaxCalls

(* Whatever was initialised, copied and appended before, no call writes    *)
(* behind MaximumLength: not with an odd length, not with a sum beyond 16  *)
(* bits, not with its NUL.                                                 *)
InBounds ==
  \A s \in Owned : \A j \in MaxOf[s]..(MaxOf[s] + Guard - 1) : buf[s][j] = Junk

(* A string that a call has ended, and that has room for a NUL, has the    *)
(* same text for RtlInitUnicodeString, which looks for the NUL, as for     *)
(* those who trust its Length, though a NULL copy and a refused append     *)
(* write none.                                                             *)
NulAt(s, k) == buf[s][2 * k] = 0 /\ buf[s][2 * k + 1] = 0
ReadsBack ==
  \A s \in Owned \intersect Clean :
    ended[s] /\ max[s] - len[s] >= 2 =>
      /\ len[s] % 2 = 0 /\ NulAt(s, len[s] \div 2)
      /\ \A k \in 0..(len[s] \div 2 - 1) : ~NulAt(s, k)

(* To a client that works in whole characters the strings are texts: a     *)
(* copy keeps what fits, an append adds all or changes nothing, and the    *)
(* status says which.                                                      *)
TextOf(s) ==
  [k \in 1..(len[s] \div 2) |-> <<buf[s][2 * k - 2], buf[s][2 * k - 1]>>]
Texts   == [s \in Clean |-> TextOf(s)]
Answers == [s \in Clean |-> [code |-> status[s].code, of |-> status[s].of \div 2]]
Text == INSTANCE CountedText WITH
  Owned <- Owned \intersect Clean,
  Cap <- [s \in Owned \intersect Clean |-> MaxOf[s] \div 2],
  MaxChars <- MaxName,
  text <- Texts,
  status <- Answers
KeepsText == Text!Spec
=============================================================================
