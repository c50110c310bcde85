-------------------------- MODULE ExpandEnv_proofs --------------------------
(***************************************************************************)
(* ExpandEnvironmentStringsW stays inside nSize, and what it answers is    *)
(* worth believing, for subjects, values and destinations of any size, any *)
(* width of the registers and any changes of the environment.              *)
(***************************************************************************)
EXTENDS ExpandEnv, TLAPS, WellFoundedInduction, SequenceTheorems

Letter == STRING \union {NulChar}
Cell   == Letter \union {Untouched}
Text   == Seq(Letter)
Destination ==
  [cells : [0..(Room - 1) -> Cell], out : Nat, free : Nat, made : Nat, over : BOOLEAN]

(* The destination d, of a size, holds as much of a text as it should.     *)
Holds(d, size, text) ==
  /\ d \in Destination
  /\ d.out + d.free = size
  /\ \A x \in size..(Room - 1) : d.cells[x] = Untouched
  /\ d.made = Len(text) /\ d.out <= d.made
  /\ d.over => d.made >= size
  /\ ~d.over => d.out = d.made /\ \A x \in 0..(d.out - 1) : d.cells[x] = text[x + 1]
-----------------------------------------------------------------------------
LEMMA RoomIsNat == Room \in Nat
  BY ExpandAssumption

LEMMA NearestIs ==
  ASSUME NEW S \in SUBSET Nat, S # {}
  PROVE  Nearest(S) \in S /\ \A y \in S : Nearest(S) <= y
<1>1. \E i \in S : \A j \in S : ~ (<<j, i>> \in OpToRel(<, Nat))
  BY WFMin, NatLessThanWellFounded
<1>2. PICK i \in S : \A j \in S : ~ (<<j, i>> \in OpToRel(<, Nat))
  BY <1>1
<1>3. \A j \in S : i <= j
  <2>1. TAKE j \in S
  <2>2. <<j, i>> \in Nat \X Nat
    OBVIOUS
  <2>3. ~ (j < i)
    BY <1>2, <2>2 DEF OpToRel
  <2> QED BY <2>3
<1> QED BY <1>3 DEF Nearest

(* A copy changes the cells it is meant for, and no others.                *)
LEMMA WrittenIs ==
  ASSUME NEW cells \in [0..(Room - 1) -> Cell], NEW at \in Nat, NEW chars \in Text
  PROVE  /\ Written(cells, at, chars) \in [0..(Room - 1) -> Cell]
         /\ \A x \in 0..(Room - 1) :
              Written(cells, at, chars)[x]
                = IF x \in at..(at + Len(chars) - 1) THEN chars[x - at + 1] ELSE cells[x]
<1>1. \A x \in 0..(Room - 1) :
        x \in at..(at + Len(chars) - 1) => x - at + 1 \in 1..Len(chars)
  BY RoomIsNat
<1>2. \A i \in 1..Len(chars) : chars[i] \in Letter
  BY DEF Text
<1> QED BY <1>1, <1>2 DEF Written, Cell

LEMMA SubSeqIs ==
  ASSUME NEW s \in Text, NEW i \in Nat, NEW j \in 0..Len(s), i <= j
  PROVE  /\ SubSeq(s, i + 1, j) \in Text /\ Len(SubSeq(s, i + 1, j)) = j - i
         /\ \A x \in 1..(j - i) : SubSeq(s, i + 1, j)[x] = s[x + i]
BY DEF Text

LEMMA PrefixIs ==
  ASSUME NEW s \in Text, NEW j \in 0..Len(s)
  PROVE  /\ SubSeq(s, 1, j) \in Text /\ Len(SubSeq(s, 1, j)) = j
         /\ \A x \in 1..j : SubSeq(s, 1, j)[x] = s[x]
BY DEF Text

LEMMA JoinIs ==
  ASSUME NEW s \in Text, NEW t \in Text
  PROVE  /\ s \o t \in Text /\ Len(s \o t) = Len(s) + Len(t)
         /\ \A x \in 1..Len(s) : (s \o t)[x] = s[x]
         /\ \A x \in 1..Len(t) : (s \o t)[Len(s) + x] = t[x]
BY DEF Text

LEMMA SmallerIs ==
  ASSUME NEW a \in Nat, NEW b \in Nat
  PROVE  Smaller(a, b) \in Nat /\ Smaller(a, b) <= a /\ Smaller(a, b) <= b
         /\ (Smaller(a, b) = a \/ Smaller(a, b) = b)
BY DEF Smaller
-----------------------------------------------------------------------------
(* Literals: as many as fit are copied, all are counted.                   *)
Fits(d, k) == IF d.over \/ d.free <= 1 THEN 0 ELSE Smaller(k, d.free - 1)

LEMMA FitsIs ==
  ASSUME NEW d \in Destination, NEW k \in Nat
  PROVE  /\ Fits(d, k) \in 0..k /\ Fits(d, k) <= d.free
         /\ ~d.over /\ Fits(d, k) < k => d.free <= Fits(d, k) + 1
         /\ Fits(d, k) > 0 => ~d.over /\ Fits(d, k) + 1 <= d.free
<1>1. d.free \in Nat
  BY DEF Destination
<1>2. CASE d.over \/ d.free <= 1
  BY <1>1, <1>2 DEF Fits
<1>3. CASE ~(d.over \/ d.free <= 1)
  <2>1. d.free - 1 \in Nat /\ Fits(d, k) = Smaller(k, d.free - 1)
    BY <1>1, <1>3 DEF Fits
  <2>2. Fits(d, k) <= k /\ Fits(d, k) <= d.free - 1 /\ Fits(d, k) \in Nat /\ (Fits(d, k) = k \/ Fits(d, k) = d.free - 1)
    BY <2>1, SmallerIs
  <2> QED BY <1>1, <1>3, <2>2
<1> QED BY <1>2, <1>3

LEMMA EmittedIs ==
  ASSUME NEW d \in Destination, NEW chars \in Text
  PROVE  LET n == Fits(d, Len(chars))
             e == Emitted(d, chars)
         IN  /\ e = [cells |-> e.cells, out |-> d.out + n, free |-> d.free - n,
                     made |-> d.made + Len(chars), over |-> d.over \/ n < Len(chars)]
             /\ e \in Destination
             /\ \A x \in 0..(Room - 1) :
                  e.cells[x] = IF x \in d.out..(d.out + n - 1) THEN chars[x - d.out + 1] ELSE d.cells[x]
<1> DEFINE n == Fits(d, Len(chars))
           e == Emitted(d, chars)
           part == SubSeq(chars, 1, n)
<1>1. /\ d.out \in Nat /\ d.free \in Nat /\ d.made \in Nat /\ d.over \in BOOLEAN
      /\ d.cells \in [0..(Room - 1) -> Cell] /\ Len(chars) \in Nat
  BY DEF Destination, Text
<1>2. n \in 0..Len(chars) /\ n <= d.free
  BY <1>1, FitsIs
<1> HIDE DEF n
<1>3. part \in Text /\ Len(part) = n /\ \A x \in 1..n : part[x] = chars[x]
  BY <1>2, PrefixIs
<1>4. /\ e.cells = Written(d.cells, d.out, part)
      /\ e = [cells |-> e.cells, out |-> d.out + n, free |-> d.free - n,
              made |-> d.made + Len(chars), over |-> d.over \/ n < Len(chars)]
      /\ e.over = (d.over \/ n < Len(chars))
  BY DEF Emitted, Counted, n, Fits
<1> HIDE DEF part, e
<1>5. /\ e.cells \in [0..(Room - 1) -> Cell]
      /\ \A x \in 0..(Room - 1) :
           e.cells[x] = IF x \in d.out..(d.out + n - 1) THEN part[x - d.out + 1] ELSE d.cells[x]
  <2>1. /\ Written(d.cells, d.out, part) \in [0..(Room - 1) -> Cell]
        /\ \A x \in 0..(Room - 1) :
             Written(d.cells, d.out, part)[x]
               = IF x \in d.out..(d.out + Len(part) - 1) THEN part[x - d.out + 1] ELSE d.cells[x]
    BY <1>1, <1>3, WrittenIs
  <2> QED BY <1>3, <1>4, <2>1
<1>6. ASSUME NEW x \in 0..(Room - 1)
      PROVE  e.cells[x] = IF x \in d.out..(d.out + n - 1) THEN chars[x - d.out + 1] ELSE d.cells[x]
  <2>1. x \in d.out..(d.out + n - 1) => x - d.out + 1 \in 1..n
    BY <1>1, <1>2, RoomIsNat
  <2> QED BY <1>3, <1>5, <2>1
<1>7. e \in Destination
  <2>1. d.out + n \in Nat /\ d.free - n \in Nat /\ d.made + Len(chars) \in Nat
    BY <1>1, <1>2
  <2>2. (d.over \/ n < Len(chars)) \in BOOLEAN
    BY <1>1, Zenon
  <2>3. /\ e = [cells |-> e.cells, out |-> e.out, free |-> e.free, made |-> e.made, over |-> e.over]
        /\ e.out \in Nat /\ e.free \in Nat /\ e.made \in Nat
    BY <1>4, <2>1
  <2>4. e.over \in BOOLEAN
    BY <1>4, <2>2, Zenon
  <2> QED BY <1>5, <2>3, <2>4 DEF Destination
<1> QED BY <1>4, <1>6, <1>7 DEF e, n

LEMMA EmittedHolds ==
  ASSUME NEW d, NEW size \in 0..Room, NEW text \in Text, Holds(d, size, text),
         NEW chars \in Text
  PROVE  Holds(Emitted(d, chars), size, text \o chars)
<1> DEFINE n == Fits(d, Len(chars))
           e == Emitted(d, chars)
<1> USE RoomIsNat
<1>0. d \in Destination
  BY DEF Holds
<1>1. Len(chars) \in Nat
  BY DEF Text
<1>6. d.out \in Nat /\ d.free \in Nat /\ d.made \in Nat /\ d.over \in BOOLEAN
  BY DEF Holds, Destination
<1>2. /\ n \in 0..Len(chars) /\ n <= d.free
      /\ ~d.over /\ n < Len(chars) => d.free <= n + 1
      /\ n > 0 => ~d.over /\ n + 1 <= d.free
  BY <1>0, <1>1, FitsIs
<1>3. /\ e = [cells |-> e.cells, out |-> d.out + n, free |-> d.free - n,
              made |-> d.made + Len(chars), over |-> d.over \/ n < Len(chars)]
      /\ e \in Destination
      /\ \A x \in 0..(Room - 1) :
           e.cells[x] = IF x \in d.out..(d.out + n - 1) THEN chars[x - d.out + 1] ELSE d.cells[x]
  BY <1>0, EmittedIs
<1> HIDE DEF n, e
<1>4. /\ e.out = d.out + n /\ e.free = d.free - n
      /\ e.made = d.made + Len(chars) /\ e.over = (d.over \/ n < Len(chars))
  BY <1>3
<1>5. \A x \in 0..(Room - 1) :
        e.cells[x] = IF x \in d.out..(d.out + n - 1) THEN chars[x - d.out + 1] ELSE d.cells[x]
  BY <1>3
<1>7. e \in Destination
  BY <1>3
<1>8. e.out + e.free = size /\ e.out <= e.made
  <2>1. d.out + d.free = size /\ d.out <= d.made
    BY DEF Holds
  <2> QED BY <1>1, <1>2, <1>4, <1>6, <2>1
<1>9. \A x \in size..(Room - 1) : e.cells[x] = Untouched
  <2>1. d.out + n <= size
    BY <1>2, <1>6 DEF Holds
  <2>2. \A x \in size..(Room - 1) : x \in 0..(Room - 1) /\ x \notin d.out..(d.out + n - 1)
    BY <1>2, <1>6, <2>1
  <2> QED BY <1>5, <2>2 DEF Holds
<1>10. e.made = Len(text \o chars)
  BY <1>4, JoinIs DEF Holds
<1>11. e.over => e.made >= size
  <2>1. d.out + d.free = size /\ d.out <= d.made /\ (d.over => d.made >= size)
    BY DEF Holds
  <2> QED BY <1>1, <1>2, <1>4, <1>6, <2>1
<1>12. ASSUME ~e.over
       PROVE  e.out = e.made /\ \A x \in 0..(e.out - 1) : e.cells[x] = (text \o chars)[x + 1]
  <2>1. ~d.over /\ n = Len(chars) /\ d.out = d.made /\ d.made = Len(text)
    <3>1. ~d.over /\ ~(n < Len(chars))
      BY <1>4, <1>12, Zenon
    <3>2. n = Len(chars)
      BY <1>1, <1>2, <3>1
    <3> QED BY <3>1, <3>2 DEF Holds
  <2>2. e.out = e.made /\ e.out = d.out + n
    BY <1>4, <2>1
  <2>3. ASSUME NEW x \in 0..(e.out - 1)
        PROVE  e.cells[x] = (text \o chars)[x + 1]
    <3>1. x \in 0..(Room - 1)
      BY <1>6, <1>8, <1>2, <2>2, <2>3 DEF Holds
    <3>2. CASE x < d.out
      <4>1. e.cells[x] = d.cells[x]
        BY <1>4, <1>5, <1>6, <1>2, <3>1, <3>2
      <4>2. x \in 0..(d.out - 1) /\ x + 1 \in 1..Len(text)
        BY <1>6, <2>1, <3>2
      <4> QED BY <4>1, <4>2, <2>1, JoinIs DEF Holds
    <3>3. CASE ~(x < d.out)
      <4>1. x \in d.out..(d.out + n - 1) /\ x - d.out + 1 \in 1..Len(chars)
        BY <1>2, <1>6, <2>1, <2>2, <2>3, <3>3
      <4>2. e.cells[x] = chars[x - d.out + 1]
        BY <1>3, <1>4, <1>5, <2>1, <3>1, <4>1
      <4>3. x + 1 = Len(text) + (x - d.out + 1)
        BY <1>6, <2>1
      <4>4. (text \o chars)[Len(text) + (x - d.out + 1)] = chars[x - d.out + 1]
        BY <4>1, JoinIs
      <4> QED BY <4>2, <4>3, <4>4
    <3> QED BY <3>2, <3>3
  <2> QED BY <2>2, <2>3
<1> QED BY <1>7, <1>8, <1>9, <1>10, <1>11, <1>12 DEF Holds, e

(* A copy that ends before the declared size, cell by cell.                *)
LEMMA PutIs ==
  ASSUME NEW d \in Destination, NEW size \in 0..Room, d.out + d.free = size,
         \A x \in size..(Room - 1) : d.cells[x] = Untouched,
         NEW chars \in Text, Len(chars) <= d.free
  PROVE  LET c == Written(d.cells, d.out, chars)
         IN  /\ c \in [0..(Room - 1) -> Cell]
             /\ \A x \in size..(Room - 1) : c[x] = Untouched
             /\ \A x \in 0..(d.out - 1) : c[x] = d.cells[x]
             /\ \A x \in 1..Len(chars) : c[d.out + x - 1] = chars[x]
<1> DEFINE c == Written(d.cells, d.out, chars)
<1> USE RoomIsNat
<1>1. /\ d.cells \in [0..(Room - 1) -> Cell] /\ d.out \in Nat /\ d.free \in Nat
      /\ Len(chars) \in Nat
  BY DEF Destination, Text
<1>2. /\ c \in [0..(Room - 1) -> Cell]
      /\ \A x \in 0..(Room - 1) :
           c[x] = IF x \in d.out..(d.out + Len(chars) - 1) THEN chars[x - d.out + 1] ELSE d.cells[x]
  BY <1>1, WrittenIs
<1> HIDE DEF c
<1>3. \A x \in size..(Room - 1) : x \in 0..(Room - 1) /\ x \notin d.out..(d.out + Len(chars) - 1)
  BY <1>1
<1>4. \A x \in 0..(d.out - 1) : x \in 0..(Room - 1) /\ x \notin d.out..(d.out + Len(chars) - 1)
  BY <1>1
<1>5. ASSUME NEW x \in 1..Len(chars)
      PROVE  c[d.out + x - 1] = chars[x]
  <2>1. /\ d.out + x - 1 \in 0..(Room - 1)
        /\ d.out + x - 1 \in d.out..(d.out + Len(chars) - 1)
        /\ (d.out + x - 1) - d.out + 1 = x
    BY <1>1
  <2> QED BY <1>2, <2>1
<1>6. \A x \in size..(Room - 1) : c[x] = Untouched
  BY <1>2, <1>3
<1>7. \A x \in 0..(d.out - 1) : c[x] = d.cells[x]
  BY <1>2, <1>4
<1> QED BY <1>2, <1>5, <1>6, <1>7 DEF c

LEMMA GivenText ==
  ASSUME NEW s \in Seq(STRING)
  PROVE  s \in Text
<1>1. \A i \in 1..Len(s) : s[i] \in Letter
  BY DEF Letter
<1> QED BY <1>1 DEF Text

LEMMA NulIsText ==
  /\ <<NulChar>> \in Text /\ Len(<<NulChar>>) = 1 /\ <<NulChar>>[1] = NulChar
<1>1. NulChar \in Letter
  BY DEF Letter
<1>2. ASSUME NEW S, NEW c \in S
      PROVE  <<c>> \in Seq(S) /\ Len(<<c>>) = 1 /\ <<c>>[1] = c
  OBVIOUS
<1> QED BY <1>1, <1>2 DEF Text

(* A value: whole, with a NUL behind it, or not at all.                    *)
LEMMA SubstitutedHolds ==
  ASSUME NEW d, NEW size \in 0..Room, NEW text \in Text, Holds(d, size, text),
         NEW value \in Text
  PROVE  Holds(Substituted(d, value), size, text \o value)
<1> DEFINE e == Substituted(d, value)
<1>1. /\ d \in Destination /\ d.out + d.free = size
      /\ \A x \in size..(Room - 1) : d.cells[x] = Untouched
      /\ d.made = Len(text) /\ d.out <= d.made
      /\ d.over => d.made >= size
      /\ ~d.over => d.out = d.made /\ \A x \in 0..(d.out - 1) : d.cells[x] = text[x + 1]
  BY DEF Holds
<1>2. d.out \in Nat /\ d.free \in Nat /\ d.made \in Nat /\ d.over \in BOOLEAN /\ Len(value) \in Nat
  BY <1>1 DEF Destination, Text
<1>3. Len(text \o value) = Len(text) + Len(value)
  BY JoinIs
<1>4. CASE Len(value) < d.free
  <2> DEFINE chars == value \o <<NulChar>>
             c == Written(d.cells, d.out, chars)
  <2>1. /\ chars \in Text /\ Len(chars) = Len(value) + 1
        /\ \A x \in 1..Len(value) : chars[x] = value[x]
    BY JoinIs, NulIsText
  <2> HIDE DEF chars
  <2>2. Len(chars) <= d.free
    BY <1>2, <1>4, <2>1
  <2>3. /\ c \in [0..(Room - 1) -> Cell]
        /\ \A x \in size..(Room - 1) : c[x] = Untouched
        /\ \A x \in 0..(d.out - 1) : c[x] = d.cells[x]
        /\ \A x \in 1..Len(chars) : c[d.out + x - 1] = chars[x]
    BY <1>1, <2>1, <2>2, PutIs
  <2>4. e = [cells |-> c, out |-> d.out + Len(value), free |-> d.free - Len(value),
             made |-> d.made + Len(value), over |-> d.over]
    BY <1>1, <1>4 DEF Substituted, Destination, chars
  <2> HIDE DEF c, e
  <2>5. e \in Destination
    <3>1. d.out + Len(value) \in Nat /\ d.free - Len(value) \in Nat /\ d.made + Len(value) \in Nat
      BY <1>2, <1>4
    <3> QED BY <1>2, <2>3, <2>4, <3>1 DEF Destination
  <2>6. e.out + e.free = size /\ e.out <= e.made /\ e.made = Len(text \o value)
    BY <1>1, <1>2, <1>3, <1>4, <2>4
  <2>7. e.over => e.made >= size
    <3>1. ASSUME d.over
          PROVE  d.made + Len(value) >= size
      BY <1>1, <1>2, <3>1
    <3>2. e.over = d.over /\ e.made = d.made + Len(value)
      BY <2>4
    <3> QED BY <3>1, <3>2
  <2>8. ASSUME ~e.over
        PROVE  e.out = e.made /\ \A x \in 0..(e.out - 1) : e.cells[x] = (text \o value)[x + 1]
    <3>1. ~d.over
      BY <2>4, <2>8
    <3>2. d.out = d.made /\ \A x \in 0..(d.out - 1) : d.cells[x] = text[x + 1]
      BY <1>1, <3>1
    <3>3. e.out = d.out + Len(value) /\ e.made = d.made + Len(value) /\ e.cells = c
      BY <2>4
    <3>4. ASSUME NEW x \in 0..(d.out + Len(value) - 1)
          PROVE  c[x] = (text \o value)[x + 1]
      <4>1. CASE x < d.out
        <5>1. x \in 0..(d.out - 1) /\ x + 1 \in 1..Len(text)
          BY <1>1, <1>2, <3>2, <4>1
        <5> QED BY <2>3, <3>2, <5>1, JoinIs
      <4>2. CASE ~(x < d.out)
        <5> DEFINE y == x - d.out + 1
        <5>0. x \in Nat /\ d.out <= x /\ x < d.out + Len(value) /\ Len(text) = d.out
          BY <1>1, <1>2, <3>2, <4>2
        <5>1. /\ y \in 1..Len(value) /\ y \in 1..Len(chars) /\ d.out + y - 1 = x
              /\ Len(text) + y = x + 1
          BY <1>2, <2>1, <5>0
        <5> HIDE DEF y
        <5>2. c[d.out + y - 1] = chars[y]
          BY <2>3, <5>1
        <5>3. chars[y] = value[y]
          BY <2>1, <5>1
        <5>4. (text \o value)[Len(text) + y] = value[y]
          BY <5>1, JoinIs
        <5> QED BY <5>1, <5>2, <5>3, <5>4
      <4> QED BY <4>1, <4>2
    <3>5. e.out = e.made
      BY <3>2, <3>3
    <3>6. ASSUME NEW x \in 0..(e.out - 1)
          PROVE  e.cells[x] = (text \o value)[x + 1]
      <4>1. x \in 0..(d.out + Len(value) - 1)
        BY <1>2, <3>3, <3>6
      <4> QED BY <3>3, <3>4, <4>1
    <3> QED BY <3>5, <3>6
  <2>9. \A x \in size..(Room - 1) : e.cells[x] = Untouched
    BY <2>3, <2>4
  <2> QED BY <2>5, <2>6, <2>7, <2>8, <2>9 DEF Holds, e
<1>5. CASE ~(Len(value) < d.free)
  <2> DEFINE c == IF d.free > 0 THEN Written(d.cells, d.out, <<NulChar>>) ELSE d.cells
  <2>1. c \in [0..(Room - 1) -> Cell] /\ \A x \in size..(Room - 1) : c[x] = Untouched
    <3>1. CASE d.free > 0
      <4>1. Len(<<NulChar>>) <= d.free
        BY <1>2, <3>1, NulIsText
      <4> QED BY <1>1, <3>1, <4>1, NulIsText, PutIs
    <3>2. CASE ~(d.free > 0)
      BY <1>1, <3>2 DEF Destination
    <3> QED BY <3>1, <3>2
  <2>2. e = [cells |-> c, out |-> d.out, free |-> d.free, made |-> d.made + Len(value),
             over |-> TRUE]
    BY <1>1, <1>5 DEF Substituted, Destination
  <2> HIDE DEF c, e
  <2>3. e \in Destination
    <3>1. d.made + Len(value) \in Nat
      BY <1>2
    <3> QED BY <1>2, <2>1, <2>2, <3>1 DEF Destination
  <2>4. /\ e.out + e.free = size /\ e.out <= e.made /\ e.made = Len(text \o value)
        /\ e.made >= size
    BY <1>1, <1>2, <1>3, <1>5, <2>2
  <2> QED BY <2>1, <2>2, <2>3, <2>4 DEF Holds, e
<1> QED BY <1>4, <1>5

(* An answer within the size goes with the whole text and its NUL.         *)
Believable(d, size, text) ==
  Len(text) + 1 <= size =>
    \A x \in 0..Len(text) : d.cells[x] = (text \o <<NulChar>>)[x + 1]

(* The NUL at the end, if there is room for it.                            *)
LEMMA EndedHolds ==
  ASSUME NEW d, NEW size \in 0..Room, NEW text \in Text, Holds(d, size, text)
  PROVE  Holds(Ended(d), size, text) /\ Believable(Ended(d), size, text)
<1> DEFINE e == Ended(d)
<1>1. /\ d \in Destination /\ d.out + d.free = size
      /\ \A x \in size..(Room - 1) : d.cells[x] = Untouched
      /\ d.made = Len(text) /\ d.out <= d.made
      /\ d.over => d.made >= size
      /\ ~d.over => d.out = d.made /\ \A x \in 0..(d.out - 1) : d.cells[x] = text[x + 1]
  BY DEF Holds
<1>2. d.out \in Nat /\ d.free \in Nat /\ d.made \in Nat /\ d.over \in BOOLEAN /\ Len(text) \in Nat
  BY <1>1 DEF Destination, Text
<1>3. CASE d.over
  <2>1. e = d
    BY <1>3 DEF Ended
  <2>2. ~(Len(text) + 1 <= size)
    BY <1>1, <1>2, <1>3
  <2> QED BY <2>1, <2>2 DEF Believable
<1>4. CASE ~d.over /\ d.free = 0
  <2>1. e = [cells |-> d.cells, out |-> d.out, free |-> d.free, made |-> d.made, over |-> TRUE]
    BY <1>1, <1>4 DEF Ended, Destination
  <2>2. Len(text) >= size /\ ~(Len(text) + 1 <= size)
    BY <1>1, <1>2, <1>4
  <2> HIDE DEF e
  <2>3. e \in Destination
    BY <1>1, <1>2, <2>1 DEF Destination
  <2> QED BY <1>1, <2>1, <2>2, <2>3 DEF Holds, Believable, e
<1>5. CASE ~d.over /\ d.free # 0
  <2> DEFINE c == Written(d.cells, d.out, <<NulChar>>)
  <2>1. Len(<<NulChar>>) <= d.free /\ 1 \in 1..Len(<<NulChar>>)
    BY <1>2, <1>5, NulIsText
  <2>2. /\ c \in [0..(Room - 1) -> Cell]
        /\ \A x \in size..(Room - 1) : c[x] = Untouched
        /\ \A x \in 0..(d.out - 1) : c[x] = d.cells[x]
        /\ \A x \in 1..Len(<<NulChar>>) : c[d.out + x - 1] = <<NulChar>>[x]
    BY <1>1, <2>1, NulIsText, PutIs
  <2>3. c[d.out] = NulChar
    <3>1. c[d.out + 1 - 1] = <<NulChar>>[1]
      BY <2>1, <2>2
    <3>2. d.out + 1 - 1 = d.out
      BY <1>2
    <3> QED BY <3>1, <3>2, NulIsText
  <2>4. e = [cells |-> c, out |-> d.out, free |-> d.free, made |-> d.made, over |-> d.over]
    BY <1>1, <1>5 DEF Ended, Destination
  <2> HIDE DEF c, e
  <2>5. d.out = Len(text) /\ \A x \in 0..(d.out - 1) : c[x] = text[x + 1]
    BY <1>1, <1>5, <2>2
  <2>6. e \in Destination
    BY <1>1, <1>2, <2>2, <2>4 DEF Destination
  <2>7. Holds(e, size, text)
    <3>1. e.over => e.made >= size
      BY <1>5, <2>4
    <3>2. e.out = e.made /\ \A x \in 0..(e.out - 1) : e.cells[x] = text[x + 1]
      BY <1>1, <2>4, <2>5
    <3> QED BY <1>1, <2>2, <2>4, <2>6, <3>1, <3>2 DEF Holds
  <2>8. ASSUME NEW x \in 0..Len(text)
        PROVE  c[x] = (text \o <<NulChar>>)[x + 1]
    <3>1. CASE x < Len(text)
      <4>1. x \in 0..(d.out - 1) /\ x + 1 \in 1..Len(text)
        BY <1>2, <2>5, <3>1
      <4> QED BY <2>5, <4>1, JoinIs, NulIsText
    <3>2. CASE ~(x < Len(text))
      <4>1. x = Len(text)
        BY <1>2, <3>2
      <4>2. (text \o <<NulChar>>)[Len(text) + 1] = <<NulChar>>[1]
        BY <2>1, JoinIs, NulIsText
      <4> QED BY <2>3, <2>5, <4>1, <4>2, NulIsText
    <3> QED BY <3>1, <3>2
  <2> QED BY <2>4, <2>7, <2>8 DEF Believable, e
<1> QED BY <1>3, <1>4, <1>5

(* What FastPath makes of the destination.                                 *)
Fast(d, size, s) ==
  LET need == Len(s) + 1
      n    == IF need <= size THEN need ELSE IF size = 0 THEN 0 ELSE size - 1
  IN  [cells |-> Written(d.cells, 0, SubSeq(s \o <<NulChar>>, 1, n)),
       out   |-> Smaller(n, Len(s)), free |-> size - Smaller(n, Len(s)),
       made  |-> Len(s), over |-> size < need]

LEMMA FastHolds ==
  ASSUME NEW d \in Destination, NEW size \in 0..Room, d.out = 0, d.free = size,
         \A x \in size..(Room - 1) : d.cells[x] = Untouched,
         NEW s \in Text
  PROVE  Holds(Fast(d, size, s), size, s) /\ Believable(Fast(d, size, s), size, s)
<1> DEFINE need == Len(s) + 1
           n == IF need <= size THEN need ELSE IF size = 0 THEN 0 ELSE size - 1
           m == Smaller(n, Len(s))
           all == s \o <<NulChar>>
           part == SubSeq(all, 1, n)
           c == Written(d.cells, d.out, part)
           e == Fast(d, size, s)
<1>1. Len(s) \in Nat /\ size \in Nat
  BY RoomIsNat DEF Text
<1>2. n \in 0..need /\ n <= size
  BY <1>1
<1>3. m \in Nat /\ m <= n /\ m <= Len(s)
  <2> HIDE DEF n
  <2>1. n \in Nat
    BY <1>1, <1>2
  <2> QED BY <1>1, <2>1, SmallerIs
<1>4. need <= size => n = need /\ m = Len(s)
  <2>1. ASSUME need <= size
        PROVE  n = need /\ ~(need <= Len(s)) /\ m = Len(s)
    BY <1>1, <2>1 DEF Smaller
  <2> QED BY <2>1
<1>5. all \in Text /\ Len(all) = need /\ \A x \in 1..Len(s) : all[x] = s[x]
  BY JoinIs, NulIsText
<1>6. e = [cells |-> c, out |-> m, free |-> size - m, made |-> Len(s), over |-> size < need]
  BY DEF Fast
<1> HIDE DEF n, m, all, e
<1>7. part \in Text /\ Len(part) = n /\ \A x \in 1..n : part[x] = all[x]
  <2>1. n \in 0..Len(all)
    BY <1>2, <1>5
  <2> QED BY <1>5, <2>1, PrefixIs
<1> HIDE DEF part
<1>8. /\ c \in [0..(Room - 1) -> Cell]
      /\ \A x \in size..(Room - 1) : c[x] = Untouched
      /\ \A x \in 1..Len(part) : c[d.out + x - 1] = part[x]
  <2>1. d.out + d.free = size /\ Len(part) <= d.free
    BY <1>1, <1>2, <1>7
  <2> QED BY <1>7, <2>1, PutIs
<1> HIDE DEF c
<1>9. ASSUME need <= size, NEW x \in 0..Len(s)
      PROVE  c[x] = all[x + 1]
  <2>1. x + 1 \in 1..n /\ x + 1 \in 1..Len(part) /\ d.out + (x + 1) - 1 = x
    BY <1>1, <1>4, <1>7, <1>9
  <2> QED BY <1>7, <1>8, <2>1
<1> HIDE DEF need
<1>10. need \in Nat /\ need = Len(s) + 1
  BY <1>1 DEF need
<1>11. e \in Destination
  <2>1. size - m \in Nat
    BY <1>1, <1>2, <1>3
  <2>2. (size < need) \in BOOLEAN
    OBVIOUS
  <2> QED BY <1>1, <1>3, <1>6, <1>8, <2>1, <2>2 DEF Destination
<1>12. m + (size - m) = size
  BY <1>1, <1>3
<1>13. size < need => Len(s) >= size
  BY <1>1, <1>10
<1>14. ASSUME ~(size < need)
       PROVE  m = Len(s) /\ \A x \in 0..(m - 1) : c[x] = s[x + 1]
  <2>1. need <= size
    BY <1>1, <1>10, <1>14
  <2>2. ASSUME NEW x \in 0..(Len(s) - 1)
        PROVE  c[x] = s[x + 1]
    <3>1. x \in 0..Len(s) /\ x + 1 \in 1..Len(s)
      BY <1>1, <2>2
    <3> QED BY <1>5, <1>9, <2>1, <3>1
  <2> QED BY <1>4, <2>1, <2>2
<1>15. Holds(e, size, s)
  <2>1. /\ e.cells = c /\ e.out = m /\ e.free = size - m /\ e.made = Len(s)
        /\ e.over = (size < need)
    BY <1>6
  <2> QED BY <1>3, <1>8, <1>11, <1>12, <1>13, <1>14, <2>1 DEF Holds
<1>16. Believable(e, size, s)
  <2>1. e.cells = c
    BY <1>6
  <2> QED BY <1>9, <1>10, <2>1 DEF Believable, all
<1> QED BY <1>15, <1>16 DEF e
-----------------------------------------------------------------------------
(* Where the code finds itself in the subject.                             *)
LEMMA TheEnd ==
  ASSUME NEW s \in Text, NEW i \in Nat
  PROVE  /\ i >= Len(s) => CharAt(s, i) = NulChar /\ IsStop(s, i)
         /\ CharAt(s, i) = Percent => i < Len(s)
         /\ IsStop(s, i) <=> CharAt(s, i) = NulChar \/ CharAt(s, i) = Percent
<1>1. Len(s) \in Nat
  BY DEF Text
<1>2. NulChar # Percent
  BY DEF NulChar, Percent
<1> QED BY <1>1, <1>2 DEF CharAt, IsStop

LEMMA StopFromIs ==
  ASSUME NEW s \in Text, NEW i \in 0..Len(s)
  PROVE  StopFrom(s, i) \in i..Len(s) /\ IsStop(s, StopFrom(s, i))
<1> DEFINE S == {x \in i..Len(s) : IsStop(s, x)}
<1>1. Len(s) \in Nat /\ S \in SUBSET Nat
  BY DEF Text
<1>2. Len(s) \in S
  BY <1>1, TheEnd
<1>3. Nearest(S) \in S
  BY <1>1, <1>2, NearestIs
<1> QED BY <1>3 DEF StopFrom

(* The blocks follow one another.                                          *)
LEMMA QuotientIs ==
  ASSUME NEW a \in Nat, NEW b \in Nat, a <= b, NEW w \in Nat \ {0}
  PROVE  a \div w \in Nat /\ b \div w \in Nat /\ a \div w <= b \div w
OBVIOUS

LEMMA BlockOfIs ==
  ASSUME align \in Aligns, NEW i \in Nat, NEW j \in Nat, i <= j
  PROVE  BlockOf(i) \in Nat /\ BlockOf(j) \in Nat /\ BlockOf(i) <= BlockOf(j)
<1>1. align \in Nat /\ Lane \in Nat \ {0}
  BY ExpandAssumption
<1>2. align + i \in Nat /\ align + j \in Nat /\ align + i <= align + j
  BY <1>1
<1> QED BY <1>1, <1>2, QuotientIs DEF BlockOf

(* The mask kept in the registers is that of the block they hold.          *)
Kept == block \in Nat => stops = Mask(block)

LEMMA SearchIs ==
  ASSUME subject \in Text, align \in Aligns, Kept, NEW i \in 0..Len(subject)
  PROVE  Search(i) \in i..Len(subject) /\ IsStop(subject, Search(i))
<1> DEFINE end == Len(subject)
           b == BlockOf(i)
           m == IF block = b THEN stops ELSE Mask(b)
           here == {x \in m : x >= i}
           there == {x \in i..end : BlockOf(x) > b /\ IsStop(subject, x)}
<1>1. end \in Nat /\ i \in Nat
  BY DEF Text
<1>2. b \in Nat /\ BlockOf(end) \in Nat /\ b <= BlockOf(end)
  BY <1>1, BlockOfIs
<1>3. m = Mask(b)
  BY <1>2 DEF Kept
<1>4. Search(i) = IF here # {} THEN Nearest(here) ELSE Nearest(there)
  BY DEF Search
<1> HIDE DEF m, b
<1>5. here \in SUBSET Nat /\ \A x \in here : x \in i..end /\ IsStop(subject, x)
  BY <1>1, <1>3 DEF Mask
<1>6. CASE here # {}
  <2>1. Nearest(here) \in here
    BY <1>5, <1>6, NearestIs
  <2> QED BY <1>4, <1>5, <1>6, <2>1
<1>7. CASE here = {}
  <2>1. IsStop(subject, end)
    BY <1>1, TheEnd
  <2>2. BlockOf(end) # b
    <3>1. ASSUME BlockOf(end) = b
          PROVE  end \in here
      BY <1>1, <1>3, <2>1, <3>1 DEF Mask
    <3> QED BY <1>7, <3>1
  <2>3. end \in there
    BY <1>1, <1>2, <2>1, <2>2
  <2>4. there \in SUBSET Nat
    BY <1>1
  <2>5. Nearest(there) \in there
    BY <2>3, <2>4, NearestIs
  <2> QED BY <1>4, <1>7, <2>5
<1> QED BY <1>6, <1>7

(* The last percent sign of a run.                                         *)
LastOf(i) == Nearest({x \in i..Len(subject) : CharAt(subject, x + 1) # Percent})

LEMMA LastIs ==
  ASSUME subject \in Text, NEW i \in 0..Len(subject), CharAt(subject, i) = Percent
  PROVE  LastOf(i) \in i..(Len(subject) - 1)
<1> DEFINE S == {x \in i..Len(subject) : CharAt(subject, x + 1) # Percent}
           end == Len(subject)
<1>1. end \in Nat /\ i \in Nat /\ i < end
  <2>1. end \in Nat /\ i \in Nat
    BY DEF Text
  <2> QED BY <2>1, TheEnd
<1>2. end - 1 \in i..end /\ end - 1 + 1 = end /\ end - 1 \in Nat
  BY <1>1
<1>3. CharAt(subject, end) # Percent
  BY <1>1, TheEnd
<1>4. end - 1 \in S
  BY <1>2, <1>3
<1>5. S \in SUBSET Nat
  BY <1>1
<1>6. Nearest(S) \in S /\ Nearest(S) <= end - 1
  BY <1>4, <1>5, NearestIs
<1> QED BY <1>1, <1>6 DEF LastOf

(* Copied in one piece or in two, a part of the subject is the same.       *)
LEMMA TwoPieces ==
  ASSUME subject \in Text, NEW t \in Text, NEW i \in Nat, NEW j \in Nat,
         NEW k \in 0..Len(subject), i <= j, j <= k
  PROVE  (t \o Chars(i, j)) \o Chars(j, k) = t \o Chars(i, k)
<1>1. /\ Len(subject) \in Nat /\ i + 1 \in 1..(Len(subject) + 1) /\ j \in i..Len(subject)
      /\ i + 1 - 1 = i
  BY DEF Text
<1>2. Chars(i, j) \in Text /\ Chars(j, k) \in Text
  BY <1>1, SubSeqIs DEF Chars
<1>3. Chars(i, j) \o Chars(j, k) = Chars(i, k)
  BY <1>1, ConcatAdjacentSubSeq DEF Chars, Text
<1>4. ASSUME NEW a \in Text, NEW b \in Text
      PROVE  (t \o a) \o b = t \o (a \o b)
  BY ConcatAssociative DEF Text
<1>5. (t \o Chars(i, j)) \o Chars(j, k) = t \o (Chars(i, j) \o Chars(j, k))
  BY <1>2, <1>4
<1> QED BY <1>3, <1>5
-----------------------------------------------------------------------------
(* What no step of a call changes, and what it moves.                      *)
Given ==
  /\ env \in UNION {[set -> Values] : set \in SUBSET Names}
  /\ subject \in Subjects /\ align \in Aligns /\ nsize \in Sizes \union {0}
  /\ expected \in Nat \union {None} /\ calm \in BOOLEAN
  /\ expands \in 0..MaxExpands /\ changes \in 0..MaxChanges

Moving ==
  /\ phase \in {"idle", "entry", "main", "percent", "query", "literal", "finish"}
  /\ spot \in 0..Len(subject) /\ stop \in Nat
  /\ block \in Nat \union {None} /\ stops \subseteq Nat
  /\ answer \in Nat \union {Pending}

(* In front of a percent sign, a name or a literal there is one.           *)
Placed ==
  /\ phase = "entry" => to = Fresh(Clean, nsize) /\ whole = <<>> /\ spot = 0
  /\ phase = "percent" => CharAt(subject, spot) = Percent
  /\ phase \in {"query", "literal"} =>
       stop \in (spot + 1)..Len(subject) /\ IsStop(subject, stop)
  /\ phase = "query" => CharAt(subject, stop) = Percent

(* Between two calls the last one's answer stands.                         *)
Answered ==
  phase = "idle" =>
    /\ answer \in Nat
    /\ expands > 0 => answer = Len(whole) + 1 /\ Believable(to, nsize, whole)

Filled == whole \in Text /\ Holds(to, nsize, whole)

IInv == Given /\ Moving /\ Filled /\ Placed /\ Kept /\ Answered

LEMMA GivenIs ==
  ASSUME Given
  PROVE  subject \in Text /\ nsize \in 0..Room /\ Len(subject) \in Nat
<1>1. subject \in Text
  BY ExpandAssumption, GivenText DEF Given
<1>2. nsize \in 0..Room
  BY ExpandAssumption DEF Given
<1> QED BY <1>1, <1>2 DEF Text

LEMMA GivenStays ==
  ASSUME Given, UNCHANGED <<env, source, history, expands, changes>>
  PROVE  Given'
BY DEF Given, source, history

LEMMA KeepIs ==
  ASSUME Given, Kept, NEW s \in Nat, Keep(s), UNCHANGED source
  PROVE  Kept' /\ block' \in Nat /\ stops' \subseteq Nat
<1>1. BlockOf(s) \in Nat
  <2>1. align \in Aligns /\ s <= s
    BY DEF Given
  <2> QED BY <2>1, BlockOfIs
<1>2. block' = BlockOf(s) /\ stops' = Mask(BlockOf(s))
  BY <1>1 DEF Keep, Kept
<1>3. \A b : Mask(b)' = Mask(b)
  BY DEF Mask, BlockOf, source
<1>4. \A b : Mask(b) \subseteq Nat
  BY GivenIs DEF Mask
<1> QED BY <1>1, <1>2, <1>3, <1>4 DEF Kept

LEMMA KeptStays ==
  ASSUME Kept, UNCHANGED <<source, cache>>
  PROVE  Kept'
<1>1. \A b : Mask(b)' = Mask(b)
  BY DEF Mask, BlockOf, source
<1> QED BY <1>1 DEF Kept, cache

(* The literals up to a stop.                                              *)
LEMMA EmitIs ==
  ASSUME Given, Filled, NEW i \in Nat, NEW j \in 0..Len(subject), i <= j
  PROVE  /\ Chars(i, j) \in Text /\ whole \o Chars(i, j) \in Text
         /\ Holds(Emit(to, i, j), nsize, whole \o Chars(i, j))
<1>1. Chars(i, j) \in Text
  BY GivenIs, SubSeqIs DEF Chars
<1>2. whole \o Chars(i, j) \in Text
  BY <1>1, JoinIs DEF Filled
<1> QED BY <1>1, <1>2, GivenIs, EmittedHolds DEF Filled, Emit

LEMMA ApproachIs ==
  ASSUME Given, Moving, Filled, NEW s \in spot..Len(subject), IsStop(subject, s),
         Approach(s), UNCHANGED source
  PROVE  /\ Filled' /\ spot' \in 0..Len(subject') /\ phase' \in {"percent", "finish"}
         /\ phase' = "percent" => CharAt(subject', spot') = Percent
<1>1. spot \in Nat /\ s \in 0..Len(subject) /\ spot <= s /\ s \in Nat
  BY GivenIs DEF Moving
<1>2. Filled'
  <2>1. to' = Emit(to, spot, s) /\ whole' = whole \o Chars(spot, s) /\ nsize' = nsize
    BY DEF Approach, Count, source
  <2>2. whole \o Chars(spot, s) \in Text /\ Holds(Emit(to, spot, s), nsize, whole \o Chars(spot, s))
    BY <1>1, EmitIs
  <2> QED BY <2>1, <2>2 DEF Filled, Holds
<1>3. CharAt(subject, s) = NulChar \/ CharAt(subject, s) = Percent
  BY <1>1, GivenIs, TheEnd
<1> QED BY <1>1, <1>2, <1>3 DEF Approach, source

LEMMA FreshHolds ==
  ASSUME NEW size \in 0..Room
  PROVE  Holds(Fresh(Clean, size), size, <<>>) /\ <<>> \in Text
<1> USE RoomIsNat
<1> DEFINE e == Fresh(Clean, size)
<1>1. Clean \in [0..(Room - 1) -> Cell] /\ \A x \in 0..(Room - 1) : Clean[x] = Untouched
  BY DEF Clean, Cell
<1>2. e = [cells |-> Clean, out |-> 0, free |-> size, made |-> 0, over |-> FALSE]
  BY DEF Fresh
<1> HIDE DEF e
<1>3. e \in Destination
  BY <1>1, <1>2 DEF Destination
<1>4. \A x \in size..(Room - 1) : e.cells[x] = Untouched
  BY <1>1, <1>2
<1>5. e.out + e.free = size /\ \A x \in 0..(e.out - 1) : FALSE
  BY <1>2
<1>6. <<>> \in Text /\ Len(<<>>) = 0
  BY DEF Text
<1> QED BY <1>2, <1>3, <1>4, <1>5, <1>6 DEF Holds, e

LEMMA InvInit ==
  ExpandInit => IInv
<1> SUFFICES ASSUME ExpandInit
             PROVE  IInv
  OBVIOUS
<1>1. Given
  <2>1. 0 \in 0..MaxExpands /\ 0 \in 0..MaxChanges /\ FALSE \in BOOLEAN
    BY ExpandAssumption
  <2>2. /\ env \in UNION {[set -> Values] : set \in SUBSET Names}
        /\ subject \in Subjects /\ align \in Aligns /\ nsize = 0
        /\ calm = FALSE /\ expected = None /\ expands = 0 /\ changes = 0
    BY DEF ExpandInit
  <2> QED BY <2>1, <2>2 DEF Given
<1>2. Moving
  BY <1>1, GivenIs DEF ExpandInit, Moving
<1>3. Filled
  <2>1. 0 \in 0..Room
    BY RoomIsNat
  <2> QED BY <2>1, FreshHolds DEF ExpandInit, Filled
<1>4. Kept
  BY ExpandAssumption DEF ExpandInit, Kept
<1>5. Placed /\ Answered
  BY ExpandAssumption DEF ExpandInit, Placed, Answered
<1> QED BY <1>1, <1>2, <1>3, <1>4, <1>5 DEF IInv

(* Another thread changes the environment.                                 *)
LEMMA InvSetVariable ==
  IInv /\ SetVariable => IInv'
<1> SUFFICES ASSUME IInv, SetVariable
             PROVE  IInv'
  OBVIOUS
<1> USE DEF IInv
<1>1. /\ UNCHANGED <<subject, align, nsize, phase, spot, stop, to, whole, block, stops, answer, expands>>
      /\ calm' = FALSE /\ expected' = None
      /\ changes < MaxChanges /\ changes' = changes + 1
  BY DEF SetVariable, source, cache
<1>2. env' \in UNION {[set -> Values] : set \in SUBSET Names}
  <2>1. PICK set \in SUBSET Names : env \in [set -> Values]
    BY DEF Given
  <2>2. PICK n \in Names :
          \/ \E v \in Values : env' = [x \in DOMAIN env \union {n} |-> IF x = n THEN v ELSE env[x]]
          \/ env' = [x \in DOMAIN env \ {n} |-> env[x]]
    BY DEF SetVariable
  <2>3. CASE \E v \in Values : env' = [x \in DOMAIN env \union {n} |-> IF x = n THEN v ELSE env[x]]
    <3>1. env' \in [set \union {n} -> Values] /\ set \union {n} \in SUBSET Names
      BY <2>1, <2>2, <2>3
    <3> QED BY <3>1
  <2>4. CASE env' = [x \in DOMAIN env \ {n} |-> env[x]]
    <3>1. env' \in [set \ {n} -> Values] /\ set \ {n} \in SUBSET Names
      BY <2>1, <2>2, <2>4
    <3> QED BY <3>1
  <2> QED BY <2>2, <2>3, <2>4
<1>3. Given'
  <2>1. changes' \in 0..MaxChanges
    BY <1>1, ExpandAssumption DEF Given
  <2> QED BY <1>1, <1>2, <2>1 DEF Given
<1>4. Moving' /\ Filled' /\ Placed' /\ Answered'
  BY <1>1 DEF Moving, Filled, Holds, Placed, Answered, Believable
<1>5. Kept'
  BY <1>1, KeptStays DEF source, cache
<1> QED BY <1>3, <1>4, <1>5

LEMMA InvCallExpand ==
  IInv /\ CallExpand => IInv'
<1> SUFFICES ASSUME IInv, CallExpand
             PROVE  IInv'
  OBVIOUS
<1> USE DEF IInv
<1>1. /\ UNCHANGED <<env, subject, align, stop, block, stops, changes>>
      /\ phase = "idle" /\ phase' = "entry" /\ nsize' \in Sizes
      /\ calm' = TRUE /\ expected' = IF calm THEN answer ELSE None
      /\ answer' = Pending /\ spot' = 0 /\ to' = Fresh(Clean, nsize') /\ whole' = <<>>
      /\ expands < MaxExpands /\ expands' = expands + 1
  BY DEF CallExpand, cache
<1>2. Given'
  <2>1. expands' \in 0..MaxExpands
    BY <1>1, ExpandAssumption DEF Given
  <2>2. expected' \in Nat \union {None}
    BY <1>1 DEF Answered
  <2> QED BY <1>1, <2>1, <2>2 DEF Given
<1>3. Moving'
  BY <1>1, GivenIs DEF Moving
<1>4. Filled'
  <2>1. nsize' \in 0..Room
    BY <1>1, ExpandAssumption
  <2> QED BY <1>1, <2>1, FreshHolds DEF Filled
<1>5. Placed' /\ Answered'
  BY <1>1 DEF Placed, Answered
<1>6. Kept'
  <2>1. \A b : Mask(b)' = Mask(b)
    BY <1>1 DEF Mask, BlockOf
  <2> QED BY <1>1, <2>1 DEF Kept
<1> QED BY <1>2, <1>3, <1>4, <1>5, <1>6

(* The two short ways out, and the long one.                               *)
LEMMA InvNullSubject ==
  IInv /\ NullSubject => IInv'
<1> SUFFICES ASSUME IInv, NullSubject
             PROVE  IInv'
  OBVIOUS
<1> USE DEF IInv
<1>1. /\ UNCHANGED <<env, subject, align, nsize, spot, stop, whole, block, stops>>
      /\ UNCHANGED <<calm, expected, expands, changes>>
      /\ phase = "entry" /\ phase' = "idle" /\ to' = Ended(to) /\ answer' = 1
  BY DEF NullSubject, Answers, source, cache, history
<1>2. whole = <<>> /\ Len(whole) = 0
  BY <1>1 DEF Placed
<1>3. Holds(Ended(to), nsize, whole) /\ Believable(Ended(to), nsize, whole)
  BY GivenIs, EndedHolds DEF Filled
<1>4. Given'
  BY <1>1, GivenStays DEF history, source
<1>5. Moving' /\ Placed'
  BY <1>1 DEF Moving, Placed
<1>6. Filled'
  BY <1>1, <1>3 DEF Filled
<1>7. Answered'
  BY <1>1, <1>2, <1>3 DEF Answered
<1>8. Kept'
  BY <1>1, KeptStays DEF source, cache
<1> QED BY <1>4, <1>5, <1>6, <1>7, <1>8

LEMMA InvFastPath ==
  IInv /\ FastPath => IInv'
<1> SUFFICES ASSUME IInv, FastPath
             PROVE  IInv'
  OBVIOUS
<1> USE DEF IInv
<1>1. /\ UNCHANGED <<env, subject, align, nsize, stop, block, stops>>
      /\ UNCHANGED <<calm, expected, expands, changes>>
      /\ phase = "entry" /\ phase' = "idle" /\ to' = Fast(to, nsize, subject)
      /\ whole' = whole \o Chars(0, Len(subject)) /\ spot' = Len(subject)
      /\ answer' = Len(subject) + 1
  BY DEF FastPath, Fast, Count, Answers, source, cache, history
<1>2. to = Fresh(Clean, nsize) /\ whole = <<>>
  BY <1>1 DEF Placed
<1>3. whole' = subject
  <2>1. subject \in Seq(Letter) /\ SubSeq(subject, 0 + 1, Len(subject)) = subject
    BY GivenIs DEF Text
  <2> QED BY <1>1, <1>2, <2>1, ConcatEmptySeq DEF Chars
<1>4. /\ to \in Destination /\ to.out = 0 /\ to.free = nsize
      /\ \A x \in nsize..(Room - 1) : to.cells[x] = Untouched
  BY <1>2 DEF Filled, Holds, Fresh
<1>5. /\ Holds(Fast(to, nsize, subject), nsize, subject)
      /\ Believable(Fast(to, nsize, subject), nsize, subject)
  BY <1>4, GivenIs, FastHolds
<1>6. Given'
  BY <1>1, GivenStays DEF history, source
<1>7. Moving' /\ Placed'
  BY <1>1, GivenIs DEF Moving, Placed
<1>8. Filled'
  BY <1>1, <1>3, <1>5, GivenIs DEF Filled
<1>9. Answered'
  <2>1. answer' \in Nat /\ answer' = Len(whole') + 1
    BY <1>1, <1>3, GivenIs
  <2>2. Believable(to', nsize', whole')
    BY <1>1, <1>3, <1>5
  <2> QED BY <2>1, <2>2 DEF Answered, Believable
<1>10. Kept'
  BY <1>1, KeptStays DEF source, cache
<1> QED BY <1>6, <1>7, <1>8, <1>9, <1>10

LEMMA InvStartGeneral ==
  IInv /\ StartGeneral => IInv'
<1> SUFFICES ASSUME IInv, StartGeneral
             PROVE  IInv'
  OBVIOUS
<1> USE DEF IInv
<1> DEFINE s == StopFrom(subject, 0)
<1>1. /\ UNCHANGED <<env, source, stop, stops, answer, history, expands, changes>>
      /\ phase = "entry" /\ Approach(s) /\ block' = None
  BY DEF StartGeneral
<1>2. s \in spot..Len(subject) /\ IsStop(subject, s)
  <2>1. spot = 0 /\ 0 \in 0..Len(subject)
    BY <1>1, GivenIs DEF Placed
  <2> QED BY <2>1, GivenIs, StopFromIs
<1> HIDE DEF s
<1>3. /\ Filled' /\ spot' \in 0..Len(subject') /\ phase' \in {"percent", "finish"}
      /\ phase' = "percent" => CharAt(subject', spot') = Percent
  BY <1>1, <1>2, ApproachIs
<1>4. Given'
  BY <1>1, GivenStays
<1>5. Moving' /\ Placed' /\ Answered'
  BY <1>1, <1>3 DEF Moving, Placed, Answered
<1>6. Kept'
  BY <1>1, ExpandAssumption DEF Kept
<1> QED BY <1>3, <1>4, <1>5, <1>6

LEMMA InvLiteralRun ==
  IInv /\ LiteralRun => IInv'
<1> SUFFICES ASSUME IInv, LiteralRun
             PROVE  IInv'
  OBVIOUS
<1> USE DEF IInv
<1> DEFINE s == Search(spot)
<1>1. /\ UNCHANGED <<env, source, stop, answer, history, expands, changes>>
      /\ phase = "main" /\ Approach(s) /\ Keep(s)
  BY DEF LiteralRun
<1>2. s \in spot..Len(subject) /\ IsStop(subject, s)
  <2>1. align \in Aligns /\ spot \in 0..Len(subject)
    BY DEF Given, Moving
  <2> QED BY <2>1, GivenIs, SearchIs
<1> HIDE DEF s
<1>3. /\ Filled' /\ spot' \in 0..Len(subject') /\ phase' \in {"percent", "finish"}
      /\ phase' = "percent" => CharAt(subject', spot') = Percent
  BY <1>1, <1>2, ApproachIs
<1>4. Given'
  BY <1>1, GivenStays
<1>5. Kept' /\ block' \in Nat /\ stops' \subseteq Nat
  <2>1. s \in Nat
    BY <1>2, GivenIs DEF Moving
  <2> QED BY <1>1, <2>1, KeepIs
<1>6. Moving' /\ Placed' /\ Answered'
  BY <1>1, <1>3, <1>5 DEF Moving, Placed, Answered
<1> QED BY <1>3, <1>4, <1>5, <1>6

LEMMA InvPercentRun ==
  IInv /\ PercentRun => IInv'
<1> SUFFICES ASSUME IInv, PercentRun
             PROVE  IInv'
  OBVIOUS
<1> USE DEF IInv
<1> DEFINE last == LastOf(spot)
           s == Search(last + 1)
<1>1. /\ UNCHANGED <<env, source, answer, history, expands, changes>>
      /\ phase = "percent" /\ to' = Emit(to, spot, last) /\ whole' = whole \o Chars(spot, last)
      /\ spot' = last /\ stop' = s /\ Keep(s)
      /\ phase' = IF CharAt(subject, s) = Percent THEN "query" ELSE "literal"
  BY DEF PercentRun, LastOf, Count
<1>2. last \in spot..(Len(subject) - 1) /\ spot \in Nat
  <2>1. spot \in 0..Len(subject) /\ CharAt(subject, spot) = Percent
    BY <1>1 DEF Moving, Placed
  <2> QED BY <2>1, GivenIs, LastIs
<1> HIDE DEF last
<1>3. last + 1 \in 0..Len(subject) /\ last \in 0..Len(subject) /\ last \in Nat /\ spot <= last
  BY <1>2, GivenIs
<1>4. s \in (last + 1)..Len(subject) /\ IsStop(subject, s)
  <2>1. align \in Aligns
    BY DEF Given
  <2> QED BY <1>3, <2>1, GivenIs, SearchIs
<1> HIDE DEF s
<1>5. s \in Nat
  BY <1>3, <1>4, GivenIs
<1>6. Given'
  BY <1>1, GivenStays
<1>7. Filled'
  <2>1. /\ whole \o Chars(spot, last) \in Text
        /\ Holds(Emit(to, spot, last), nsize, whole \o Chars(spot, last))
    BY <1>2, <1>3, EmitIs
  <2> QED BY <1>1, <2>1 DEF Filled, source
<1>8. Kept' /\ block' \in Nat /\ stops' \subseteq Nat
  BY <1>1, <1>5, KeepIs
<1>9. Moving' /\ Placed' /\ Answered'
  BY <1>1, <1>3, <1>4, <1>5, <1>8 DEF Moving, Placed, Answered, source
<1> QED BY <1>6, <1>7, <1>8, <1>9

LEMMA InvLookup ==
  IInv /\ Lookup => IInv'
<1> SUFFICES ASSUME IInv, Lookup
             PROVE  IInv'
  OBVIOUS
<1> USE DEF IInv
<1> DEFINE name == Chars(spot + 1, stop)
<1>1. /\ UNCHANGED <<env, source, stop, answer, history, expands, changes>>
      /\ phase = "query" /\ block' = None /\ stops' \in {{Len(subject)}, 0..Len(subject)}
      /\ \/ /\ name \in DOMAIN env
            /\ to' = Substituted(to, env[name]) /\ whole' = whole \o env[name]
            /\ spot' = stop + 1 /\ phase' = "main"
         \/ phase' = "literal" /\ UNCHANGED <<to, whole, spot>>
  BY DEF Lookup, Forget, IsSet, Told, Behind
<1> HIDE DEF name
<1>2. Given'
  BY <1>1, GivenStays
<1>3. Kept' /\ stops' \subseteq Nat /\ block' = None
  BY <1>1, GivenIs, ExpandAssumption DEF Kept
<1>4. /\ stop \in (spot + 1)..Len(subject) /\ IsStop(subject, stop)
      /\ CharAt(subject, stop) = Percent /\ stop \in Nat
  BY <1>1 DEF Placed, Moving
<1>5. CASE /\ name \in DOMAIN env
           /\ to' = Substituted(to, env[name]) /\ whole' = whole \o env[name]
           /\ spot' = stop + 1 /\ phase' = "main"
  <2>1. env[name] \in Text
    <3>1. PICK set \in SUBSET Names : env \in [set -> Values]
      BY DEF Given
    <3>2. env[name] \in Seq(STRING)
      BY <1>5, <3>1, ExpandAssumption
    <3> QED BY <3>2, GivenText
  <2>2. /\ whole \o env[name] \in Text
        /\ Holds(Substituted(to, env[name]), nsize, whole \o env[name])
    BY <2>1, GivenIs, JoinIs, SubstitutedHolds DEF Filled
  <2>3. Filled'
    BY <1>1, <1>5, <2>2 DEF Filled, source
  <2>4. stop < Len(subject) /\ stop + 1 \in 0..Len(subject)
    BY <1>4, GivenIs, TheEnd
  <2>5. Moving' /\ Placed' /\ Answered'
    BY <1>1, <1>3, <1>5, <2>4 DEF Moving, Placed, Answered, source
  <2> QED BY <1>2, <1>3, <2>3, <2>5
<1>6. CASE phase' = "literal" /\ UNCHANGED <<to, whole, spot>>
  <2>1. Filled'
    BY <1>1, <1>6 DEF Filled, Holds, source
  <2>2. Moving' /\ Answered'
    BY <1>1, <1>3, <1>6 DEF Moving, Answered, source
  <2>3. Placed'
    BY <1>1, <1>4, <1>6 DEF Placed, source
  <2> QED BY <1>2, <1>3, <2>1, <2>2, <2>3
<1> QED BY <1>1, <1>5, <1>6

LEMMA InvCopyLiteral ==
  IInv /\ CopyLiteral => IInv'
<1> SUFFICES ASSUME IInv, CopyLiteral
             PROVE  IInv'
  OBVIOUS
<1> USE DEF IInv
<1>1. /\ UNCHANGED <<env, source, stop, cache, answer, history, expands, changes>>
      /\ phase = "literal"
      /\ to' = Emit(Emit(to, spot, spot + 1), spot + 1, stop)
      /\ whole' = whole \o Chars(spot, stop) /\ spot' = stop
      /\ phase' = IF CharAt(subject, spot') = NulChar THEN "finish" ELSE "percent"
  BY DEF CopyLiteral, Count
<1>2. stop \in (spot + 1)..Len(subject) /\ IsStop(subject, stop) /\ spot \in Nat /\ stop \in Nat
  BY <1>1, GivenIs DEF Placed, Moving
<1>3. /\ stop \in 0..Len(subject) /\ spot + 1 \in 0..Len(subject) /\ spot + 1 \in Nat
      /\ spot <= spot + 1 /\ spot + 1 <= stop
  BY <1>2, GivenIs
<1> DEFINE d == Emit(to, spot, spot + 1)
           t == whole \o Chars(spot, spot + 1)
<1>4. t \in Text /\ Holds(d, nsize, t)
  BY <1>2, <1>3, EmitIs
<1>5. Chars(spot + 1, stop) \in Text
  BY <1>3, EmitIs
<1>6. t \o Chars(spot + 1, stop) = whole \o Chars(spot, stop)
  BY <1>2, <1>3, GivenIs, TwoPieces DEF Filled
<1> HIDE DEF d, t
<1>7. t \o Chars(spot + 1, stop) \in Text /\ Holds(Emit(d, spot + 1, stop), nsize, t \o Chars(spot + 1, stop))
  BY <1>4, <1>5, GivenIs, JoinIs, EmittedHolds DEF Emit
<1>8. Filled'
  BY <1>1, <1>6, <1>7 DEF Filled, source, d
<1>9. CharAt(subject, stop) = NulChar \/ CharAt(subject, stop) = Percent
  BY <1>2, GivenIs, TheEnd
<1>10. Given'
  BY <1>1, GivenStays
<1>11. Moving' /\ Placed' /\ Answered'
  BY <1>1, <1>3, <1>9 DEF Moving, Placed, Answered, source, cache
<1>12. Kept'
  BY <1>1, KeptStays
<1> QED BY <1>8, <1>10, <1>11, <1>12

LEMMA InvFinish ==
  IInv /\ Finish => IInv'
<1> SUFFICES ASSUME IInv, Finish
             PROVE  IInv'
  OBVIOUS
<1> USE DEF IInv
<1>1. /\ UNCHANGED <<env, source, spot, stop, whole, cache, history, expands, changes>>
      /\ phase = "finish" /\ phase' = "idle" /\ to' = Ended(to) /\ answer' = to.made + 1
  BY DEF Finish, Answers
<1>2. Holds(Ended(to), nsize, whole) /\ Believable(Ended(to), nsize, whole)
  BY GivenIs, EndedHolds DEF Filled
<1>3. to.made = Len(whole) /\ Len(whole) \in Nat
  BY DEF Filled, Holds, Text
<1>4. Given'
  BY <1>1, GivenStays
<1>5. Moving' /\ Placed'
  BY <1>1, <1>3 DEF Moving, Placed, source, cache
<1>6. Filled'
  BY <1>1, <1>2 DEF Filled, source
<1>7. Answered'
  BY <1>1, <1>2, <1>3 DEF Answered, source
<1>8. Kept'
  BY <1>1, KeptStays
<1> QED BY <1>4, <1>5, <1>6, <1>7, <1>8

LEMMA InvStutter ==
  IInv /\ UNCHANGED expandVars => IInv'
<1> SUFFICES ASSUME IInv, UNCHANGED expandVars
             PROVE  IInv'
  OBVIOUS
<1> USE DEF IInv
<1>1. /\ UNCHANGED <<env, source, cache, history, expands, changes>>
      /\ UNCHANGED <<phase, spot, stop, to, whole, answer>>
  BY DEF expandVars
<1>2. Given'
  BY <1>1, GivenStays
<1>3. Moving' /\ Placed' /\ Filled' /\ Answered'
  BY <1>1 DEF Moving, Placed, Filled, Holds, Answered, Believable, source, cache
<1>4. Kept'
  BY <1>1, KeptStays
<1> QED BY <1>2, <1>3, <1>4

LEMMA InvStep ==
  IInv /\ [ExpandNext]_expandVars => IInv'
<1>1. IInv /\ ExpandStep => IInv'
  BY InvNullSubject, InvFastPath, InvStartGeneral, InvLiteralRun, InvPercentRun, InvLookup,
     InvCopyLiteral, InvFinish DEF ExpandStep
<1>2. IInv /\ NoMoreCalls => IInv'
  BY InvStutter DEF NoMoreCalls
<1> QED BY <1>1, <1>2, InvSetVariable, InvCallExpand, InvStutter DEF ExpandNext

LEMMA InvHolds ==
  ExpandSpec => []IInv
BY InvInit, InvStep, PTL DEF ExpandSpec
-----------------------------------------------------------------------------
(* The types of the registers, of the destination and of the answer, for   *)
(* any number of calls and changes.                                        *)
THEOREM ExpandTypes == ExpandSpec => []ExpandTypeOK
<1>1. IInv => ExpandTypeOK
  <2> SUFFICES ASSUME IInv
               PROVE  ExpandTypeOK
    OBVIOUS
  <2>1. to.made \in Nat /\ to.over \in BOOLEAN /\ DOMAIN to.cells = 0..(Room - 1)
    BY DEF IInv, Filled, Holds, Destination
  <2> QED BY <2>1 DEF IInv, Given, Moving, ExpandTypeOK
<1> QED BY <1>1, InvHolds, PTL

(* No copy and no lookup writes behind the declared size, however it is    *)
(* divided between literals and values, whatever the other thread does.    *)
THEOREM ExpandStaysInside == ExpandSpec => []InsideSize
<1>1. IInv => InsideSize
  BY DEF IInv, Filled, Holds, InsideSize
<1> QED BY <1>1, InvHolds, PTL

(* An answer that the destination is large enough for means that the whole *)
(* text and its NUL are there, even if the environment changed between two *)
(* lookups of one call.                                                    *)
THEOREM ExpandAnswers == ExpandSpec => []WholeOrTooLong
<1>1. IInv => WholeOrTooLong
  <2> SUFFICES ASSUME IInv, phase = "idle", expands > 0
               PROVE  /\ answer = Len(whole) + 1
                      /\ answer <= nsize =>
                           \A x \in 0..(answer - 1) : to.cells[x] = (whole \o <<NulChar>>)[x + 1]
    BY DEF WholeOrTooLong
  <2>1. answer = Len(whole) + 1 /\ Believable(to, nsize, whole)
    BY DEF IInv, Answered
  <2>2. Len(whole) \in Nat /\ answer - 1 = Len(whole)
    BY <2>1 DEF IInv, Filled, Text
  <2> QED BY <2>1, <2>2 DEF Believable
<1> QED BY <1>1, InvHolds, PTL
-----------------------------------------------------------------------------
(***************************************************************************)
(* ExpandEnvironmentStringsW takes the steps of reference.c: a search in   *)
(* blocks finds what a search by characters finds, a run that is copied at *)
(* once leaves what its characters would have left, and the same names are *)
(* looked up at the same moments.                                          *)
(***************************************************************************)

(* The first stop is the only one with none before it.                     *)
LEMMA StopFromNearest ==
  ASSUME NEW s \in Text, NEW i \in 0..Len(s)
  PROVE  \A x \in i..Len(s) : IsStop(s, x) => StopFrom(s, i) <= x
<1> DEFINE S == {x \in i..Len(s) : IsStop(s, x)}
<1>1. Len(s) \in Nat /\ S \in SUBSET Nat
  BY DEF Text
<1>2. Len(s) \in S
  BY <1>1, TheEnd
<1> QED BY <1>1, <1>2, NearestIs DEF StopFrom

LEMMA StopFromOnly ==
  ASSUME NEW s \in Text, NEW i \in 0..Len(s), NEW x \in i..Len(s), IsStop(s, x),
         \A y \in i..Len(s) : IsStop(s, y) => x <= y
  PROVE  x = StopFrom(s, i)
<1>1. Len(s) \in Nat
  BY DEF Text
<1> QED BY <1>1, StopFromIs, StopFromNearest

LEMMA SearchIsStopFrom ==
  ASSUME subject \in Text, align \in Aligns, Kept, NEW i \in 0..Len(subject)
  PROVE  Search(i) = StopFrom(subject, i)
<1> DEFINE end == Len(subject)
           b == BlockOf(i)
           m == IF block = b THEN stops ELSE Mask(b)
           here == {x \in m : x >= i}
           there == {x \in i..end : BlockOf(x) > b /\ IsStop(subject, x)}
           s == Search(i)
<1>1. end \in Nat /\ i \in Nat
  BY DEF Text
<1>2. \A x \in i..end : BlockOf(x) \in Nat /\ b \in Nat /\ b <= BlockOf(x)
  BY <1>1, BlockOfIs
<1>3. m = Mask(b)
  <2>1. b \in Nat
    BY <1>1, <1>2
  <2> QED BY <2>1 DEF Kept
<1>4. s = IF here # {} THEN Nearest(here) ELSE Nearest(there)
  BY DEF Search
<1> HIDE DEF m
<1>5. here = {x \in i..end : BlockOf(x) = b /\ IsStop(subject, x)}
  BY <1>1, <1>3 DEF Mask
<1>6. s \in i..end /\ IsStop(subject, s)
  BY SearchIs
<1> HIDE DEF b, s
<1>7. ASSUME NEW x \in i..end, IsStop(subject, x)
      PROVE  s <= x
  <2>1. CASE here # {}
    <3>1. here \in SUBSET Nat
      BY <1>1, <1>5
    <3>2. s \in here /\ \A y \in here : s <= y
      BY <1>4, <2>1, <3>1, NearestIs
    <3>3. CASE BlockOf(x) = b
      BY <1>5, <1>7, <3>2, <3>3
    <3>4. CASE BlockOf(x) # b
      <4>1. ASSUME ~(s <= x)
            PROVE  FALSE
        <5>1. x \in Nat /\ s \in Nat /\ x <= s /\ BlockOf(s) = b
          BY <1>1, <1>5, <1>6, <3>2, <4>1
        <5>2. BlockOf(x) <= BlockOf(s) /\ BlockOf(x) \in Nat
          BY <5>1, BlockOfIs
        <5> QED BY <1>2, <3>4, <5>1, <5>2
      <4> QED BY <4>1
    <3> QED BY <3>3, <3>4
  <2>2. CASE here = {}
    <3>1. there \in SUBSET Nat
      BY <1>1
    <3>2. BlockOf(x) # b
      BY <1>5, <1>7, <2>2
    <3>3. x \in there
      BY <1>2, <1>7, <3>2
    <3> QED BY <1>4, <2>2, <3>1, <3>3, NearestIs
  <2> QED BY <2>1, <2>2
<1> QED BY <1>6, <1>7, StopFromOnly DEF s

(* Between two stops no name begins.                                       *)
LEMMA NoNameHere ==
  ASSUME NEW s \in Text, NEW i \in 0..Len(s), NEW x \in i..(StopFrom(s, i) - 1)
  PROVE  ~IsName(s, x)
<1>1. Len(s) \in Nat /\ StopFrom(s, i) \in i..Len(s)
  BY StopFromIs DEF Text
<1>2. x \in i..Len(s) /\ x \in Nat /\ ~(StopFrom(s, i) <= x)
  BY <1>1
<1>3. ~IsStop(s, x)
  BY <1>2, StopFromNearest
<1> QED BY <1>2, <1>3, TheEnd DEF IsName
-----------------------------------------------------------------------------
(* The operators of the reference are these.                               *)
LEMMA SameOperators ==
  /\ \A cells, size : Reference!Fresh(cells, size) = Fresh(cells, size)
  /\ \A d, chars : Reference!Emitted(d, chars) = Emitted(d, chars)
  /\ \A d, chars : Reference!Substituted(d, chars) = Substituted(d, chars)
  /\ \A d : Reference!Ended(d) = Ended(d)
  /\ \A s, i : Reference!StopFrom(s, i) = StopFrom(s, i)
  /\ \A s, i : Reference!IsName(s, i) = IsName(s, i)
  /\ \A s, i : Reference!NameAt(s, i) = NameAt(s, i)
<1>1. \A a, b : Reference!Smaller(a, b) = Smaller(a, b)
  BY DEF Reference!Smaller, Smaller
<1>2. \A cells, at, chars : Reference!Written(cells, at, chars) = Written(cells, at, chars)
  BY DEF Reference!Written, Written
<1>3. \A cells, size : Reference!Fresh(cells, size) = Fresh(cells, size)
  BY DEF Reference!Fresh, Fresh
<1>4. \A d, chars : Reference!Emitted(d, chars) = Emitted(d, chars)
  BY <1>1, <1>2 DEF Reference!Emitted, Reference!Counted, Emitted, Counted
<1>5. Reference!NulChar = NulChar /\ Reference!Percent = Percent
  BY DEF Reference!NulChar, Reference!Percent, NulChar, Percent
<1>6. \A d, chars : Reference!Substituted(d, chars) = Substituted(d, chars)
  BY <1>2, <1>5 DEF Reference!Substituted, Substituted
<1>7. \A d : Reference!Ended(d) = Ended(d)
  BY <1>2, <1>5 DEF Reference!Ended, Ended
<1>8. \A s, i : Reference!CharAt(s, i) = CharAt(s, i)
  BY <1>5 DEF Reference!CharAt, CharAt
<1>9. \A s, i : Reference!StopFrom(s, i) = StopFrom(s, i)
  BY <1>5, <1>8 DEF Reference!StopFrom, Reference!Nearest, Reference!IsStop, StopFrom, Nearest, IsStop
<1>10. \A s, i : Reference!IsName(s, i) = IsName(s, i)
  BY <1>5, <1>8, <1>9 DEF Reference!IsName, IsName
<1>11. \A s, i : Reference!NameAt(s, i) = NameAt(s, i)
  BY <1>9 DEF Reference!NameAt, NameAt
<1> QED BY <1>3, <1>4, <1>6, <1>7, <1>9, <1>10, <1>11
-----------------------------------------------------------------------------
(* Destinations are the same that agree in each cell and each count.       *)
LEMMA SameDestination ==
  ASSUME NEW d \in Destination, NEW e \in Destination,
         d.out = e.out, d.free = e.free, d.made = e.made, d.over = e.over,
         \A x \in 0..(Room - 1) : d.cells[x] = e.cells[x]
  PROVE  d = e
<1>1. d.cells \in [0..(Room - 1) -> Cell] /\ e.cells \in [0..(Room - 1) -> Cell]
  BY DEF Destination
<1>2. d.cells = e.cells
  <2>1. /\ d.cells = [x \in 0..(Room - 1) |-> d.cells[x]]
        /\ e.cells = [x \in 0..(Room - 1) |-> e.cells[x]]
    BY <1>1
  <2>2. [x \in 0..(Room - 1) |-> d.cells[x]] = [x \in 0..(Room - 1) |-> e.cells[x]]
    OBVIOUS
  <2> QED BY <2>1, <2>2
<1> QED BY <1>2 DEF Destination

LEMMA EmittedFields ==
  ASSUME NEW d \in Destination, NEW chars \in Text, NEW n, n = Fits(d, Len(chars)),
         NEW e, e = Emitted(d, chars)
  PROVE  /\ e \in Destination /\ e.out = d.out + n /\ e.free = d.free - n
         /\ e.made = d.made + Len(chars) /\ e.over = (d.over \/ n < Len(chars))
         /\ \A x \in 0..(Room - 1) :
              e.cells[x] = IF x \in d.out..(d.out + n - 1) THEN chars[x - d.out + 1] ELSE d.cells[x]
BY EmittedIs

(* The same, as one fact about the destination before and after.           *)
Took(e, d, chars, n) ==
  /\ e \in Destination /\ e.out = d.out + n /\ e.free = d.free - n
  /\ e.made = d.made + Len(chars) /\ e.over = (d.over \/ n < Len(chars))
  /\ \A x \in 0..(Room - 1) :
       e.cells[x] = IF x \in d.out..(d.out + n - 1) THEN chars[x - d.out + 1] ELSE d.cells[x]

LEMMA EmittedTook ==
  ASSUME NEW d \in Destination, NEW chars \in Text
  PROVE  Took(Emitted(d, chars), d, chars, Fits(d, Len(chars)))
<1> DEFINE e == Emitted(d, chars)
           n == Fits(d, Len(chars))
<1>1. n = Fits(d, Len(chars)) /\ e = Emitted(d, chars)
  OBVIOUS
<1> HIDE DEF e, n
<1>2. Took(e, d, chars, n)
  BY <1>1, EmittedFields DEF Took
<1> QED BY <1>1, <1>2

LEMMA EmittedNothing ==
  ASSUME NEW d \in Destination
  PROVE  Emitted(d, <<>>) = d
<1> DEFINE e == Emitted(d, <<>>)
           n == Fits(d, 0)
<1>1. <<>> \in Text /\ Len(<<>>) = 0
  BY DEF Text
<1>2. n = 0
  BY FitsIs
<1>3. d.out \in Nat /\ d.free \in Nat /\ d.made \in Nat /\ d.over \in BOOLEAN
  BY DEF Destination
<1>4. /\ e \in Destination /\ e.out = d.out + n /\ e.free = d.free - n /\ e.made = d.made + 0
      /\ e.over = (d.over \/ n < 0)
      /\ \A x \in 0..(Room - 1) :
           e.cells[x] = IF x \in d.out..(d.out + n - 1) THEN <<>>[x - d.out + 1] ELSE d.cells[x]
  BY <1>1, EmittedFields
<1> HIDE DEF n, e
<1>5. e.out = d.out /\ e.free = d.free /\ e.made = d.made
  BY <1>2, <1>3, <1>4
<1>6. e.over = d.over
  <2>1. ~(n < 0)
    BY <1>2
  <2> QED BY <1>3, <1>4, <2>1, Zenon
<1>7. \A x \in 0..(Room - 1) : e.cells[x] = d.cells[x]
  <2>1. \A x \in 0..(Room - 1) : x \notin d.out..(d.out + n - 1)
    BY <1>2, <1>3
  <2> QED BY <1>4, <2>1
<1>8. e = d
  BY <1>4, <1>5, <1>6, <1>7, SameDestination
<1> QED BY <1>8 DEF e

(* What fits of two pieces is what fits of both together.                  *)
LEMMA FitsTwice ==
  ASSUME NEW d \in Destination, NEW f \in Destination, NEW a \in Nat, NEW b \in Nat,
         f.free = d.free - Fits(d, a), f.over = (d.over \/ Fits(d, a) < a)
  PROVE  /\ Fits(d, a + b) = Fits(d, a) + Fits(f, b)
         /\ Fits(f, b) > 0 => Fits(d, a) = a
<1>1. d.free \in Nat /\ f.free \in Nat /\ d.over \in BOOLEAN /\ f.over \in BOOLEAN
  BY DEF Destination
<1>2. a + b \in Nat
  OBVIOUS
<1>3. CASE d.over
  <2>1. f.over
    BY <1>3, Zenon
  <2> QED BY <1>3, <2>1 DEF Fits
<1>4. CASE ~d.over /\ d.free <= 1
  <2>1. Fits(d, a) = 0 /\ Fits(d, a + b) = 0
    BY <1>4 DEF Fits
  <2>2. f.free <= 1
    BY <1>1, <1>4, <2>1
  <2>3. Fits(f, b) = 0
    BY <2>2 DEF Fits
  <2> QED BY <2>1, <2>3
<1>5. CASE ~d.over /\ ~(d.free <= 1)
  <2>1. Fits(d, a) = Smaller(a, d.free - 1) /\ Fits(d, a + b) = Smaller(a + b, d.free - 1)
    BY <1>5 DEF Fits
  <2>2. CASE ~(a <= d.free - 1)
    <3>1. Fits(d, a) = d.free - 1 /\ Fits(d, a + b) = d.free - 1 /\ Fits(d, a) < a
      BY <1>1, <2>1, <2>2 DEF Smaller
    <3>2. f.over
      BY <3>1, Zenon
    <3>3. Fits(f, b) = 0
      BY <3>2 DEF Fits
    <3> QED BY <1>1, <3>1, <3>3
  <2>3. CASE a <= d.free - 1
    <3>1. Fits(d, a) = a
      BY <1>1, <2>1, <2>3 DEF Smaller
    <3>2. f.free = d.free - a /\ ~(Fits(d, a) < a)
      BY <3>1
    <3>3. ~f.over
      BY <1>5, <3>2, Zenon
    <3>4. CASE f.free <= 1
      <4>1. Fits(f, b) = 0
        BY <3>4 DEF Fits
      <4>2. Fits(d, a + b) = a
        BY <1>1, <2>1, <2>3, <3>2, <3>4 DEF Smaller
      <4> QED BY <3>1, <4>1, <4>2
    <3>5. CASE ~(f.free <= 1)
      <4>1. Fits(f, b) = Smaller(b, f.free - 1)
        BY <3>3, <3>5 DEF Fits
      <4>2. Smaller(a + b, d.free - 1) = a + Smaller(b, f.free - 1)
        BY <1>1, <2>3, <3>2, <3>5 DEF Smaller
      <4> QED BY <2>1, <3>1, <4>1, <4>2
    <3> QED BY <3>4, <3>5
  <2> QED BY <2>2, <2>3
<1> QED BY <1>3, <1>4, <1>5

LEMMA EmittedTwice ==
  ASSUME NEW d \in Destination, NEW a \in Text, NEW b \in Text
  PROVE  Emitted(Emitted(d, a), b) = Emitted(d, a \o b)
<1> DEFINE c == a \o b
<1>1. /\ c \in Text /\ Len(c) = Len(a) + Len(b)
      /\ \A x \in 1..Len(a) : c[x] = a[x]
      /\ \A x \in 1..Len(b) : c[Len(a) + x] = b[x]
  BY JoinIs
<1> HIDE DEF c
<1> DEFINE h == Emitted(d, c)
           n == Fits(d, Len(c))
<1>6. /\ h \in Destination /\ h.out = d.out + n /\ h.free = d.free - n
      /\ h.made = d.made + Len(c) /\ h.over = (d.over \/ n < Len(c))
      /\ \A x \in 0..(Room - 1) :
           h.cells[x] = IF x \in d.out..(d.out + n - 1) THEN c[x - d.out + 1] ELSE d.cells[x]
  <2>1. c \in Text
    BY <1>1
  <2>2. Took(h, d, c, n)
    BY <2>1, EmittedTook
  <2> HIDE DEF h, n
  <2> QED BY <2>2 DEF Took
<1> DEFINE f == Emitted(d, a)
           g == Emitted(f, b)
           k == Fits(d, Len(a))
           l == Fits(f, Len(b))
<1>2. Len(a) \in Nat /\ Len(b) \in Nat
  BY DEF Text
<1>3. d.out \in Nat /\ d.free \in Nat /\ d.made \in Nat /\ d.over \in BOOLEAN
  BY DEF Destination
<1>4. /\ f \in Destination /\ f.out = d.out + k /\ f.free = d.free - k
      /\ f.made = d.made + Len(a) /\ f.over = (d.over \/ k < Len(a))
      /\ \A x \in 0..(Room - 1) :
           f.cells[x] = IF x \in d.out..(d.out + k - 1) THEN a[x - d.out + 1] ELSE d.cells[x]
  <2>1. Took(f, d, a, k)
    BY EmittedTook
  <2> HIDE DEF f, k
  <2> QED BY <2>1 DEF Took
<1> HIDE DEF f
<1>5. /\ g \in Destination /\ g.out = f.out + l /\ g.free = f.free - l
      /\ g.made = f.made + Len(b) /\ g.over = (f.over \/ l < Len(b))
      /\ \A x \in 0..(Room - 1) :
           g.cells[x] = IF x \in f.out..(f.out + l - 1) THEN b[x - f.out + 1] ELSE f.cells[x]
  <2>1. f \in Destination
    BY <1>4
  <2>2. Took(g, f, b, l)
    BY <2>1, EmittedTook
  <2> HIDE DEF g, l
  <2> QED BY <2>2 DEF Took
<1>7. n = k + l /\ (l > 0 => k = Len(a)) /\ k \in 0..Len(a) /\ l \in 0..Len(b)
  <2>1. k \in 0..Len(a) /\ l \in 0..Len(b)
    BY <1>2, <1>4, FitsIs
  <2>2. Fits(d, Len(a) + Len(b)) = k + l /\ (l > 0 => k = Len(a))
    BY <1>2, <1>4, FitsTwice
  <2> QED BY <1>1, <2>1, <2>2
<1> HIDE DEF g, h, k, l, n
<1>8. g.out = h.out /\ g.free = h.free /\ g.made = h.made
  <2>1. k \in Nat /\ l \in Nat /\ n \in Nat /\ n = k + l
    BY <1>2, <1>7
  <2>2. /\ g.out = (d.out + k) + l /\ h.out = d.out + n
        /\ g.free = (d.free - k) - l /\ h.free = d.free - n
        /\ g.made = (d.made + Len(a)) + Len(b) /\ h.made = d.made + (Len(a) + Len(b))
    BY <1>1, <1>4, <1>5, <1>6
  <2> QED BY <1>2, <1>3, <2>1, <2>2
<1>9. g.over = h.over
  <2>1. (n < Len(c)) = (k < Len(a) \/ l < Len(b))
    BY <1>1, <1>2, <1>7
  <2>2. g.over = ((d.over \/ k < Len(a)) \/ l < Len(b)) /\ h.over = (d.over \/ n < Len(c))
    BY <1>4, <1>5, <1>6, Zenon
  <2>3. h.over = (d.over \/ (k < Len(a) \/ l < Len(b)))
    BY <2>1, <2>2, Zenon
  <2>4. g.over <=> h.over
    BY <2>2, <2>3, Zenon
  <2>5. g.over \in BOOLEAN /\ h.over \in BOOLEAN
    BY <1>5, <1>6 DEF Destination
  <2> QED BY <2>4, <2>5
<1>10. ASSUME NEW x \in 0..(Room - 1)
       PROVE  g.cells[x] = h.cells[x]
  <2>0. x \in Int /\ k \in Nat /\ l \in Nat /\ n = k + l /\ f.out = d.out + k
    BY <1>2, <1>4, <1>7, RoomIsNat
  <2>1. CASE x \in d.out..(d.out + k - 1)
    <3>1. x \notin f.out..(f.out + l - 1) /\ x \in d.out..(d.out + n - 1) /\ x - d.out + 1 \in 1..Len(a)
      BY <1>2, <1>3, <1>7, <2>0, <2>1
    <3> QED BY <1>1, <1>4, <1>5, <1>6, <2>1, <3>1
  <2>2. CASE x \in f.out..(f.out + l - 1)
    <3> DEFINE y == x - f.out + 1
    <3>0. l > 0 /\ k = Len(a)
      BY <1>3, <1>7, <2>0, <2>2
    <3>1. /\ y \in 1..Len(b) /\ x \in d.out..(d.out + n - 1) /\ x - d.out + 1 = Len(a) + y
      <4>1. f.out \in Nat /\ f.out <= x /\ x <= f.out + l - 1 /\ f.out = d.out + Len(a)
        BY <1>3, <2>0, <2>2, <3>0
      <4>2. y \in 1..Len(b)
        BY <1>2, <1>7, <2>0, <4>1
      <4>3. x - d.out + 1 = Len(a) + y
        <5>1. x \in Int /\ f.out \in Int /\ d.out \in Int /\ Len(a) \in Int /\ f.out = d.out + Len(a)
          BY <1>2, <1>3, <2>0, <4>1
        <5> QED BY <5>1
      <4>4. x \in d.out..(d.out + n - 1)
        BY <1>2, <1>3, <2>0, <3>0, <4>1
      <4> QED BY <4>2, <4>3, <4>4
    <3>2. g.cells[x] = b[y] /\ h.cells[x] = c[x - d.out + 1]
      BY <1>5, <1>6, <2>2, <3>1
    <3> HIDE DEF y
    <3> QED BY <1>1, <3>1, <3>2
  <2>3. CASE x \notin d.out..(d.out + k - 1) /\ x \notin f.out..(f.out + l - 1)
    <3>1. x \notin d.out..(d.out + n - 1)
      BY <1>2, <1>3, <1>7, <2>0, <2>3
    <3> QED BY <1>4, <1>5, <1>6, <2>3, <3>1
  <2> QED BY <2>1, <2>2, <2>3
<1>11. g = h
  BY <1>5, <1>6, <1>8, <1>9, <1>10, SameDestination
<1> QED BY <1>11 DEF c, f, g, h

(* The short way is the long one in a single step.                         *)
LEMMA FastIsEnded ==
  ASSUME NEW size \in 0..Room, NEW s \in Text
  PROVE  Fast(Fresh(Clean, size), size, s) = Ended(Emitted(Fresh(Clean, size), s))
<1> DEFINE d == Fresh(Clean, size)
<1>1. Holds(d, size, <<>>) /\ <<>> \in Text
  BY FreshHolds
<1>2. /\ d \in Destination /\ d.out = 0 /\ d.free = size /\ d.made = 0 /\ d.over = FALSE
      /\ \A x \in size..(Room - 1) : d.cells[x] = Untouched
  BY <1>1 DEF Holds, Fresh
<1> HIDE DEF d
<1> DEFINE e == Emitted(d, s)
           n == Fits(d, Len(s))
           g == Ended(e)
           h == Fast(d, size, s)
           need == Len(s) + 1
           k == IF need <= size THEN need ELSE IF size = 0 THEN 0 ELSE size - 1
           all == s \o <<NulChar>>
           part == SubSeq(all, 1, k)
<1>3. Len(s) \in Nat /\ size \in Nat
  BY RoomIsNat DEF Text
<1>4. h \in Destination
  BY <1>2, FastHolds DEF Holds
<1>5. Holds(e, size, <<>> \o s) /\ <<>> \o s \in Text
  BY <1>1, EmittedHolds, JoinIs
<1>6. g \in Destination
  <2> HIDE DEF e
  <2> QED BY <1>5, EndedHolds DEF Holds
<1>7. /\ e \in Destination /\ e.out = 0 + n /\ e.free = size - n /\ e.made = 0 + Len(s)
      /\ e.over = (FALSE \/ n < Len(s))
      /\ \A x \in 0..(Room - 1) :
           e.cells[x] = IF x \in 0..(0 + n - 1) THEN s[x - 0 + 1] ELSE d.cells[x]
  BY <1>2, EmittedFields
<1>8. /\ all \in Text /\ Len(all) = Len(s) + 1 /\ \A x \in 1..Len(s) : all[x] = s[x]
      /\ all[Len(s) + 1] = NulChar
  <2>1. 1 \in 1..Len(<<NulChar>>)
    BY NulIsText
  <2> QED BY <2>1, JoinIs, NulIsText
<1> HIDE DEF all
<1>9. k \in 0..Len(all)
  BY <1>3, <1>8
<1>10. h = [cells |-> Written(d.cells, 0, part), out |-> Smaller(k, Len(s)),
            free |-> size - Smaller(k, Len(s)), made |-> Len(s), over |-> size < need]
  BY DEF Fast, all
<1> HIDE DEF e, g, h
<1>11. \A x \in 0..(Room - 1) :
         h.cells[x] = IF x \in 0..(k - 1) THEN all[x + 1] ELSE d.cells[x]
  <2> HIDE DEF k
  <2>1. part \in Text /\ Len(part) = k /\ \A x \in 1..k : part[x] = all[x]
    BY <1>8, <1>9, PrefixIs
  <2> HIDE DEF part
  <2>2. d.cells \in [0..(Room - 1) -> Cell]
    BY <1>2 DEF Destination
  <2>3. \A x \in 0..(Room - 1) :
          Written(d.cells, 0, part)[x]
            = IF x \in 0..(0 + Len(part) - 1) THEN part[x - 0 + 1] ELSE d.cells[x]
    BY <2>1, <2>2, WrittenIs
  <2>4. ASSUME NEW x \in 0..(Room - 1)
        PROVE  h.cells[x] = IF x \in 0..(k - 1) THEN all[x + 1] ELSE d.cells[x]
    <3>1. /\ x - 0 + 1 = x + 1 /\ 0 + k - 1 = k - 1
          /\ x \in 0..(k - 1) => x + 1 \in 1..k
      BY <1>3, <1>8, <1>9, RoomIsNat
    <3>2. h.cells[x] = IF x \in 0..(k - 1) THEN part[x + 1] ELSE d.cells[x]
      BY <1>10, <2>1, <2>3, <3>1
    <3> QED BY <2>1, <3>1, <3>2
  <2> QED BY <2>4
<1>12. ASSUME need <= size
       PROVE  g = h
  <2>1. k = need /\ Smaller(k, Len(s)) = Len(s) /\ ~(size < need)
    BY <1>3, <1>12 DEF Smaller
  <2>2. n = Len(s)
    <3>1. CASE size <= 1
      <4>1. Len(s) = 0
        BY <1>3, <1>12, <3>1
      <4> QED BY <1>2, <4>1, FitsIs
    <3>2. CASE ~(size <= 1)
      BY <1>2, <1>3, <1>12, <3>2 DEF Fits, Smaller
    <3> QED BY <3>1, <3>2
  <2> HIDE DEF n, k
  <2>3. ~e.over
    <3>1. ~(n < Len(s))
      BY <1>3, <2>2
    <3> QED BY <1>7, <3>1, Zenon
  <2>4. e.out = Len(s) /\ e.free = size - Len(s) /\ e.made = Len(s) /\ e.free # 0
    BY <1>3, <1>7, <1>12, <2>2
  <2>5. /\ g.cells = Written(e.cells, e.out, <<NulChar>>) /\ g.out = e.out /\ g.free = e.free
        /\ g.made = e.made /\ g.over = e.over
    BY <1>7, <2>3, <2>4 DEF g, Ended, Destination
  <2>6. g.out = h.out /\ g.free = h.free /\ g.made = h.made
    BY <1>10, <2>1, <2>4, <2>5
  <2>7. g.over = h.over
    <3>1. e.over = FALSE
      BY <1>7, <2>3 DEF Destination
    <3>2. (size < need) = FALSE
      BY <2>1
    <3>3. h.over = (size < need)
      BY <1>10
    <3> QED BY <2>5, <3>1, <3>2, <3>3
  <2>8. \A x \in 0..(Room - 1) :
          g.cells[x] = IF x \in e.out..(e.out + 1 - 1) THEN <<NulChar>>[x - e.out + 1] ELSE e.cells[x]
    <3>1. e.cells \in [0..(Room - 1) -> Cell] /\ e.out \in Nat
      BY <1>7 DEF Destination
    <3>2. \A x \in 0..(Room - 1) :
            Written(e.cells, e.out, <<NulChar>>)[x]
              = IF x \in e.out..(e.out + Len(<<NulChar>>) - 1) THEN <<NulChar>>[x - e.out + 1]
                ELSE e.cells[x]
      BY <3>1, NulIsText, WrittenIs
    <3>3. Len(<<NulChar>>) = 1
      BY NulIsText
    <3> QED BY <2>5, <3>2, <3>3
  <2>9. ASSUME NEW x \in 0..(Room - 1)
        PROVE  g.cells[x] = h.cells[x]
    <3>0. x \in Int /\ x >= 0
      BY RoomIsNat
    <3>1. CASE x < Len(s)
      <4>1. /\ x \notin e.out..(e.out + 1 - 1) /\ x \in 0..(0 + n - 1) /\ x \in 0..(k - 1)
            /\ x - 0 + 1 = x + 1 /\ x + 1 \in 1..Len(s)
        BY <1>3, <2>1, <2>2, <2>4, <3>0, <3>1
      <4> QED BY <1>7, <1>8, <1>11, <2>8, <4>1
    <3>2. CASE x = Len(s)
      <4>1. /\ x \in e.out..(e.out + 1 - 1) /\ x \in 0..(k - 1)
            /\ x - e.out + 1 = 1 /\ x + 1 = Len(s) + 1
        BY <1>3, <2>1, <2>4, <3>0, <3>2
      <4> QED BY <1>8, <1>11, <2>8, <4>1, NulIsText
    <3>3. CASE x > Len(s)
      <4>1. x \notin e.out..(e.out + 1 - 1) /\ x \notin 0..(0 + n - 1) /\ x \notin 0..(k - 1)
        BY <1>3, <2>1, <2>2, <2>4, <3>0, <3>3
      <4> QED BY <1>7, <1>11, <2>8, <4>1
    <3> QED BY <1>3, <3>0, <3>1, <3>2, <3>3
  <2> QED BY <1>4, <1>6, <2>6, <2>7, <2>9, SameDestination
<1>13. ASSUME ~(need <= size)
       PROVE  g = h
  <2>1. /\ n = k /\ n \in Nat /\ n <= size /\ n <= Len(s) /\ Len(s) >= size /\ size < need
        /\ ~(n < Len(s)) => size = 0
    BY <1>2, <1>3, <1>13 DEF Fits, Smaller
  <2>2. Smaller(k, Len(s)) = n
    <3> HIDE DEF k, n
    <3> QED BY <1>3, <2>1 DEF Smaller
  <2> HIDE DEF n, k
  <2>3. /\ g.cells = e.cells /\ g.out = e.out /\ g.free = e.free
        /\ g.made = e.made /\ g.over = TRUE
    <3>1. CASE n < Len(s)
      <4>1. e.over = TRUE
        BY <1>7, <3>1, Zenon
      <4> QED BY <4>1 DEF g, Ended
    <3>2. CASE ~(n < Len(s))
      <4>1. e.free = 0
        BY <1>3, <1>7, <2>1, <3>2
      <4>2. ~e.over
        BY <1>7, <3>2, Zenon
      <4> QED BY <1>7, <4>1, <4>2 DEF g, Ended, Destination
    <3> QED BY <3>1, <3>2
  <2>4. g.out = h.out /\ g.free = h.free /\ g.made = h.made
    BY <1>3, <1>7, <1>10, <2>1, <2>2, <2>3
  <2>5. g.over = h.over
    <3>1. (size < need) = TRUE
      BY <2>1
    <3> QED BY <1>10, <2>3, <3>1
  <2>6. ASSUME NEW x \in 0..(Room - 1)
        PROVE  g.cells[x] = h.cells[x]
    <3>0. x \in Int /\ x >= 0
      BY RoomIsNat
    <3>1. CASE x < n
      <4>1. x \in 0..(0 + n - 1) /\ x \in 0..(k - 1) /\ x - 0 + 1 = x + 1 /\ x + 1 \in 1..Len(s)
        BY <1>3, <2>1, <3>0, <3>1
      <4> QED BY <1>7, <1>8, <1>11, <2>3, <4>1
    <3>2. CASE ~(x < n)
      <4>1. x \notin 0..(0 + n - 1) /\ x \notin 0..(k - 1)
        BY <2>1, <3>0, <3>2
      <4> QED BY <1>7, <1>11, <2>3, <4>1
    <3> QED BY <3>1, <3>2
  <2> QED BY <1>4, <1>6, <2>4, <2>5, <2>6, SameDestination
<1>14. g = h
  BY <1>12, <1>13 DEF need
<1> QED BY <1>14 DEF d, e, g, h
-----------------------------------------------------------------------------
(* What the code has found is what the reference would find.               *)
Found ==
  /\ phase # "idle" => answer = Pending
  /\ phase \in {"query", "literal"} =>
       /\ CharAt(subject, spot) = Percent
       /\ spot + 1 \in 0..Len(subject) /\ stop = StopFrom(subject, spot + 1)
  /\ phase = "query" => stop >= spot + 2
  /\ phase = "finish" => CharAt(subject, spot) = NulChar

LEMMA NulIsTheEnd ==
  ASSUME subject \in Subjects, NEW i \in 0..Len(subject), CharAt(subject, i) = NulChar
  PROVE  i = Len(subject)
<1>1. subject \in Seq(STRING) /\ \A x \in 1..Len(subject) : subject[x] # NulChar
  BY ExpandAssumption
<1>2. Len(subject) \in Nat
  BY <1>1
<1>3. ASSUME i < Len(subject)
      PROVE  FALSE
  <2>1. i + 1 \in 1..Len(subject) /\ CharAt(subject, i) = subject[i + 1]
    BY <1>2, <1>3 DEF CharAt
  <2> QED BY <1>1, <2>1
<1> QED BY <1>2, <1>3

(* All of a run are percent signs, and what follows is none.               *)
LEMMA RunIs ==
  ASSUME subject \in Text, NEW i \in 0..Len(subject), CharAt(subject, i) = Percent
  PROVE  /\ \A x \in i..(LastOf(i) - 1) : CharAt(subject, x + 1) = Percent
         /\ CharAt(subject, LastOf(i)) = Percent /\ CharAt(subject, LastOf(i) + 1) # Percent
<1> DEFINE S == {x \in i..Len(subject) : CharAt(subject, x + 1) # Percent}
           last == LastOf(i)
<1>1. Len(subject) \in Nat /\ i \in Nat /\ last \in i..(Len(subject) - 1)
  BY LastIs DEF Text
<1>2. S \in SUBSET Nat /\ S # {}
  <2>1. Len(subject) \in Nat /\ Len(subject) + 1 \in Nat /\ Len(subject) + 1 >= Len(subject)
    BY <1>1
  <2>2. CharAt(subject, Len(subject) + 1) # Percent
    <3>1. ~(Len(subject) + 1 < Len(subject))
      BY <2>1
    <3> QED BY <2>1, <3>1, TheEnd
  <2> QED BY <1>1, <2>2
<1>3. last \in S /\ \A x \in S : last <= x
  BY <1>2, NearestIs DEF LastOf
<1> HIDE DEF last
<1>4. ASSUME NEW x \in i..(last - 1)
      PROVE  CharAt(subject, x + 1) = Percent
  <2>1. x \in i..Len(subject) /\ ~(last <= x)
    BY <1>1
  <2> QED BY <1>3, <2>1
<1>5. CharAt(subject, last) = Percent
  <2>1. CASE last = i
    BY <2>1
  <2>2. CASE last # i
    <3>1. last - 1 \in i..(last - 1) /\ last - 1 + 1 = last
      BY <1>1, <2>2
    <3> QED BY <1>4, <3>1
  <2> QED BY <2>1, <2>2
<1> QED BY <1>3, <1>4, <1>5 DEF last

(* No name begins where a percent sign follows at once, or no percent sign *)
(* at all.                                                                 *)
LEMMA NoNameInRun ==
  ASSUME NEW s \in Text, NEW x \in Nat, x + 1 \in 0..Len(s), CharAt(s, x + 1) = Percent
  PROVE  ~IsName(s, x)
<1>1. IsStop(s, x + 1) /\ Len(s) \in Nat
  BY TheEnd DEF Text
<1>2. StopFrom(s, x + 1) <= x + 1
  BY <1>1, StopFromNearest
<1>3. StopFrom(s, x + 1) \in (x + 1)..Len(s)
  BY StopFromIs
<1>4. StopFrom(s, x + 1) \notin (x + 2)..(Len(s) - 1)
  BY <1>1, <1>2, <1>3
<1> QED BY <1>4 DEF IsName

(* What PercentRun finds: a name between two percent signs, or none.       *)
LEMMA RunFinds ==
  ASSUME IInv, phase = "percent", NEW last, last = LastOf(spot),
         NEW s, s = Search(last + 1)
  PROVE  /\ last \in spot..(Len(subject) - 1) /\ spot \in Nat
         /\ CharAt(subject, last) = Percent /\ last + 1 \in 0..Len(subject)
         /\ s = StopFrom(subject, last + 1)
         /\ CharAt(subject, s) = Percent => s >= last + 2
         /\ \A x \in spot..(last - 1) : ~IsName(subject, x)
<1> USE DEF IInv
<1>1. subject \in Text /\ Len(subject) \in Nat
  BY GivenIs
<1>2. spot \in 0..Len(subject) /\ CharAt(subject, spot) = Percent /\ align \in Aligns /\ spot \in Nat
  BY <1>1 DEF Moving, Placed, Given
<1>3. last \in spot..(Len(subject) - 1)
  BY <1>1, <1>2, LastIs
<1>4. /\ \A x \in spot..(last - 1) : CharAt(subject, x + 1) = Percent
      /\ CharAt(subject, last) = Percent /\ CharAt(subject, last + 1) # Percent
  BY <1>1, <1>2, RunIs
<1>5. last + 1 \in 0..Len(subject)
  BY <1>1, <1>2, <1>3
<1>6. s = StopFrom(subject, last + 1) /\ s \in (last + 1)..Len(subject)
  BY <1>1, <1>2, <1>5, SearchIsStopFrom, StopFromIs
<1>7. CharAt(subject, s) = Percent => s >= last + 2
  <2>1. CharAt(subject, s) = Percent => s # last + 1
    BY <1>4
  <2> QED BY <1>1, <1>2, <1>3, <1>6, <2>1
<1>8. ASSUME NEW x \in spot..(last - 1)
      PROVE  ~IsName(subject, x)
  <2>1. x \in Nat /\ x + 1 \in 0..Len(subject) /\ CharAt(subject, x + 1) = Percent
    BY <1>1, <1>2, <1>3, <1>4
  <2> QED BY <1>1, <2>1, NoNameInRun
<1> QED BY <1>2, <1>3, <1>4, <1>5, <1>6, <1>7, <1>8

LEMMA FoundInit ==
  ExpandInit => Found
BY DEF ExpandInit, Found

LEMMA FoundStep ==
  IInv /\ Found /\ [ExpandNext]_expandVars => Found'
<1> SUFFICES ASSUME IInv, Found, [ExpandNext]_expandVars
             PROVE  Found'
  OBVIOUS
<1> USE DEF Found
<1>1. CASE UNCHANGED expandVars \/ NoMoreCalls \/ SetVariable
  <2>1. UNCHANGED <<phase, answer, spot, stop, subject>>
    BY <1>1 DEF expandVars, NoMoreCalls, SetVariable, source
  <2> QED BY <2>1
<1>2. CASE CallExpand
  BY <1>2 DEF CallExpand
<1>3. CASE NullSubject
  BY <1>3 DEF NullSubject, Answers
<1>4. CASE FastPath
  BY <1>4 DEF FastPath, Answers
<1>5. CASE StartGeneral
  <2>1. phase # "idle" /\ UNCHANGED <<answer, subject>>
    BY <1>5 DEF StartGeneral, source
  <2>2. phase' \in {"finish", "percent"} /\ (phase' = "finish" => CharAt(subject, spot') = NulChar)
    BY <1>5 DEF StartGeneral, Approach
  <2> QED BY <2>1, <2>2
<1>6. CASE LiteralRun
  <2>1. phase # "idle" /\ UNCHANGED <<answer, subject>>
    BY <1>6 DEF LiteralRun, source
  <2>2. phase' \in {"finish", "percent"} /\ (phase' = "finish" => CharAt(subject, spot') = NulChar)
    BY <1>6 DEF LiteralRun, Approach
  <2> QED BY <2>1, <2>2
<1>7. CASE PercentRun
  <2>1. phase = "percent" /\ UNCHANGED <<answer, subject>>
    BY <1>7 DEF PercentRun, source
  <2> DEFINE last == LastOf(spot)
             s == Search(last + 1)
  <2>2. /\ spot' = last /\ stop' = s
        /\ phase' = IF CharAt(subject, s) = Percent THEN "query" ELSE "literal"
    BY <1>7 DEF PercentRun, LastOf
  <2>3. /\ CharAt(subject, last) = Percent /\ last + 1 \in 0..Len(subject)
        /\ s = StopFrom(subject, last + 1)
        /\ CharAt(subject, s) = Percent => s >= last + 2
    BY <2>1, RunFinds
  <2> HIDE DEF last, s
  <2> QED BY <2>1, <2>2, <2>3
<1>8. CASE Lookup
  <2>1. phase = "query" /\ UNCHANGED <<answer, subject, stop>>
    BY <1>8 DEF Lookup, source
  <2>2. \/ phase' = "main"
        \/ phase' = "literal" /\ UNCHANGED spot
    BY <1>8 DEF Lookup
  <2> QED BY <2>1, <2>2
<1>9. CASE CopyLiteral
  <2>1. phase = "literal" /\ UNCHANGED <<answer, subject>>
    BY <1>9 DEF CopyLiteral, source
  <2>2. phase' \in {"finish", "percent"} /\ (phase' = "finish" => CharAt(subject, spot') = NulChar)
    BY <1>9 DEF CopyLiteral
  <2> QED BY <2>1, <2>2
<1>10. CASE Finish
  BY <1>10 DEF Finish, Answers
<1> QED BY <1>1, <1>2, <1>3, <1>4, <1>5, <1>6, <1>7, <1>8, <1>9, <1>10 DEF ExpandNext, ExpandStep
-----------------------------------------------------------------------------
Contract ==
  Reference!Change \/ Reference!Ask \/ Reference!Copy \/ Reference!LookUp \/ Reference!End

(* The name at spot has just been refused.                                 *)
Refused == phase = "literal" /\ CharAt(subject, stop) = Percent

(* Characters that no name begins in are one step of the reference, none   *)
(* of them no step.                                                        *)
LEMMA CopyStep ==
  ASSUME IInv, answer = Pending, NEW j \in spot..Len(subject),
         \A x \in spot..(j - 1) : ~IsName(subject, x) \/ (x = spot /\ Refused),
         j = spot => ~Refused,
         to' = Emit(to, spot, j), spot' = j, ~Refused', UNCHANGED <<env, subject, answer>>
  PROVE  [Contract]_(Reference!vars)
<1> USE DEF IInv
<1>1. subject \in Text /\ Len(subject) \in Nat /\ spot \in Nat /\ to \in Destination
  BY GivenIs DEF Moving, Filled, Holds
<1>2. CASE j = spot
  <2>1. Chars(spot, j) = <<>>
    <3>1. spot \in 0..Len(subject) /\ spot <= spot /\ spot - spot = 0
      BY <1>1 DEF Moving
    <3>2. Chars(spot, j) \in Text /\ Len(Chars(spot, j)) = 0
      BY <1>1, <1>2, <3>1, SubSeqIs DEF Chars
    <3> QED BY <3>2, EmptySeq DEF Text
  <2>2. to' = to
    BY <1>1, <2>1, EmittedNothing DEF Emit
  <2>3. UNCHANGED (phase = "literal" /\ CharAt(subject, stop) = Percent)
    BY <1>2 DEF Refused
  <2> QED BY <1>2, <2>2, <2>3 DEF Reference!vars
<1>3. CASE j # spot
  <2> DEFINE k == j - spot
  <2>1. k \in 1..(Len(subject) - spot) /\ spot + k = j /\ spot + k - 1 = j - 1
    BY <1>1, <1>3
  <2> HIDE DEF k
  <2>2. Reference!Literal(spot, k)
    <3>1. \A x \in spot..(spot + k - 1) : ~IsName(subject, x) \/ (x = spot /\ Refused)
      BY <2>1
    <3> QED BY <3>1, SameOperators DEF Reference!Literal, Refused
  <2>3. to' = Reference!Emitted(to, SubSeq(subject, spot + 1, spot + k))
    BY <2>1, SameOperators DEF Emit, Chars
  <2>4. (phase = "literal" /\ CharAt(subject, stop) = Percent)' = FALSE
    BY DEF Refused
  <2> QED BY <2>1, <2>2, <2>3, <2>4 DEF Reference!Copy, Contract
<1> QED BY <1>2, <1>3

LEMMA EndStep ==
  ASSUME IInv, answer = Pending,
         \A x \in spot..(Len(subject) - 1) : ~IsName(subject, x), ~Refused,
         to' = Ended(Emit(to, spot, Len(subject))), answer' = to'.made + 1,
         spot' = Len(subject), phase' = "idle", UNCHANGED <<env, subject>>
  PROVE  Contract
<1> USE DEF IInv
<1>1. Len(subject) \in Nat /\ spot \in Nat
  BY GivenIs DEF Moving
<1>2. spot + (Len(subject) - spot) - 1 = Len(subject) - 1
  BY <1>1
<1>3. Reference!Literal(spot, Len(subject) - spot)
  BY <1>2, SameOperators DEF Reference!Literal
<1>4. to' = Reference!Ended(Reference!Emitted(to, SubSeq(subject, spot + 1, Len(subject))))
  BY SameOperators DEF Emit, Chars
<1>5. (phase = "literal" /\ CharAt(subject, stop) = Percent)' = FALSE
  OBVIOUS
<1> QED BY <1>3, <1>4, <1>5 DEF Reference!End, Contract

LEMMA RefinesInit ==
  ExpandInit => Reference!Init
BY DEF ExpandInit, Reference!Init

LEMMA RefinesSetVariable ==
  SetVariable => Contract
<1> SUFFICES ASSUME SetVariable
             PROVE  Contract
  OBVIOUS
<1>1. env' # env /\ UNCHANGED <<subject, to, spot, phase, stop, answer>>
  BY DEF SetVariable, source
<1> QED BY <1>1 DEF Contract, Reference!Change, Reference!call

LEMMA RefinesCallExpand ==
  IInv /\ CallExpand => Contract
<1> SUFFICES ASSUME IInv, CallExpand
             PROVE  Contract
  OBVIOUS
<1>1. /\ answer # Pending /\ answer' = Pending /\ UNCHANGED <<env, subject>>
      /\ to' = Fresh(Clean, nsize') /\ spot' = 0 /\ phase' = "entry"
  BY ExpandAssumption DEF CallExpand, IInv, Answered
<1>2. to' = Reference!Fresh(to'.cells, to'.free)
  <2>1. to'.cells = Clean /\ to'.free = nsize'
    BY <1>1 DEF Fresh
  <2> QED BY <1>1, <2>1, SameOperators
<1>3. (phase = "literal" /\ CharAt(subject, stop) = Percent)' = FALSE
  BY <1>1
<1> QED BY <1>1, <1>2, <1>3 DEF Reference!Ask, Contract

LEMMA RefinesNullSubject ==
  IInv /\ Found /\ NullSubject => Contract
<1> SUFFICES ASSUME IInv, Found, NullSubject
             PROVE  Contract
  OBVIOUS
<1>1. /\ phase = "entry" /\ subject = <<>> /\ to' = Ended(to) /\ answer' = 1 /\ phase' = "idle"
      /\ UNCHANGED <<env, subject, spot>>
  BY DEF NullSubject, Answers, source
<1>2. spot = 0 /\ Len(subject) = 0 /\ to = Fresh(Clean, nsize) /\ to \in Destination
  BY <1>1 DEF IInv, Placed, Filled, Holds
<1>3. Emit(to, spot, Len(subject)) = to
  <2>1. Chars(0, 0) = <<>>
    <3>1. 0 \in 0..Len(subject) /\ subject \in Text /\ 0 - 0 = 0
      BY <1>2, GivenIs DEF IInv
    <3>2. Chars(0, 0) \in Text /\ Len(Chars(0, 0)) = 0
      BY <3>1, SubSeqIs DEF Chars
    <3> QED BY <3>2, EmptySeq DEF Text
  <2> QED BY <1>2, <2>1, EmittedNothing DEF Emit
<1>4. answer' = to'.made + 1
  BY <1>1, <1>2 DEF Ended, Fresh
<1>5. answer = Pending /\ ~Refused
  BY <1>1 DEF Found, Refused
<1>6. \A x \in spot..(Len(subject) - 1) : ~IsName(subject, x)
  BY <1>2
<1> QED BY <1>1, <1>2, <1>3, <1>4, <1>5, <1>6, EndStep

LEMMA RefinesFastPath ==
  IInv /\ Found /\ FastPath => Contract
<1> SUFFICES ASSUME IInv, Found, FastPath
             PROVE  Contract
  OBVIOUS
<1>1. /\ phase = "entry" /\ StopFrom(subject, 0) = Len(subject)
      /\ to' = Fast(to, nsize, subject) /\ answer' = Len(subject) + 1
      /\ phase' = "idle" /\ spot' = Len(subject) /\ UNCHANGED <<env, subject>>
  BY DEF FastPath, Fast, Answers, source
<1>2. spot = 0 /\ to = Fresh(Clean, nsize) /\ subject \in Text /\ nsize \in 0..Room /\ Len(subject) \in Nat
  BY <1>1, GivenIs DEF IInv, Placed
<1>3. to' = Ended(Emit(to, spot, Len(subject)))
  <2>1. Chars(0, Len(subject)) = subject
    BY <1>2 DEF Chars, Text
  <2> QED BY <1>1, <1>2, <2>1, FastIsEnded DEF Emit
<1>4. answer' = to'.made + 1
  BY <1>1 DEF Fast
<1>5. answer = Pending /\ ~Refused
  BY <1>1 DEF Found, Refused
<1>6. \A x \in spot..(Len(subject) - 1) : ~IsName(subject, x)
  <2>1. 0 \in 0..Len(subject)
    BY <1>2
  <2> QED BY <1>1, <1>2, <2>1, NoNameHere
<1> QED BY <1>1, <1>3, <1>4, <1>5, <1>6, EndStep

(* A run of literals up to the stop that the reference would find.         *)
LEMMA RefinesApproach ==
  ASSUME IInv, Found, phase \in {"entry", "main"}, Approach(StopFrom(subject, spot)),
         UNCHANGED <<env, source, stop, answer>>
  PROVE  [Contract]_(Reference!vars)
<1> DEFINE s == StopFrom(subject, spot)
<1>1. subject \in Text /\ spot \in 0..Len(subject)
  BY GivenIs DEF IInv, Moving
<1>2. s \in spot..Len(subject) /\ \A x \in spot..(s - 1) : ~IsName(subject, x)
  BY <1>1, StopFromIs, NoNameHere
<1> HIDE DEF s
<1>3. to' = Emit(to, spot, s) /\ spot' = s /\ phase' \in {"finish", "percent"}
  BY DEF Approach, s
<1>4. ~Refused /\ ~Refused' /\ answer = Pending /\ UNCHANGED <<env, subject, answer>>
  BY <1>3 DEF Refused, Found, source
<1> QED BY <1>2, <1>3, <1>4, CopyStep

LEMMA RefinesStartGeneral ==
  IInv /\ Found /\ StartGeneral => [Contract]_(Reference!vars)
<1> SUFFICES ASSUME IInv, Found, StartGeneral
             PROVE  [Contract]_(Reference!vars)
  OBVIOUS
<1>1. /\ phase = "entry" /\ Approach(StopFrom(subject, 0))
      /\ UNCHANGED <<env, source, stop, answer>>
  BY DEF StartGeneral
<1>2. spot = 0
  BY <1>1 DEF IInv, Placed
<1> QED BY <1>1, <1>2, RefinesApproach

LEMMA RefinesLiteralRun ==
  IInv /\ Found /\ LiteralRun => [Contract]_(Reference!vars)
<1> SUFFICES ASSUME IInv, Found, LiteralRun
             PROVE  [Contract]_(Reference!vars)
  OBVIOUS
<1>1. phase = "main" /\ Approach(Search(spot)) /\ UNCHANGED <<env, source, stop, answer>>
  BY DEF LiteralRun
<1>2. Search(spot) = StopFrom(subject, spot)
  <2>1. subject \in Text /\ align \in Aligns /\ Kept /\ spot \in 0..Len(subject)
    BY GivenIs DEF IInv, Given, Moving
  <2> QED BY <2>1, SearchIsStopFrom
<1> QED BY <1>1, <1>2, RefinesApproach

LEMMA RefinesPercentRun ==
  IInv /\ Found /\ PercentRun => [Contract]_(Reference!vars)
<1> SUFFICES ASSUME IInv, Found, PercentRun
             PROVE  [Contract]_(Reference!vars)
  OBVIOUS
<1> DEFINE last == LastOf(spot)
           s == Search(last + 1)
<1>1. /\ phase = "percent" /\ UNCHANGED <<env, subject, answer>>
      /\ to' = Emit(to, spot, last) /\ spot' = last /\ stop' = s
      /\ phase' = IF CharAt(subject, s) = Percent THEN "query" ELSE "literal"
  BY DEF PercentRun, LastOf, source
<1>2. /\ last \in spot..(Len(subject) - 1) /\ spot \in Nat
      /\ \A x \in spot..(last - 1) : ~IsName(subject, x)
  BY <1>1, RunFinds
<1> HIDE DEF last, s
<1>3. last \in spot..Len(subject)
  BY <1>2, GivenIs DEF IInv
<1>4. answer = Pending /\ ~Refused /\ ~Refused'
  BY <1>1 DEF Found, Refused
<1> QED BY <1>1, <1>2, <1>3, <1>4, CopyStep

LEMMA RefinesLookup ==
  IInv /\ Found /\ Lookup => Contract
<1> SUFFICES ASSUME IInv, Found, Lookup
             PROVE  Contract
  OBVIOUS
<1> DEFINE name == Chars(spot + 1, stop)
<1>1. /\ phase = "query" /\ UNCHANGED <<env, subject, stop, answer>>
      /\ \/ /\ name \in DOMAIN env
            /\ to' = Substituted(to, env[name]) /\ spot' = stop + 1 /\ phase' = "main"
         \/ /\ name \notin DOMAIN env
            /\ phase' = "literal" /\ UNCHANGED <<to, spot>>
  BY DEF Lookup, IsSet, Told, Behind, source
<1>2. subject \in Text /\ Len(subject) \in Nat /\ spot \in Nat
  BY GivenIs DEF IInv, Moving
<1>3. /\ CharAt(subject, spot) = Percent /\ spot + 1 \in 0..Len(subject)
      /\ stop = StopFrom(subject, spot + 1) /\ stop >= spot + 2 /\ answer = Pending
  BY <1>1 DEF Found
<1>4. CharAt(subject, stop) = Percent /\ stop \in (spot + 1)..Len(subject)
  BY <1>1 DEF IInv, Placed
<1>5. stop < Len(subject) /\ stop \in Nat
  <2>1. stop \in Nat
    BY <1>2, <1>4
  <2> QED BY <1>2, <1>4, <2>1, TheEnd
<1>6. Reference!IsName(subject, spot)
  <2>1. spot + 1 < Len(subject) /\ stop \in (spot + 2)..(Len(subject) - 1)
    BY <1>2, <1>3, <1>4, <1>5
  <2>2. IsName(subject, spot)
    BY <1>3, <2>1 DEF IsName
  <2> QED BY <2>2, SameOperators
<1>7. Reference!NameAt(subject, spot) = name
  <2>1. spot + 1 + 1 = spot + 2
    BY <1>2
  <2>2. NameAt(subject, spot) = name
    BY <1>3, <2>1 DEF NameAt, Chars
  <2> QED BY <2>2, SameOperators
<1> HIDE DEF name
<1>8. (phase = "literal" /\ CharAt(subject, stop) = Percent) = FALSE
  BY <1>1
<1>9. CASE /\ name \in DOMAIN env
           /\ to' = Substituted(to, env[name]) /\ spot' = stop + 1 /\ phase' = "main"
  <2>1. (phase = "literal" /\ CharAt(subject, stop) = Percent)' = FALSE
    BY <1>9
  <2>2. spot' = Reference!StopFrom(subject, spot + 1) + 1
    BY <1>3, <1>9, SameOperators
  <2>3. to' = Reference!Substituted(to, env[name])
    BY <1>9, SameOperators
  <2>4. UNCHANGED (phase = "literal" /\ CharAt(subject, stop) = Percent)
    BY <1>8, <2>1
  <2> QED BY <1>1, <1>3, <1>6, <1>7, <1>8, <1>9, <2>2, <2>3, <2>4 DEF Reference!LookUp, Contract
<1>10. CASE /\ name \notin DOMAIN env
            /\ phase' = "literal" /\ UNCHANGED <<to, spot>>
  <2>1. (phase = "literal" /\ CharAt(subject, stop) = Percent)' = TRUE
    BY <1>1, <1>4, <1>10
  <2> QED BY <1>1, <1>3, <1>6, <1>7, <1>8, <1>10, <2>1 DEF Reference!LookUp, Contract
<1> QED BY <1>1, <1>9, <1>10

LEMMA RefinesCopyLiteral ==
  IInv /\ Found /\ CopyLiteral => [Contract]_(Reference!vars)
<1> SUFFICES ASSUME IInv, Found, CopyLiteral
             PROVE  [Contract]_(Reference!vars)
  OBVIOUS
<1>1. /\ phase = "literal" /\ UNCHANGED <<env, subject, stop, answer>>
      /\ to' = Emit(Emit(to, spot, spot + 1), spot + 1, stop)
      /\ spot' = stop /\ phase' \in {"finish", "percent"}
  BY DEF CopyLiteral, source
<1>2. subject \in Text /\ Len(subject) \in Nat /\ spot \in Nat /\ to \in Destination
  BY GivenIs DEF IInv, Moving, Filled, Holds
<1>3. /\ spot + 1 \in 0..Len(subject) /\ stop = StopFrom(subject, spot + 1) /\ answer = Pending
  BY <1>1 DEF Found
<1>4. stop \in (spot + 1)..Len(subject) /\ IsStop(subject, stop)
  BY <1>1 DEF IInv, Placed
<1>5. stop \in 0..Len(subject) /\ stop \in Nat /\ stop \in spot..Len(subject) /\ stop # spot
  BY <1>2, <1>4
<1>6. to' = Emit(to, spot, stop)
  <2>1. Chars(spot, spot + 1) \in Text
    <3>1. spot <= spot + 1
      BY <1>2
    <3> QED BY <1>2, <1>3, <3>1, SubSeqIs DEF Chars
  <2>2. Chars(spot + 1, stop) \in Text
    <3>1. spot + 1 \in Nat /\ spot + 1 <= stop
      BY <1>2, <1>4
    <3> QED BY <1>2, <1>5, <3>1, SubSeqIs DEF Chars
  <2>3. Chars(spot, spot + 1) \o Chars(spot + 1, stop) = Chars(spot, stop)
    <3>1. /\ spot + 1 \in 1..(Len(subject) + 1) /\ spot + 1 \in (spot + 1 - 1)..Len(subject)
          /\ stop \in (spot + 1)..Len(subject)
      BY <1>2, <1>3, <1>4
    <3> QED BY <1>2, <3>1, ConcatAdjacentSubSeq DEF Chars, Text
  <2> QED BY <1>1, <1>2, <2>1, <2>2, <2>3, EmittedTwice DEF Emit
<1>7. ASSUME NEW x \in spot..(stop - 1)
      PROVE  ~IsName(subject, x) \/ (x = spot /\ Refused)
  <2>1. CASE x = spot
    <3>1. CASE CharAt(subject, stop) = Percent
      BY <1>1, <2>1, <3>1 DEF Refused
    <3>2. CASE CharAt(subject, stop) # Percent
      <4>1. CharAt(subject, stop) = NulChar
        BY <1>2, <1>4, <1>5, <3>2, TheEnd
      <4>2. stop = Len(subject)
        BY <1>5, <4>1, NulIsTheEnd DEF IInv, Given
      <4>3. stop \notin (spot + 2)..(Len(subject) - 1)
        BY <1>2, <4>2
      <4> QED BY <1>3, <2>1, <4>3 DEF IsName
    <3> QED BY <3>1, <3>2
  <2>2. CASE x # spot
    <3>1. x \in (spot + 1)..(stop - 1)
      BY <1>2, <1>5, <2>2
    <3> QED BY <1>2, <1>3, <3>1, NoNameHere
  <2> QED BY <2>1, <2>2
<1>8. ~Refused'
  BY <1>1 DEF Refused
<1> QED BY <1>1, <1>3, <1>5, <1>6, <1>7, <1>8, CopyStep

LEMMA RefinesFinish ==
  IInv /\ Found /\ Finish => Contract
<1> SUFFICES ASSUME IInv, Found, Finish
             PROVE  Contract
  OBVIOUS
<1>1. /\ phase = "finish" /\ to' = Ended(to) /\ answer' = to.made + 1 /\ phase' = "idle"
      /\ UNCHANGED <<env, subject, spot>>
  BY DEF Finish, Answers, source
<1>2. subject \in Text /\ Len(subject) \in Nat /\ spot \in 0..Len(subject) /\ to \in Destination
  BY GivenIs DEF IInv, Moving, Filled, Holds
<1>3. spot = Len(subject) /\ answer = Pending /\ ~Refused
  BY <1>1, <1>2, NulIsTheEnd DEF Found, IInv, Given, Refused
<1>4. Emit(to, spot, Len(subject)) = to
  <2>1. spot \in Nat /\ spot <= spot /\ spot - spot = 0
    BY <1>2
  <2>2. Chars(spot, spot) \in Text /\ Len(Chars(spot, spot)) = 0
    BY <1>2, <2>1, SubSeqIs DEF Chars
  <2>3. Chars(spot, spot) = <<>>
    BY <2>2, EmptySeq DEF Text
  <2> QED BY <1>2, <1>3, <2>3, EmittedNothing DEF Emit
<1>5. answer' = to'.made + 1
  BY <1>1, <1>2 DEF Ended, Destination
<1>6. \A x \in spot..(Len(subject) - 1) : ~IsName(subject, x)
  BY <1>2, <1>3
<1> QED BY <1>1, <1>3, <1>4, <1>5, <1>6, EndStep

LEMMA RefinesStep ==
  IInv /\ Found /\ [ExpandNext]_expandVars => [Contract]_(Reference!vars)
<1>1. UNCHANGED expandVars => UNCHANGED Reference!vars
  BY DEF expandVars, source, Reference!vars
<1>2. NoMoreCalls => UNCHANGED Reference!vars
  BY <1>1 DEF NoMoreCalls
<1> QED BY <1>1, <1>2, RefinesSetVariable, RefinesCallExpand, RefinesNullSubject, RefinesFastPath,
           RefinesStartGeneral, RefinesLiteralRun, RefinesPercentRun, RefinesLookup,
           RefinesCopyLiteral, RefinesFinish DEF ExpandNext, ExpandStep
-----------------------------------------------------------------------------
(* A call that works block by block, with a mask kept in registers across  *)
(* its steps, does what reference.c does: the same lookups in the same     *)
(* environments, the same cells and the same answer, for every width of    *)
(* the registers and every place of the source in a block.                 *)
THEOREM ExpandFollowsReference == ExpandSpec => Reference!Spec
<1>1. ExpandSpec => []Found
  BY FoundInit, FoundStep, InvHolds, PTL DEF ExpandSpec
<1> QED BY <1>1, InvHolds, RefinesInit, RefinesStep, PTL DEF ExpandSpec, Reference!Spec, Contract
-----------------------------------------------------------------------------
(***************************************************************************)
(* An answer does not depend on the size of the destination.  What a call  *)
(* counts is a walk through the subject, which the subject and the         *)
(* environment determine alone: a call that nobody disturbs walks as far   *)
(* as every other one, and has counted as much on the way.                 *)
(***************************************************************************)

(* A place on the walk: what to do next, where, and what is counted.       *)
Stopped(s, j, k) == <<IF CharAt(s, j) = NulChar THEN "finish" ELSE "percent", j, k>>
RunEnd(s, i)     == Nearest({x \in i..Len(s) : CharAt(s, x + 1) # Percent})

Onward(s, e, i, k) ==
  [main    |-> Stopped(s, StopFrom(s, i), k + (StopFrom(s, i) - i)),
   percent |-> <<IF CharAt(s, StopFrom(s, RunEnd(s, i) + 1)) = Percent THEN "query" ELSE "literal",
                 RunEnd(s, i), k + (RunEnd(s, i) - i)>>,
   query   |-> IF SubSeq(s, i + 2, StopFrom(s, i + 1)) \in DOMAIN e
               THEN <<"main", StopFrom(s, i + 1) + 1,
                      k + Len(e[SubSeq(s, i + 2, StopFrom(s, i + 1))])>>
               ELSE <<"literal", i, k>>,
   literal |-> Stopped(s, StopFrom(s, i + 1), k + (StopFrom(s, i + 1) - i))]

After(s, e, p) == Onward(s, e, p[2], p[3])[p[1]]

Walk(s, e, w, n) ==
  /\ w[0] = <<"main", 0, 0>>
  /\ \A i \in 0..(n - 1) : w[i][1] # "finish" /\ w[i + 1] = After(s, e, w[i])

Comes(s, e, p) == \E n \in Nat : \E w : Walk(s, e, w, n) /\ w[n] = p

LEMMA WalkBegins ==
  ASSUME NEW s, NEW e
  PROVE  Comes(s, e, <<"main", 0, 0>>)
<1> DEFINE w == [i \in {0} |-> <<"main", 0, 0>>]
<1>1. w[0] = <<"main", 0, 0>> /\ \A i \in 0..(0 - 1) : FALSE
  OBVIOUS
<1> HIDE DEF w
<1>2. Walk(s, e, w, 0)
  BY <1>1 DEF Walk
<1> QED BY <1>1, <1>2 DEF Comes

LEMMA WalkGoesOn ==
  ASSUME NEW s, NEW e, NEW p, Comes(s, e, p), p[1] # "finish"
  PROVE  Comes(s, e, After(s, e, p))
<1>1. PICK n \in Nat : \E w : Walk(s, e, w, n) /\ w[n] = p
  BY DEF Comes
<1>2. PICK w : Walk(s, e, w, n) /\ w[n] = p
  BY <1>1
<1>3. PICK q : q = After(s, e, p)
  OBVIOUS
<1> DEFINE v == [i \in 0..(n + 1) |-> IF i = n + 1 THEN q ELSE w[i]]
<1>4. v[n + 1] = q /\ \A i \in 0..n : v[i] = w[i]
  BY <1>1
<1> HIDE DEF v
<1>5. v[0] = <<"main", 0, 0>>
  BY <1>1, <1>2, <1>4 DEF Walk
<1>6. ASSUME NEW i \in 0..(n + 1 - 1)
      PROVE  v[i][1] # "finish" /\ v[i + 1] = After(s, e, v[i])
  <2>1. CASE i = n
    BY <1>2, <1>3, <1>4, <2>1
  <2>2. CASE i # n
    <3>1. i \in 0..(n - 1) /\ i \in 0..n /\ i + 1 \in 0..n
      BY <1>1, <2>2
    <3>2. w[i][1] # "finish" /\ w[i + 1] = After(s, e, w[i])
      BY <1>2, <3>1 DEF Walk
    <3> QED BY <1>4, <3>1, <3>2
  <2> QED BY <2>1, <2>2
<1>7. Walk(s, e, v, n + 1) /\ v[n + 1] = q /\ n + 1 \in Nat
  BY <1>1, <1>4, <1>5, <1>6 DEF Walk
<1> QED BY <1>3, <1>7 DEF Comes

(* Two walks agree as long as both last.                                   *)
LEMMA WalksAgree ==
  ASSUME NEW s, NEW e, NEW w, NEW v, NEW n \in Nat, NEW m \in Nat,
         Walk(s, e, w, n), Walk(s, e, v, m)
  PROVE  \A i \in Nat : i <= n /\ i <= m => w[i] = v[i]
<1> DEFINE S == {i \in Nat : i <= n /\ i <= m /\ w[i] # v[i]}
<1>1. ASSUME S # {}
      PROVE  FALSE
  <2>1. S \in SUBSET Nat
    OBVIOUS
  <2>2. PICK i : i = Nearest(S)
    OBVIOUS
  <2>3. i \in S /\ \A y \in S : i <= y
    BY <1>1, <2>1, <2>2, NearestIs
  <2>4. i # 0
    BY <2>3 DEF Walk
  <2>5. i \in Nat /\ i <= n /\ i <= m /\ w[i] # v[i]
    BY <2>3
  <2>6. i - 1 \in Nat /\ i - 1 <= n /\ i - 1 <= m /\ ~(i <= i - 1) /\ i - 1 + 1 = i
        /\ i - 1 \in 0..(n - 1) /\ i - 1 \in 0..(m - 1)
    BY <2>4, <2>5
  <2>7. w[i - 1] = v[i - 1]
    BY <2>3, <2>6
  <2>8. w[i - 1 + 1] = After(s, e, w[i - 1]) /\ v[i - 1 + 1] = After(s, e, v[i - 1])
    BY <2>6 DEF Walk
  <2> QED BY <2>5, <2>6, <2>7, <2>8
<1> QED BY <1>1

(* There is one end.                                                       *)
LEMMA OneEnd ==
  ASSUME NEW s, NEW e, NEW p, NEW q, Comes(s, e, p), Comes(s, e, q),
         p[1] = "finish", q[1] = "finish"
  PROVE  p = q
<1>1. PICK n \in Nat : \E w : Walk(s, e, w, n) /\ w[n] = p
  BY DEF Comes
<1>2. PICK w : Walk(s, e, w, n) /\ w[n] = p
  BY <1>1
<1>3. PICK m \in Nat : \E v : Walk(s, e, v, m) /\ v[m] = q
  BY DEF Comes
<1>4. PICK v : Walk(s, e, v, m) /\ v[m] = q
  BY <1>3
<1>5. \A i \in Nat : i <= n /\ i <= m => w[i] = v[i]
  BY <1>1, <1>2, <1>3, <1>4, WalksAgree
<1>6. CASE n < m
  <2>1. n \in 0..(m - 1) /\ n <= n /\ n <= m
    BY <1>1, <1>3, <1>6
  <2>2. v[n][1] # "finish" /\ w[n] = v[n]
    BY <1>1, <1>4, <1>5, <2>1 DEF Walk
  <2> QED BY <1>2, <2>2
<1>7. CASE m < n
  <2>1. m \in 0..(n - 1) /\ m <= n /\ m <= m
    BY <1>1, <1>3, <1>7
  <2>2. w[m][1] # "finish" /\ w[m] = v[m]
    BY <1>2, <1>3, <1>5, <2>1 DEF Walk
  <2> QED BY <1>4, <2>2
<1>8. CASE n = m
  <2>1. w[n] = v[n]
    BY <1>1, <1>5, <1>8
  <2> QED BY <1>2, <1>4, <1>8, <2>1
<1> QED BY <1>1, <1>3, <1>6, <1>7, <1>8

(* A call that nobody disturbs is on the walk; the last one's answer, and  *)
(* what it promises for this call, are what the end of the walk counts.    *)
Repeats ==
  /\ calm /\ phase \notin {"idle", "entry"} => Comes(subject, env, <<phase, spot, Len(whole)>>)
  /\ calm /\ phase = "idle" => Comes(subject, env, <<"finish", Len(subject), answer - 1>>)
  /\ expected # None =>
       calm /\ Comes(subject, env, <<"finish", Len(subject), expected - 1>>)

LEMMA LiteralsCount ==
  ASSUME Given, Filled, NEW i \in Nat, NEW j \in 0..Len(subject), i <= j
  PROVE  Len(whole \o Chars(i, j)) = Len(whole) + (j - i)
<1>1. Chars(i, j) \in Text /\ Len(Chars(i, j)) = j - i
  BY GivenIs, SubSeqIs DEF Chars
<1> QED BY <1>1, JoinIs DEF Filled

(* A step that goes on along the walk keeps the call on it.                *)
LEMMA OnTheWalk ==
  ASSUME Repeats, UNCHANGED <<env, source, history>>, NEW p, Comes(subject, env, p) \/ ~calm,
         p[1] # "finish", phase' \notin {"idle", "entry"},
         <<phase', spot', Len(whole')>> = After(subject, env, p)
  PROVE  Repeats'
<1>1. UNCHANGED <<env, subject, calm, expected>>
  BY DEF source, history
<1>2. calm => Comes(subject, env, <<phase', spot', Len(whole')>>)
  BY WalkGoesOn
<1> QED BY <1>1, <1>2 DEF Repeats

(* One that ends the walk gives the answer that it has counted.            *)
LEMMA AtTheEnd ==
  ASSUME Repeats, UNCHANGED <<env, source, history>>, NEW k,
         Comes(subject, env, <<"finish", Len(subject), k>>) \/ ~calm,
         phase' = "idle", answer' - 1 = k
  PROVE  Repeats'
<1>1. UNCHANGED <<env, subject, calm, expected>>
  BY DEF source, history
<1> QED BY <1>1 DEF Repeats

(* Without anything to expand the walk ends where it begins.               *)
LEMMA OnlyLiterals ==
  ASSUME Given, StopFrom(subject, 0) = Len(subject)
  PROVE  Comes(subject, env, <<"finish", Len(subject), Len(subject)>>)
<1>1. Len(subject) \in Nat /\ subject \in Text
  BY GivenIs
<1>2. CharAt(subject, Len(subject)) = NulChar
  BY <1>1, TheEnd
<1>3. After(subject, env, <<"main", 0, 0>>) = <<"finish", Len(subject), 0 + (Len(subject) - 0)>>
  BY <1>2 DEF After, Onward, Stopped
<1>4. 0 + (Len(subject) - 0) = Len(subject)
  BY <1>1
<1> QED BY <1>3, <1>4, WalkBegins, WalkGoesOn

LEMMA RepeatsSetVariable ==
  Repeats /\ SetVariable => Repeats'
BY DEF Repeats, SetVariable

LEMMA RepeatsCallExpand ==
  Repeats /\ CallExpand => Repeats'
<1> SUFFICES ASSUME Repeats, CallExpand
             PROVE  Repeats'
  OBVIOUS
<1>1. /\ phase = "idle" /\ phase' = "entry" /\ calm' = TRUE
      /\ expected' = IF calm THEN answer ELSE None
      /\ UNCHANGED <<env, subject>>
  BY DEF CallExpand
<1>2. CASE calm
  BY <1>1, <1>2 DEF Repeats
<1>3. CASE ~calm
  BY <1>1, <1>3 DEF Repeats
<1> QED BY <1>2, <1>3

LEMMA RepeatsNullSubject ==
  IInv /\ Repeats /\ NullSubject => Repeats'
<1> SUFFICES ASSUME IInv, Repeats, NullSubject
             PROVE  Repeats'
  OBVIOUS
<1>1. /\ subject = <<>> /\ answer' = 1 /\ phase' = "idle" /\ UNCHANGED <<env, source, history>>
  BY DEF NullSubject, Answers
<1>2. Len(subject) = 0 /\ subject \in Text /\ 0 \in 0..Len(subject)
  BY <1>1, GivenIs DEF IInv
<1>3. StopFrom(subject, 0) = Len(subject)
  BY <1>2, StopFromIs
<1>4. Comes(subject, env, <<"finish", Len(subject), Len(subject)>>)
  BY <1>3, OnlyLiterals DEF IInv
<1> QED BY <1>1, <1>2, <1>4, AtTheEnd

LEMMA RepeatsFastPath ==
  IInv /\ Repeats /\ FastPath => Repeats'
<1> SUFFICES ASSUME IInv, Repeats, FastPath
             PROVE  Repeats'
  OBVIOUS
<1>1. /\ StopFrom(subject, 0) = Len(subject) /\ answer' = Len(subject) + 1 /\ phase' = "idle"
      /\ UNCHANGED <<env, source, history>>
  BY DEF FastPath, Answers
<1>2. Comes(subject, env, <<"finish", Len(subject), Len(subject)>>)
  BY <1>1, OnlyLiterals DEF IInv
<1>3. answer' - 1 = Len(subject)
  BY <1>1, GivenIs DEF IInv
<1> QED BY <1>1, <1>2, <1>3, AtTheEnd

LEMMA RepeatsApproach ==
  ASSUME IInv, Repeats, Approach(StopFrom(subject, spot)),
         Comes(subject, env, <<"main", spot, Len(whole)>>) \/ ~calm,
         UNCHANGED <<env, source, history>>
  PROVE  Repeats'
<1> DEFINE s == StopFrom(subject, spot)
<1>1. subject \in Text /\ Len(subject) \in Nat /\ spot \in 0..Len(subject) /\ spot \in Nat
  BY GivenIs DEF IInv, Moving
<1>2. s \in spot..Len(subject)
  BY <1>1, StopFromIs
<1>3. s \in 0..Len(subject) /\ spot <= s
  BY <1>1, <1>2
<1> HIDE DEF s
<1>4. Len(whole \o Chars(spot, s)) = Len(whole) + (s - spot)
  BY <1>1, <1>3, LiteralsCount DEF IInv
<1>5. /\ whole' = whole \o Chars(spot, s) /\ spot' = s
      /\ phase' = IF CharAt(subject, s) = NulChar THEN "finish" ELSE "percent"
  BY DEF Approach, Count, s
<1>6. <<phase', spot', Len(whole')>> = Stopped(subject, s, Len(whole) + (s - spot))
  BY <1>4, <1>5 DEF Stopped
<1>7. After(subject, env, <<"main", spot, Len(whole)>>) = Stopped(subject, s, Len(whole) + (s - spot))
  BY DEF After, Onward, s
<1>8. phase' \notin {"idle", "entry"}
  BY <1>5
<1> QED BY <1>6, <1>7, <1>8, OnTheWalk

LEMMA RepeatsStartGeneral ==
  IInv /\ Repeats /\ StartGeneral => Repeats'
<1> SUFFICES ASSUME IInv, Repeats, StartGeneral
             PROVE  Repeats'
  OBVIOUS
<1>1. /\ phase = "entry" /\ Approach(StopFrom(subject, 0)) /\ UNCHANGED <<env, source, history>>
  BY DEF StartGeneral
<1>2. spot = 0 /\ whole = <<>>
  BY <1>1 DEF IInv, Placed
<1>3. Len(whole) = 0
  BY <1>2
<1> QED BY <1>1, <1>2, <1>3, WalkBegins, RepeatsApproach

LEMMA RepeatsLiteralRun ==
  IInv /\ Repeats /\ LiteralRun => Repeats'
<1> SUFFICES ASSUME IInv, Repeats, LiteralRun
             PROVE  Repeats'
  OBVIOUS
<1>1. phase = "main" /\ Approach(Search(spot)) /\ UNCHANGED <<env, source, history>>
  BY DEF LiteralRun
<1>2. Search(spot) = StopFrom(subject, spot)
  <2>1. subject \in Text /\ align \in Aligns /\ Kept /\ spot \in 0..Len(subject)
    BY GivenIs DEF IInv, Given, Moving
  <2> QED BY <2>1, SearchIsStopFrom
<1>3. Comes(subject, env, <<"main", spot, Len(whole)>>) \/ ~calm
  BY <1>1 DEF Repeats
<1> QED BY <1>1, <1>2, <1>3, RepeatsApproach

LEMMA RepeatsPercentRun ==
  IInv /\ Repeats /\ PercentRun => Repeats'
<1> SUFFICES ASSUME IInv, Repeats, PercentRun
             PROVE  Repeats'
  OBVIOUS
<1> DEFINE last == LastOf(spot)
           s == Search(last + 1)
<1>1. /\ phase = "percent" /\ UNCHANGED <<env, source, history>>
      /\ whole' = whole \o Chars(spot, last) /\ spot' = last
      /\ phase' = IF CharAt(subject, s) = Percent THEN "query" ELSE "literal"
  BY DEF PercentRun, LastOf, Count
<1>2. /\ last \in spot..(Len(subject) - 1) /\ spot \in Nat /\ s = StopFrom(subject, last + 1)
  BY <1>1, RunFinds
<1>3. last = RunEnd(subject, spot)
  BY DEF LastOf, RunEnd
<1> HIDE DEF last, s
<1>4. Len(whole \o Chars(spot, last)) = Len(whole) + (last - spot)
  <2>1. last \in 0..Len(subject) /\ spot <= last
    BY <1>2, GivenIs DEF IInv
  <2> QED BY <1>2, <2>1, LiteralsCount DEF IInv
<1>5. After(subject, env, <<"percent", spot, Len(whole)>>)
        = <<IF CharAt(subject, s) = Percent THEN "query" ELSE "literal", last, Len(whole) + (last - spot)>>
  BY <1>2, <1>3 DEF After, Onward
<1>6. <<phase', spot', Len(whole')>> = After(subject, env, <<"percent", spot, Len(whole)>>)
  BY <1>1, <1>4, <1>5
<1>7. Comes(subject, env, <<"percent", spot, Len(whole)>>) \/ ~calm
  BY <1>1 DEF Repeats
<1>8. phase' \notin {"idle", "entry"}
  BY <1>1
<1> QED BY <1>1, <1>6, <1>7, <1>8, OnTheWalk

LEMMA RepeatsLookup ==
  IInv /\ Repeats /\ Found /\ Lookup => Repeats'
<1> SUFFICES ASSUME IInv, Repeats, Found, Lookup
             PROVE  Repeats'
  OBVIOUS
<1> DEFINE name == Chars(spot + 1, stop)
<1>1. /\ phase = "query" /\ UNCHANGED <<env, source, history>>
      /\ \/ /\ name \in DOMAIN env /\ whole' = whole \o env[name]
            /\ spot' = stop + 1 /\ phase' = "main"
         \/ name \notin DOMAIN env /\ phase' = "literal" /\ UNCHANGED <<whole, spot>>
  BY DEF Lookup, IsSet, Behind
<1>2. stop = StopFrom(subject, spot + 1) /\ spot \in Nat
  BY <1>1, GivenIs DEF Found, IInv, Moving
<1>3. name = SubSeq(subject, spot + 2, StopFrom(subject, spot + 1))
  <2>1. spot + 1 + 1 = spot + 2
    BY <1>2
  <2> QED BY <1>2, <2>1 DEF Chars
<1> HIDE DEF name
<1>4. After(subject, env, <<"query", spot, Len(whole)>>)
        = IF name \in DOMAIN env THEN <<"main", stop + 1, Len(whole) + Len(env[name])>>
                                 ELSE <<"literal", spot, Len(whole)>>
  BY <1>2, <1>3 DEF After, Onward
<1>5. Comes(subject, env, <<"query", spot, Len(whole)>>) \/ ~calm
  BY <1>1 DEF Repeats
<1>6. <<phase', spot', Len(whole')>> = After(subject, env, <<"query", spot, Len(whole)>>)
  <2>1. CASE /\ name \in DOMAIN env /\ whole' = whole \o env[name]
             /\ spot' = stop + 1 /\ phase' = "main"
    <3>1. env[name] \in Text
      <4>1. PICK set \in SUBSET Names : env \in [set -> Values]
        BY DEF IInv, Given
      <4>2. env[name] \in Seq(STRING)
        BY <2>1, <4>1, ExpandAssumption
      <4> QED BY <4>2, GivenText
    <3>2. Len(whole \o env[name]) = Len(whole) + Len(env[name])
      BY <3>1, JoinIs DEF IInv, Filled
    <3> QED BY <1>4, <2>1, <3>2
  <2>2. CASE name \notin DOMAIN env /\ phase' = "literal" /\ UNCHANGED <<whole, spot>>
    BY <1>4, <2>2
  <2> QED BY <1>1, <2>1, <2>2
<1>7. phase' \notin {"idle", "entry"}
  BY <1>1
<1> QED BY <1>1, <1>5, <1>6, <1>7, OnTheWalk

LEMMA RepeatsCopyLiteral ==
  IInv /\ Repeats /\ Found /\ CopyLiteral => Repeats'
<1> SUFFICES ASSUME IInv, Repeats, Found, CopyLiteral
             PROVE  Repeats'
  OBVIOUS
<1>1. /\ phase = "literal" /\ UNCHANGED <<env, source, history>>
      /\ whole' = whole \o Chars(spot, stop) /\ spot' = stop
      /\ phase' = IF CharAt(subject, stop) = NulChar THEN "finish" ELSE "percent"
  BY DEF CopyLiteral, Count
<1>2. stop = StopFrom(subject, spot + 1) /\ stop \in (spot + 1)..Len(subject) /\ spot \in Nat
  BY <1>1, GivenIs DEF Found, IInv, Moving, Placed
<1>3. Len(whole \o Chars(spot, stop)) = Len(whole) + (stop - spot)
  <2>1. stop \in 0..Len(subject) /\ spot <= stop
    BY <1>2, GivenIs DEF IInv
  <2> QED BY <1>2, <2>1, LiteralsCount DEF IInv
<1>4. After(subject, env, <<"literal", spot, Len(whole)>>)
        = Stopped(subject, stop, Len(whole) + (stop - spot))
  BY <1>2 DEF After, Onward
<1>5. <<phase', spot', Len(whole')>> = After(subject, env, <<"literal", spot, Len(whole)>>)
  BY <1>1, <1>3, <1>4 DEF Stopped
<1>6. Comes(subject, env, <<"literal", spot, Len(whole)>>) \/ ~calm
  BY <1>1 DEF Repeats
<1>7. phase' \notin {"idle", "entry"}
  BY <1>1
<1> QED BY <1>1, <1>5, <1>6, <1>7, OnTheWalk

LEMMA RepeatsFinish ==
  IInv /\ Repeats /\ Found /\ Finish => Repeats'
<1> SUFFICES ASSUME IInv, Repeats, Found, Finish
             PROVE  Repeats'
  OBVIOUS
<1>1. /\ phase = "finish" /\ answer' = to.made + 1 /\ phase' = "idle"
      /\ UNCHANGED <<env, source, history>>
  BY DEF Finish, Answers
<1>2. spot = Len(subject)
  BY <1>1, NulIsTheEnd DEF Found, IInv, Given, Moving
<1>3. answer' - 1 = Len(whole)
  BY <1>1 DEF IInv, Filled, Holds, Text
<1>4. Comes(subject, env, <<"finish", Len(subject), Len(whole)>>) \/ ~calm
  BY <1>1, <1>2 DEF Repeats
<1> QED BY <1>1, <1>3, <1>4, AtTheEnd

LEMMA RepeatsStutter ==
  Repeats /\ UNCHANGED expandVars => Repeats'
BY DEF Repeats, expandVars, source, history

LEMMA RepeatsInit ==
  ExpandInit => Repeats
BY DEF ExpandInit, Repeats

LEMMA RepeatsStep ==
  IInv /\ Repeats /\ Found /\ [ExpandNext]_expandVars => Repeats'
<1>1. IInv /\ Repeats /\ Found /\ ExpandStep => Repeats'
  BY RepeatsNullSubject, RepeatsFastPath, RepeatsStartGeneral, RepeatsLiteralRun, RepeatsPercentRun,
     RepeatsLookup, RepeatsCopyLiteral, RepeatsFinish DEF ExpandStep
<1>2. Repeats /\ NoMoreCalls => Repeats'
  BY RepeatsStutter DEF NoMoreCalls
<1> QED BY <1>1, <1>2, RepeatsSetVariable, RepeatsCallExpand, RepeatsStutter DEF ExpandNext

(* Whoever measures first and then expands is answered the same thing      *)
(* twice, as long as nobody has set a variable since the first call began: *)
(* whatever the two sizes are, and whichever of the paths the calls take.  *)
THEOREM ExpandMeasures == ExpandSpec => []AnswerIgnoresSize
<1>1. IInv /\ Repeats => AnswerIgnoresSize
  <2> SUFFICES ASSUME IInv, Repeats, phase = "idle", expected # None
               PROVE  answer = expected
    BY DEF AnswerIgnoresSize
  <2>1. /\ Comes(subject, env, <<"finish", Len(subject), answer - 1>>)
        /\ Comes(subject, env, <<"finish", Len(subject), expected - 1>>)
    BY DEF Repeats
  <2>2. <<"finish", Len(subject), answer - 1>> = <<"finish", Len(subject), expected - 1>>
    BY <2>1, OneEnd
  <2>3. answer \in Nat /\ expected \in Nat
    BY DEF IInv, Answered, Given
  <2> QED BY <2>2, <2>3
<1>2. ExpandSpec => []Found
  BY FoundInit, FoundStep, InvHolds, PTL DEF ExpandSpec
<1>3. ExpandSpec => []Repeats
  BY <1>2, RepeatsInit, RepeatsStep, InvHolds, PTL DEF ExpandSpec
<1> QED BY <1>1, <1>3, InvHolds, PTL
-----------------------------------------------------------------------------
(* How far a call is from its end: every character left is worth more than *)
(* the steps that are taken at one spot.                                   *)
Rank ==
  [idle |-> 0, finish |-> 1, literal |-> 2, query |-> 3, percent |-> 4, main |-> 5, entry |-> 6]

Left == 8 * (Len(subject) - spot) + Rank[phase]

LEMMA RankIs ==
  /\ Rank["idle"] = 0 /\ Rank["finish"] = 1 /\ Rank["literal"] = 2 /\ Rank["query"] = 3
  /\ Rank["percent"] = 4 /\ Rank["main"] = 5 /\ Rank["entry"] = 6
BY DEF Rank

(* There is only so much left of a call.                                   *)
LEMMA LeftIs ==
  ASSUME IInv
  PROVE  Left \in 0..(8 * Len(subject) + 6)
<1>1. Rank[phase] \in 0..6
  BY RankIs DEF IInv, Moving
<1>2. spot \in 0..Len(subject) /\ Len(subject) \in Nat
  BY GivenIs DEF IInv, Moving
<1> QED BY <1>1, <1>2 DEF Left

(* A step that does not go back, to a place of a smaller rank, and one     *)
(* that goes on, to any place.                                             *)
LEMMA LeftFalls ==
  ASSUME IInv, IInv', UNCHANGED source,
         \/ spot' >= spot /\ Rank[phase'] < Rank[phase]
         \/ spot' > spot
  PROVE  Left' < Left
<1>1. Rank[phase] \in 0..6 /\ Rank[phase'] \in 0..6
  BY RankIs DEF IInv, Moving
<1>2. /\ spot \in 0..Len(subject) /\ Len(subject) \in Nat /\ spot' \in 0..Len(subject)
      /\ Len(subject') = Len(subject)
  BY GivenIs DEF IInv, Moving, source
<1>3. Left' = 8 * (Len(subject) - spot') + Rank[phase']
  BY <1>2 DEF Left, Rank
<1>4. Left = 8 * (Len(subject) - spot) + Rank[phase]
  BY DEF Left
<1> DEFINE m == Len(subject)
           q == spot
           r == Rank[phase]
           z == Rank[phase']
           y == spot'
<1>5. /\ r \in 0..6 /\ z \in 0..6 /\ q \in 0..m /\ m \in Nat /\ y \in 0..m
      /\ (y >= q /\ z < r) \/ y > q
      /\ Left = 8 * (m - q) + r /\ Left' = 8 * (m - y) + z
  BY <1>1, <1>2, <1>3, <1>4
<1> HIDE DEF m, q, r, z, y
<1> QED BY <1>5

LEMMA ApproachFalls ==
  ASSUME IInv, NEW s \in spot..Len(subject), IsStop(subject, s), Approach(s), UNCHANGED source
  PROVE  spot' >= spot /\ phase' \in {"percent", "finish"}
<1>1. spot \in Nat /\ Len(subject) \in Nat
  BY GivenIs DEF IInv, Moving
<1> QED BY <1>1 DEF Approach

LEMMA StepFalls ==
  ASSUME IInv, IInv', ExpandStep
  PROVE  Left' < Left
<1> USE DEF source
<1>0. spot \in 0..Len(subject) /\ Len(subject) \in Nat /\ spot \in Nat
  BY GivenIs DEF IInv, Moving
<1>1. CASE NullSubject
  BY <1>0, <1>1, RankIs, LeftFalls DEF NullSubject, Answers
<1>2. CASE FastPath
  BY <1>0, <1>2, RankIs, LeftFalls DEF FastPath, Answers
<1>3. CASE StartGeneral
  <2>1. phase = "entry" /\ spot = 0 /\ Approach(StopFrom(subject, 0)) /\ UNCHANGED source
    BY <1>3 DEF StartGeneral, IInv, Placed
  <2>2. StopFrom(subject, 0) \in spot..Len(subject) /\ IsStop(subject, StopFrom(subject, 0))
    BY <1>0, <2>1, GivenIs, StopFromIs DEF IInv
  <2>3. spot' >= spot /\ phase' \in {"percent", "finish"}
    BY <2>1, <2>2, ApproachFalls
  <2> QED BY <2>1, <2>3, RankIs, LeftFalls
<1>4. CASE LiteralRun
  <2>1. phase = "main" /\ Approach(Search(spot)) /\ UNCHANGED source
    BY <1>4 DEF LiteralRun
  <2>2. Search(spot) \in spot..Len(subject) /\ IsStop(subject, Search(spot))
    BY <1>0, GivenIs, SearchIs DEF IInv, Given
  <2>3. spot' >= spot /\ phase' \in {"percent", "finish"}
    BY <2>1, <2>2, ApproachFalls
  <2> QED BY <2>1, <2>3, RankIs, LeftFalls
<1>5. CASE PercentRun
  <2>1. /\ phase = "percent" /\ spot' = LastOf(spot) /\ phase' \in {"query", "literal"}
        /\ UNCHANGED source
    BY <1>5 DEF PercentRun, LastOf
  <2>2. LastOf(spot) \in spot..(Len(subject) - 1)
    BY <1>0, <2>1, GivenIs, LastIs DEF IInv, Placed
  <2> QED BY <1>0, <2>1, <2>2, RankIs, LeftFalls
<1>6. CASE Lookup
  <2>1. /\ phase = "query" /\ UNCHANGED source
        /\ (spot' = stop + 1 /\ phase' = "main") \/ (phase' = "literal" /\ spot' = spot)
    BY <1>6 DEF Lookup, Behind
  <2>2. stop \in (spot + 1)..Len(subject)
    BY <2>1 DEF IInv, Placed
  <2> QED BY <1>0, <2>1, <2>2, RankIs, LeftFalls
<1>7. CASE CopyLiteral
  <2>1. phase = "literal" /\ spot' = stop /\ UNCHANGED source
    BY <1>7 DEF CopyLiteral
  <2>2. stop \in (spot + 1)..Len(subject)
    BY <2>1 DEF IInv, Placed
  <2> QED BY <1>0, <2>1, <2>2, LeftFalls
<1>8. CASE Finish
  BY <1>0, <1>8, RankIs, LeftFalls DEF Finish, Answers
<1> QED BY <1>1, <1>2, <1>3, <1>4, <1>5, <1>6, <1>7, <1>8 DEF ExpandStep

(* Every step of a call brings it nearer to its end, whatever the other    *)
(* thread does between two steps: a variable that is set and removed again *)
(* cannot keep it going, and 8 * Len(subject) + 6 steps are enough.        *)
LeftIsFinite == Left \in 0..(8 * Len(subject) + 6)
StepsCount ==
  [][/\ ExpandStep => Left' < Left
     /\ SetVariable => Left' = Left]_expandVars
THEOREM ExpandEnds == ExpandSpec => []LeftIsFinite /\ StepsCount
<1>1. IInv => LeftIsFinite
  BY LeftIs DEF LeftIsFinite
<1>2. IInv /\ IInv' /\ [ExpandNext]_expandVars
      => [/\ ExpandStep => Left' < Left
          /\ SetVariable => Left' = Left]_expandVars
  BY StepFalls DEF SetVariable, source, Left, Rank
<1> QED BY <1>1, <1>2, InvHolds, PTL DEF ExpandSpec, StepsCount
=============================================================================
