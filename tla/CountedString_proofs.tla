------------------------ MODULE CountedString_proofs ------------------------
(***************************************************************************)
(* Whatever a client does with counted strings, call after call, no buffer *)
(* is overrun and the strings it keeps in whole characters are texts: for  *)
(* any number of strings, sizes of buffers, literals and width of a word.  *)
(***************************************************************************)
EXTENDS CountedString, SequenceTheorems, TLAPS

(* The buffers of the strings kept in whole characters are so themselves.  *)
Whole == \A s \in Owned \intersect Clean : MaxOf[s] % 2 = 0

LEMMA SizesAre ==
  /\ Word \in Nat /\ Word >= 4 /\ Word % 2 = 0 /\ Guard \in Nat /\ MaxCalls \in Nat
  /\ \A s \in Owned : MaxOf[s] \in Nat /\ MaxOf[s] <= Word - 1
  /\ 0 \in Byte /\ Junk \in Byte
  /\ \A c \in Char : c[1] \in Byte /\ c[2] \in Byte
BY StringsAssumption DEF Byte

-----------------------------------------------------------------------------
(* What a call leaves in a buffer: n bytes of v at offset at, and, when    *)
(* there are two bytes to spare, a NUL at offset e.                        *)
Stored(b, at, n, v, spare, e) ==
  IF spare >= 2 THEN WriteNul(StoreAt(b, at, n, v), e) ELSE StoreAt(b, at, n, v)

(* It stays in a buffer of the bytes 0..top.                               *)
Fits(top, b, at, n, v, spare, e) ==
  /\ top \in Int /\ at \in Nat /\ n \in Nat /\ spare \in Int /\ e \in Nat
  /\ b \in [0..top -> Byte] /\ \A x \in 0..(n - 1) : v[x] \in Byte
  /\ at + n <= top + 1 /\ (spare >= 2 => e + 2 <= top + 1)

IsStored(new, top, b, at, n, v, spare, e) ==
  /\ new \in [0..top -> Byte]
  /\ spare >= 2 => new[e] = 0 /\ new[e + 1] = 0
  /\ \A x \in 0..top :
       spare < 2 \/ x < e \/ x > e + 1 =>
         /\ at <= x /\ x < at + n => new[x] = v[x - at]
         /\ x < at \/ x >= at + n => new[x] = b[x]

LEMMA StoredIs ==
  ASSUME NEW top, NEW b, NEW at, NEW n, NEW v, NEW spare, NEW e, Fits(top, b, at, n, v, spare, e)
  PROVE  IsStored(Stored(b, at, n, v, spare, e), top, b, at, n, v, spare, e)
<1>0. /\ top \in Int /\ at \in Nat /\ n \in Nat /\ spare \in Int /\ e \in Nat
      /\ b \in [0..top -> Byte] /\ \A x \in 0..(n - 1) : v[x] \in Byte
  BY DEF Fits
<1> DEFINE copied == StoreAt(b, at, n, v)
<1>1. /\ copied \in [0..top -> Byte]
      /\ \A x \in 0..top : copied[x] = IF at <= x /\ x < at + n THEN v[x - at] ELSE b[x]
  <2>1. copied = [x \in 0..top |-> IF at <= x /\ x < at + n THEN v[x - at] ELSE b[x]]
    BY <1>0 DEF StoreAt
  <2>2. \A x \in 0..top : at <= x /\ x < at + n => x - at \in 0..(n - 1)
    BY <1>0
  <2> QED BY <1>0, <2>1, <2>2
<1> HIDE DEF copied
<1>2. /\ WriteNul(copied, e) \in [0..top -> Byte]
      /\ \A x \in 0..top : WriteNul(copied, e)[x] = IF x = e \/ x = e + 1 THEN 0 ELSE copied[x]
  <2>1. WriteNul(copied, e) = [x \in 0..top |-> IF e <= x /\ x < e + 2 THEN [j \in 0..1 |-> 0][x - e] ELSE copied[x]]
    BY <1>1 DEF WriteNul, StoreAt
  <2>2. \A x \in 0..top : (e <= x /\ x < e + 2 <=> x = e \/ x = e + 1)
                               /\ (e <= x /\ x < e + 2 => x - e \in 0..1)
    BY <1>0
  <2> QED BY <1>1, <2>1, <2>2, SizesAre
<1>3. Stored(b, at, n, v, spare, e) = IF spare >= 2 THEN WriteNul(copied, e) ELSE copied
  BY DEF Stored, copied
<1> DEFINE new == Stored(b, at, n, v, spare, e)
<1> HIDE DEF new
<1>4. new = IF spare >= 2 THEN WriteNul(copied, e) ELSE copied
  BY <1>3 DEF new
<1>5. new \in [0..top -> Byte]
  BY <1>1, <1>2, <1>4
<1>6. spare >= 2 => new[e] = 0 /\ new[e + 1] = 0
  <2>1. spare >= 2 => e \in 0..top /\ e + 1 \in 0..top
    BY <1>0 DEF Fits
  <2> QED BY <1>2, <1>4, <2>1
<1>7. ASSUME NEW x \in 0..top, spare < 2 \/ x < e \/ x > e + 1
      PROVE  new[x] = copied[x]
  <2>1. CASE spare < 2
    BY <1>0, <1>4, <2>1
  <2>2. CASE spare >= 2
    <3>1. ~(x = e \/ x = e + 1)
      BY <1>0, <1>7, <2>2
    <3> QED BY <1>2, <1>4, <2>2, <3>1
  <2> QED BY <1>0, <2>1, <2>2
<1>8. \A x \in 0..top :
        spare < 2 \/ x < e \/ x > e + 1 =>
          /\ at <= x /\ x < at + n => new[x] = v[x - at]
          /\ x < at \/ x >= at + n => new[x] = b[x]
  BY <1>0, <1>1, <1>7
<1> QED BY <1>5, <1>6, <1>8 DEF new, IsStored

LEMMA StoredBefore ==
  ASSUME NEW top, NEW b, NEW at, NEW n, NEW v, NEW spare, NEW e, Fits(top, b, at, n, v, spare, e),
         e <= at + n
  PROVE  \A x \in 0..(e - 1) :
           Stored(b, at, n, v, spare, e)[x] = IF x < at THEN b[x] ELSE v[x - at]
<1> DEFINE new == Stored(b, at, n, v, spare, e)
<1>1. \A x \in 0..top :
        spare < 2 \/ x < e \/ x > e + 1 =>
          /\ at <= x /\ x < at + n => new[x] = v[x - at]
          /\ x < at \/ x >= at + n => new[x] = b[x]
  BY StoredIs DEF IsStored
<1>2. /\ top \in Int /\ at \in Nat /\ n \in Nat /\ spare \in Int /\ e \in Nat
      /\ at + n <= top + 1
  BY DEF Fits
<1> HIDE DEF new
<1>3. ASSUME NEW x \in 0..(e - 1)
      PROVE  new[x] = IF x < at THEN b[x] ELSE v[x - at]
  <2>1. x \in 0..top /\ x < e /\ x < at + n
    BY <1>2
  <2>2. x < at => new[x] = b[x]
    BY <1>1, <2>1
  <2>3. ~(x < at) => new[x] = v[x - at]
    BY <1>1, <1>2, <2>1
  <2> QED BY <2>2, <2>3
<1> QED BY <1>3 DEF new

LEMMA LiteralIs ==
  ASSUME NEW lit \in Literals
  PROVE  /\ Len(lit) \in Nat /\ lit \in Seq(Char)
         /\ BytesOf(lit) \in [0..(2 * Len(lit) + 1) -> Byte]
         /\ \A k \in 0..(Len(lit) - 1) :
              <<BytesOf(lit)[2 * k], BytesOf(lit)[2 * k + 1]>> = lit[k + 1] /\ lit[k + 1] \in Char
<1>1. lit \in Seq(Char) /\ Len(lit) \in Nat /\ \A k \in 1..Len(lit) : lit[k] \in Char
  BY LiteralsAssumption
<1>2. BytesOf(lit) \in [0..(2 * Len(lit) + 1) -> Byte]
  <2>1. ASSUME NEW j \in 0..(2 * Len(lit) + 1), j < 2 * Len(lit)
        PROVE  lit[j \div 2 + 1][(j % 2) + 1] \in Byte
    <3>1. j \div 2 + 1 \in 1..Len(lit) /\ ((j % 2) + 1 = 1 \/ (j % 2) + 1 = 2)
      BY <1>1, <2>1
    <3> QED BY <1>1, <3>1, SizesAre
  <2> QED BY <2>1, SizesAre DEF BytesOf
<1>3. ASSUME NEW k \in 0..(Len(lit) - 1)
      PROVE  <<BytesOf(lit)[2 * k], BytesOf(lit)[2 * k + 1]>> = lit[k + 1] /\ lit[k + 1] \in Char
  <2>1. /\ 2 * k \in 0..(2 * Len(lit) + 1) /\ 2 * k < 2 * Len(lit)
        /\ 2 * k + 1 \in 0..(2 * Len(lit) + 1) /\ 2 * k + 1 < 2 * Len(lit)
        /\ (2 * k) \div 2 + 1 = k + 1 /\ ((2 * k) % 2) + 1 = 1
        /\ (2 * k + 1) \div 2 + 1 = k + 1 /\ ((2 * k + 1) % 2) + 1 = 2
        /\ k + 1 \in 1..Len(lit)
    BY <1>1
  <2>2. BytesOf(lit)[2 * k] = lit[k + 1][1] /\ BytesOf(lit)[2 * k + 1] = lit[k + 1][2]
    BY <2>1 DEF BytesOf
  <2>3. lit[k + 1] \in Char /\ lit[k + 1] = <<lit[k + 1][1], lit[k + 1][2]>>
    BY <1>1, <2>1, LiteralsAssumption
  <2> QED BY <2>2, <2>3
<1> QED BY <1>1, <1>2, <1>3
-----------------------------------------------------------------------------
Codes == {"none", "success", "too long", "too small", "fault"}
CharAt(b, k) == <<b[2 * k], b[2 * k + 1]>>

(* A string s whose Length is l, MaximumLength m and buffer b, and that a  *)
(* call has ended, e, or not.                                              *)
Good(s, l, m, b, e) ==
  /\ l \in Nat /\ m \in Nat /\ l <= m /\ m <= Word - 1 /\ e \in BOOLEAN
  /\ s \in Owned =>
       /\ m = MaxOf[s] /\ b \in [0..(MaxOf[s] + Guard - 1) -> Byte]
       /\ \A j \in MaxOf[s]..(MaxOf[s] + Guard - 1) : b[j] = Junk
  /\ s \in Views => \E size \in Nat : l <= size /\ b \in [0..(size - 1) -> Byte]
  /\ s \in Clean => l % 2 = 0 /\ \A k \in 0..(l \div 2 - 1) : CharAt(b, k) \in Char
  /\ s \in Owned \intersect Clean /\ e /\ m - l >= 2 => b[l] = 0 /\ b[l + 1] = 0

Inv ==
  /\ len = [s \in Strings |-> len[s]] /\ max = [s \in Strings |-> max[s]]
  /\ buf = [s \in Strings |-> buf[s]] /\ ended = [s \in Strings |-> ended[s]]
  /\ status \in [Strings -> [code : Codes, of : Nat]] /\ calls \in 0..MaxCalls
  /\ \A s \in Strings : status[s].code # "fault"
  /\ \A s \in Strings : Good(s, len[s], max[s], buf[s], ended[s])

LEMMA InvInit ==
  Init => Inv
<1> SUFFICES ASSUME Init
             PROVE  Inv
  OBVIOUS
<1>1. ASSUME NEW s \in Strings
      PROVE  Good(s, len[s], max[s], buf[s], ended[s])
  <2>1. len[s] = 0 /\ ended[s] = FALSE
    BY DEF Init
  <2>0. len[s] % 2 = 0 /\ \A k \in 0..(len[s] \div 2 - 1) : CharAt(buf[s], k) \in Char
    BY <2>1
  <2>2. CASE s \in Owned
    <3>1. max[s] = MaxOf[s] /\ buf[s] = [j \in 0..(MaxOf[s] + Guard - 1) |-> Junk] /\ s \notin Views
      BY <2>2, StringsAssumption DEF Init
    <3>2. \A j \in MaxOf[s]..(MaxOf[s] + Guard - 1) : j \in 0..(MaxOf[s] + Guard - 1)
      BY <2>2, SizesAre
    <3>3. buf[s] \in [0..(MaxOf[s] + Guard - 1) -> Byte]
          /\ \A j \in MaxOf[s]..(MaxOf[s] + Guard - 1) : buf[s][j] = Junk
      BY <3>1, <3>2, SizesAre
    <3>4. 0 <= MaxOf[s] /\ MaxOf[s] <= Word - 1 /\ MaxOf[s] \in Nat
      BY <2>2, SizesAre
    <3>5. Good(s, len[s], max[s], buf[s], FALSE)
      BY <2>0, <2>1, <2>2, <3>1, <3>3, <3>4 DEF Good
    <3> QED BY <2>1, <3>5
  <2>3. CASE s \in Views
    <3>1. max[s] = 0 /\ buf[s] = [j \in {} |-> 0] /\ s \notin Owned
      BY <2>3, StringsAssumption DEF Init, Nowhere
    <3>2. buf[s] \in [0..(0 - 1) -> Byte] /\ 0 <= 0 /\ 0 <= Word - 1
      BY <3>1, SizesAre
    <3>3. Good(s, len[s], max[s], buf[s], FALSE)
      BY <2>0, <2>1, <2>3, <3>1, <3>2 DEF Good
    <3> QED BY <2>1, <3>3
  <2> QED BY <2>2, <2>3 DEF Strings
<1>2. /\ status = [s \in Strings |-> [code |-> "none", of |-> 0]] /\ calls = 0
  BY DEF Init
<1>3. /\ max = [s \in Strings |-> max[s]] /\ buf = [s \in Strings |-> buf[s]]
      /\ len = [s \in Strings |-> len[s]] /\ ended = [s \in Strings |-> ended[s]]
  BY DEF Init
<1>4. status \in [Strings -> [code : Codes, of : Nat]] /\ \A s \in Strings : status[s].code # "fault"
  BY <1>2 DEF Codes
<1> QED BY <1>1, <1>2, <1>3, <1>4, SizesAre DEF Inv

(* A call that leaves one string changed, and good.                        *)
LEMMA OneChanged ==
  ASSUME Inv, Call, NEW d \in Strings, NEW l, NEW m, NEW b, NEW e, Good(d, l, m, b, e),
         len' = [len EXCEPT ![d] = l], max' = [max EXCEPT ![d] = m],
         buf' = [buf EXCEPT ![d] = b], ended' = [ended EXCEPT ![d] = e],
         NEW code \in Codes \ {"fault"}, NEW n \in Nat, Return(d, code, n)
  PROVE  Inv'
<1>1. \A s \in Strings : s # d =>
        len'[s] = len[s] /\ max'[s] = max[s] /\ buf'[s] = buf[s] /\ ended'[s] = ended[s]
  BY DEF Inv
<1>2. len'[d] = l /\ max'[d] = m /\ buf'[d] = b /\ ended'[d] = e
  BY DEF Inv
<1>3. \A s \in Strings : Good(s, len'[s], max'[s], buf'[s], ended'[s])
  BY <1>1, <1>2 DEF Inv
<1>4. /\ len' = [s \in Strings |-> len'[s]] /\ max' = [s \in Strings |-> max'[s]]
      /\ buf' = [s \in Strings |-> buf'[s]] /\ ended' = [s \in Strings |-> ended'[s]]
  BY DEF Inv
<1>5. status' \in [Strings -> [code : Codes, of : Nat]] /\ \A s \in Strings : status'[s].code # "fault"
  <2>1. [code |-> code, of |-> n] \in [code : Codes, of : Nat] /\ [code |-> code, of |-> n].code # "fault"
    OBVIOUS
  <2> QED BY <2>1 DEF Inv, Return
<1>6. calls' \in 0..MaxCalls
  BY SizesAre DEF Inv, Call
<1> QED BY <1>3, <1>4, <1>5, <1>6 DEF Inv

(* A call that changes nothing but what it returns.                        *)
LEMMA NoneChanged ==
  ASSUME Inv, Call, NEW d \in Strings, UNCHANGED <<len, max, buf, ended>>,
         NEW code \in Codes \ {"fault"}, NEW n \in Nat, Return(d, code, n)
  PROVE  Inv'
<1>1. status' \in [Strings -> [code : Codes, of : Nat]] /\ \A s \in Strings : status'[s].code # "fault"
  <2>1. [code |-> code, of |-> n] \in [code : Codes, of : Nat] /\ [code |-> code, of |-> n].code # "fault"
    OBVIOUS
  <2> QED BY <2>1 DEF Inv, Return
<1>2. calls' \in 0..MaxCalls
  BY SizesAre DEF Inv, Call
<1> QED BY <1>1, <1>2 DEF Inv
-----------------------------------------------------------------------------
LEMMA GoodDescribed ==
  ASSUME NEW v \in Views, NEW lit \in Literals, NEW bytes \in Nat, NEW e \in BOOLEAN,
         bytes % 2 = 0, bytes <= 2 * Len(lit), bytes <= Word - 4
  PROVE  Good(v, bytes, (bytes + 2) % Word, BytesOf(lit), e)
<1>1. v \notin Owned
  BY StringsAssumption
<1>2. (bytes + 2) % Word = bytes + 2
  BY SizesAre
<1>3. \E size \in Nat : bytes <= size /\ BytesOf(lit) \in [0..(size - 1) -> Byte]
  <2>1. PICK c \in Nat : c = Len(lit) /\ BytesOf(lit) \in [0..(2 * c + 1) -> Byte]
    BY LiteralIs
  <2>2. PICK size \in Nat : size = 2 * c + 2
    OBVIOUS
  <2>3. bytes <= size /\ size - 1 = 2 * c + 1
    BY <2>1, <2>2
  <2>4. BytesOf(lit) \in [0..(size - 1) -> Byte]
    BY <2>1, <2>3
  <2> QED BY <2>3, <2>4
<1>4. \A k \in 0..(bytes \div 2 - 1) : CharAt(BytesOf(lit), k) \in Char
  <2>1. \A k \in 0..(bytes \div 2 - 1) : k \in 0..(Len(lit) - 1)
    BY LiteralIs
  <2> QED BY <2>1, LiteralIs DEF CharAt
<1>5. bytes + 2 \in Nat /\ bytes <= bytes + 2 /\ bytes + 2 <= Word - 1
  BY SizesAre
<1> QED BY <1>1, <1>2, <1>3, <1>4, <1>5 DEF Good

LEMMA GoodEmpty ==
  ASSUME NEW v \in Views, NEW e \in BOOLEAN, NEW b, NEW size \in Nat, b \in [0..(size - 1) -> Byte]
  PROVE  Good(v, 0, 0, b, e)
<1>1. v \notin Owned
  BY StringsAssumption
<1>2. 0 % 2 = 0 /\ \A k \in 0..(0 \div 2 - 1) : CharAt(b, k) \in Char
  OBVIOUS
<1>3. 0 <= Word - 1 /\ 0 <= size /\ 0 \in Nat /\ 0 <= 0
  BY SizesAre
<1> QED BY <1>1, <1>2, <1>3 DEF Good

LEMMA OwnedIs ==
  ASSUME Inv, NEW d \in Owned
  PROVE  /\ d \in Strings /\ d \notin Views
         /\ len[d] \in Nat /\ max[d] \in Nat /\ len[d] <= max[d] /\ max[d] <= Word - 1 /\ ended[d] \in BOOLEAN
         /\ max[d] = MaxOf[d] /\ buf[d] \in [0..(max[d] + Guard - 1) -> Byte]
         /\ \A j \in max[d]..(max[d] + Guard - 1) : buf[d][j] = Junk
BY StringsAssumption DEF Inv, Good, Strings

(* What is put into a buffer within its MaximumLength leaves a good string.*)
LEMMA GoodStored ==
  ASSUME NEW d \in Owned, NEW l \in Nat, NEW m \in Nat, NEW b, NEW f, Good(d, l, m, b, f),
         NEW at \in Nat, NEW n \in Nat, NEW v, NEW newlen \in Nat, NEW e \in Nat,
         \A x \in 0..(n - 1) : v[x] \in Byte,
         at + n <= newlen, newlen <= m, e <= newlen,
         d \in Clean =>
           /\ at % 2 = 0 /\ n % 2 = 0 /\ newlen = at + n /\ e = newlen /\ at <= l
           /\ \A k \in 0..(n \div 2 - 1) : CharAt(v, k) \in Char
  PROVE  Good(d, newlen, m, Stored(b, at, n, v, m - newlen, e), TRUE)
<1>a. Guard \in Nat
  BY SizesAre
<1>b. PICK top \in Int : top = m + Guard - 1
  BY <1>a
<1>c. PICK spare \in Int : spare = m - newlen
  OBVIOUS
<1>0. d \notin Views /\ m = MaxOf[d] /\ m <= Word - 1
  BY StringsAssumption DEF Good
<1>d. b \in [0..top -> Byte] /\ \A j \in m..top : b[j] = Junk
  BY <1>b, <1>0 DEF Good
<1>1. /\ m - 1 <= top /\ at + n <= top + 1 /\ at + n <= m
      /\ (spare >= 2 => e + 2 <= top + 1) /\ (spare >= 2 => e + 2 <= m)
  BY <1>a, <1>b, <1>c
<1>n. PICK new : new = Stored(b, at, n, v, spare, e)
  OBVIOUS
<1>2. /\ new \in [0..top -> Byte]
      /\ spare >= 2 => new[e] = 0 /\ new[e + 1] = 0
      /\ \A x \in 0..top :
           spare < 2 \/ x < e \/ x > e + 1 =>
             /\ at <= x /\ x < at + n => new[x] = v[x - at]
             /\ x < at \/ x >= at + n => new[x] = b[x]
  <2>1. Fits(top, b, at, n, v, spare, e)
    BY <1>1, <1>d DEF Fits
  <2>2. IsStored(new, top, b, at, n, v, spare, e)
    BY <1>n, <2>1, StoredIs
  <2> QED BY <2>2 DEF IsStored
<1>3. \A j \in m..top : new[j] = Junk
  <2>1. TAKE j \in m..top
  <2>2. j \in 0..top /\ (spare < 2 \/ j > e + 1) /\ j >= at + n
    BY <1>0, <1>1
  <2> QED BY <1>2, <1>d, <2>2
<1>4. ASSUME d \in Clean, NEW k \in 0..(newlen \div 2 - 1)
      PROVE  CharAt(new, k) \in Char
  <2>1. 2 * k \in Nat /\ 2 * k + 1 < newlen /\ 2 * k \in 0..top /\ 2 * k + 1 \in 0..top
    BY <1>0, <1>1, <1>4
  <2>2. 2 * k < e /\ 2 * k + 1 < e
    BY <1>4, <2>1
  <2>3. CASE 2 * k < at
    <3>1. 2 * k + 1 < at /\ k \in 0..(l \div 2 - 1)
      BY <1>0, <1>4, <2>3
    <3>2. new[2 * k] = b[2 * k] /\ new[2 * k + 1] = b[2 * k + 1]
      BY <1>2, <2>1, <2>2, <2>3, <3>1
    <3>3. CharAt(b, k) \in Char
      BY <1>4, <3>1 DEF Good
    <3> QED BY <3>2, <3>3 DEF CharAt
  <2>4. CASE ~(2 * k < at)
    <3>1. PICK i \in Nat : at = 2 * i
      <4>1. at \div 2 \in Nat /\ at = 2 * (at \div 2)
        BY <1>4
      <4> QED BY <4>1
    <3>2. /\ k - i \in 0..(n \div 2 - 1) /\ 2 * (k - i) = 2 * k - at /\ 2 * (k - i) + 1 = 2 * k + 1 - at
          /\ at <= 2 * k /\ 2 * k < at + n /\ at <= 2 * k + 1 /\ 2 * k + 1 < at + n
      BY <1>4, <2>1, <2>4, <3>1
    <3>3. new[2 * k] = v[2 * (k - i)] /\ new[2 * k + 1] = v[2 * (k - i) + 1]
      BY <1>2, <2>1, <2>2, <3>2
    <3>4. CharAt(v, k - i) \in Char
      BY <1>4, <3>2
    <3> QED BY <3>3, <3>4 DEF CharAt
  <2> QED BY <2>3, <2>4
<1>5. d \in Clean => newlen % 2 = 0
  OBVIOUS
<1>6. ASSUME d \in Clean, spare >= 2
      PROVE  new[newlen] = 0 /\ new[newlen + 1] = 0
  <2>1. newlen \in 0..top /\ newlen + 1 \in 0..top /\ e = newlen
    BY <1>0, <1>1, <1>6
  <2> QED BY <1>2, <1>6, <2>1
<1>8. Good(d, newlen, m, new, TRUE)
  BY <1>0, <1>2, <1>3, <1>4, <1>5, <1>6, <1>b, <1>c DEF Good
<1> QED BY <1>8, <1>c, <1>n
-----------------------------------------------------------------------------
LEMMA SameIs ==
  ASSUME Inv, NEW d \in Strings
  PROVE  /\ len = [len EXCEPT ![d] = len[d]] /\ max = [max EXCEPT ![d] = max[d]]
         /\ buf = [buf EXCEPT ![d] = buf[d]] /\ ended = [ended EXCEPT ![d] = ended[d]]
BY DEF Inv

(* What is read from the text of a string.                                 *)
LEMMA LoadedIs ==
  ASSUME Inv, NEW s \in Strings, NEW n \in Nat, n <= len[s]
  PROVE  /\ \A x \in 0..(n - 1) : LoadAt(buf[s], 0, n)[x] \in Byte
         /\ s \in Clean => \A k \in 0..(n \div 2 - 1) :
              /\ CharAt(LoadAt(buf[s], 0, n), k) = CharAt(buf[s], k)
              /\ CharAt(buf[s], k) \in Char
<1>1. Good(s, len[s], max[s], buf[s], ended[s])
  BY DEF Inv
<1>2. \A x \in 0..(n - 1) : LoadAt(buf[s], 0, n)[x] = buf[s][x]
  BY DEF LoadAt
<1>3. PICK top \in Int : len[s] - 1 <= top /\ buf[s] \in [0..top -> Byte]
  <2>1. CASE s \in Owned
    <3>1. /\ MaxOf[s] + Guard - 1 \in Int /\ len[s] - 1 <= MaxOf[s] + Guard - 1
          /\ buf[s] \in [0..(MaxOf[s] + Guard - 1) -> Byte]
      BY <1>1, <2>1, SizesAre DEF Good
    <3> QED BY <3>1
  <2>2. CASE s \in Views
    BY <1>1, <2>2 DEF Good
  <2> QED BY <2>1, <2>2 DEF Strings
<1>4. ASSUME NEW x \in 0..(n - 1)
      PROVE  LoadAt(buf[s], 0, n)[x] \in Byte
  <2>1. x \in 0..top
    BY <1>1, <1>3 DEF Good
  <2> QED BY <1>2, <1>3, <2>1
<1>5. ASSUME s \in Clean, NEW k \in 0..(n \div 2 - 1)
      PROVE  /\ CharAt(LoadAt(buf[s], 0, n), k) = CharAt(buf[s], k)
             /\ CharAt(buf[s], k) \in Char
  <2>1. 2 * k \in 0..(n - 1) /\ 2 * k + 1 \in 0..(n - 1)
    OBVIOUS
  <2>2. k \in 0..(len[s] \div 2 - 1)
    BY <1>1 DEF Good
  <2> QED BY <1>1, <1>2, <1>5, <2>1, <2>2 DEF CharAt, Good
<1> QED BY <1>4, <1>5

LEMMA PutKeeps ==
  ASSUME Inv, Call, NEW d \in Owned, NEW newlen \in Nat, NEW at \in Nat, NEW n \in Nat, NEW v,
         Put(d, newlen, at, n, v),
         \A x \in 0..(n - 1) : v[x] \in Byte,
         at + n <= newlen, newlen <= max[d],
         d \in Clean =>
           /\ at % 2 = 0 /\ n % 2 = 0 /\ newlen = at + n /\ at <= len[d]
           /\ \A k \in 0..(n \div 2 - 1) : CharAt(v, k) \in Char
  PROVE  Inv'
<1>1. d \in Strings /\ Good(d, len[d], max[d], buf[d], ended[d]) /\ len[d] \in Nat /\ max[d] \in Nat
  BY OwnedIs DEF Inv
<1>2. Good(d, newlen, max[d], Stored(buf[d], at, n, v, max[d] - newlen, at + n), TRUE)
  <2>1. at + n \in Nat
    OBVIOUS
  <2> QED BY <1>1, <2>1, GoodStored
<1>3. buf' = [buf EXCEPT ![d] = Stored(buf[d], at, n, v, max[d] - newlen, at + n)]
  BY <1>1 DEF Put, Stored, Inv
<1>4. /\ len' = [len EXCEPT ![d] = newlen] /\ max' = [max EXCEPT ![d] = max[d]]
      /\ ended' = [ended EXCEPT ![d] = TRUE] /\ Return(d, "success", n)
  BY <1>1, SameIs DEF Put
<1>5. "success" \in Codes \ {"fault"}
  BY DEF Codes
<1> QED BY <1>1, <1>2, <1>3, <1>4, <1>5, OneChanged
-----------------------------------------------------------------------------
LEMMA SuccessIs ==
  /\ "success" \in Codes \ {"fault"} /\ "too long" \in Codes \ {"fault"}
  /\ "too small" \in Codes \ {"fault"}
BY DEF Codes

LEMMA ViewIs ==
  ASSUME Inv, NEW v \in Views
  PROVE  v \in Strings /\ ended[v] \in BOOLEAN /\ ended = [ended EXCEPT ![v] = ended[v]]
<1>1. v \in Strings
  BY DEF Strings
<1> QED BY <1>1, SameIs DEF Inv, Good

LEMMA DescribeKeeps ==
  ASSUME Inv, Call, NEW v \in Views, NEW lit \in Literals, NEW bytes \in Nat,
         Describe(v, lit, bytes), bytes % 2 = 0, bytes <= 2 * Len(lit), bytes <= Word - 4
  PROVE  Inv'
<1>1. Good(v, bytes, (bytes + 2) % Word, BytesOf(lit), ended[v])
  BY ViewIs, GoodDescribed
<1>2. 2 * Len(lit) \in Nat
  BY LiteralIs
<1>3. /\ len' = [len EXCEPT ![v] = bytes] /\ max' = [max EXCEPT ![v] = (bytes + 2) % Word]
      /\ buf' = [buf EXCEPT ![v] = BytesOf(lit)] /\ ended' = [ended EXCEPT ![v] = ended[v]]
      /\ Return(v, "success", 2 * Len(lit))
  BY ViewIs DEF Describe
<1> QED BY <1>1, <1>2, <1>3, ViewIs, SuccessIs, OneChanged

LEMMA InitStringKeeps ==
  ASSUME Inv, NEW v \in Views, NEW lit \in Literals, InitString(v, lit)
  PROVE  Inv'
<1>1. PICK bytes \in Nat : /\ bytes = IF 2 * Len(lit) >= Word - 2 THEN Word - 4 ELSE 2 * Len(lit)
                           /\ bytes % 2 = 0 /\ bytes <= 2 * Len(lit) /\ bytes <= Word - 4
  <2>1. Len(lit) \in Nat /\ Word \in Nat /\ Word >= 4 /\ Word % 2 = 0
    BY LiteralIs, SizesAre
  <2>2. CASE 2 * Len(lit) >= Word - 2
    <3>1. Word - 4 \in Nat /\ (Word - 4) % 2 = 0 /\ Word - 4 <= 2 * Len(lit) /\ Word - 4 <= Word - 4
      BY <2>1, <2>2
    <3> QED BY <2>2, <3>1
  <2>3. CASE ~(2 * Len(lit) >= Word - 2)
    <3>1. 2 * Len(lit) \in Nat /\ (2 * Len(lit)) % 2 = 0 /\ 2 * Len(lit) <= 2 * Len(lit) /\ 2 * Len(lit) <= Word - 4
      BY <2>1, <2>3
    <3> QED BY <2>3, <3>1
  <2> QED BY <2>2, <2>3
<1>2. Call /\ Describe(v, lit, bytes)
  BY <1>1 DEF InitString
<1> QED BY <1>1, <1>2, DescribeKeeps

LEMMA EmptyKeeps ==
  ASSUME Inv, Call, NEW v \in Views, NoText(v), NEW b, \E size \in Nat : b \in [0..(size - 1) -> Byte],
         buf' = [buf EXCEPT ![v] = b],
         NEW code \in Codes \ {"fault"}, NEW n \in Nat, Return(v, code, n)
  PROVE  Inv'
<1>1. Good(v, 0, 0, b, ended[v])
  <2>1. PICK size \in Nat : b \in [0..(size - 1) -> Byte]
    OBVIOUS
  <2> QED BY <2>1, ViewIs, GoodEmpty
<1>2. /\ len' = [len EXCEPT ![v] = 0] /\ max' = [max EXCEPT ![v] = 0]
      /\ ended' = [ended EXCEPT ![v] = ended[v]]
  BY ViewIs DEF NoText
<1> QED BY <1>1, <1>2, ViewIs, OneChanged

LEMMA InitStringExKeeps ==
  ASSUME Inv, NEW v \in Views, NEW lit \in Literals, InitStringEx(v, lit)
  PROVE  Inv'
<1>1. Call /\ Len(lit) \in Nat
  BY LiteralIs DEF InitStringEx
<1>2. CASE Len(lit) > MaxName
  <2>1. NoText(v) /\ Return(v, "too long", 2 * Len(lit)) /\ buf' = [buf EXCEPT ![v] = BytesOf(lit)]
    BY <1>2 DEF InitStringEx
  <2>2. 2 * Len(lit) \in Nat /\ 2 * Len(lit) + 2 \in Nat
        /\ 0..(2 * Len(lit) + 2 - 1) = 0..(2 * Len(lit) + 1)
    BY <1>1
  <2>3. BytesOf(lit) \in [0..(2 * Len(lit) + 2 - 1) -> Byte]
    BY <2>2, LiteralIs
  <2>4. \E size \in Nat : BytesOf(lit) \in [0..(size - 1) -> Byte]
    BY <2>2, <2>3
  <2> QED BY <1>1, <2>1, <2>2, <2>4, SuccessIs, EmptyKeeps
<1>3. CASE ~(Len(lit) > MaxName)
  <2>1. Describe(v, lit, 2 * Len(lit))
    BY <1>3 DEF InitStringEx
  <2>2. 2 * Len(lit) \in Nat /\ (2 * Len(lit)) % 2 = 0 /\ 2 * Len(lit) <= 2 * Len(lit) /\ 2 * Len(lit) <= Word - 4
    BY <1>1, <1>3, SizesAre DEF MaxName
  <2> QED BY <1>1, <2>1, <2>2, DescribeKeeps
<1> QED BY <1>2, <1>3

LEMMA InitNullKeeps ==
  ASSUME Inv, NEW v \in Views, InitNull(v)
  PROVE  Inv'
<1>1. Call /\ NoText(v) /\ buf' = [buf EXCEPT ![v] = Nowhere] /\ Return(v, "success", 0)
  BY DEF InitNull
<1>2. Nowhere \in [0..(0 - 1) -> Byte]
  BY DEF Nowhere
<1>3. \E size \in Nat : Nowhere \in [0..(size - 1) -> Byte]
  BY <1>2
<1> QED BY <1>1, <1>3, SuccessIs, EmptyKeeps
-----------------------------------------------------------------------------
LEMMA CopyStringKeeps ==
  ASSUME Whole, Inv, NEW d \in Owned, NEW s \in Strings, d \in Clean => s \in Clean, CopyString(d, s)
  PROVE  Inv'
<1>1. /\ Good(d, len[d], max[d], buf[d], ended[d]) /\ d \in Strings /\ len[d] \in Nat /\ max[d] \in Nat
      /\ Good(s, len[s], max[s], buf[s], ended[s]) /\ len[s] \in Nat /\ max[d] = MaxOf[d]
  BY OwnedIs DEF Inv, Good
<1>2. PICK n \in Nat : n = (IF len[s] > max[d] THEN max[d] ELSE len[s]) /\ n <= len[s] /\ n <= max[d]
  BY <1>1
<1>3. PICK e \in Nat : e = n - (n % 2) /\ e <= n
  OBVIOUS
<1>4. d \in Clean => n % 2 = 0 /\ e = n
  <2> SUFFICES ASSUME d \in Clean
               PROVE  n % 2 = 0
    BY <1>3
  <2>1. len[s] % 2 = 0 /\ max[d] % 2 = 0
    BY <1>1 DEF Good, Whole
  <2> QED BY <1>2, <2>1
<1>v. PICK v : v = LoadAt(buf[s], 0, n)
  OBVIOUS
<1>5. /\ \A x \in 0..(n - 1) : v[x] \in Byte
      /\ s \in Clean => \A k \in 0..(n \div 2 - 1) : CharAt(v, k) \in Char
  BY <1>2, <1>v, LoadedIs
<1>6. /\ Call /\ len' = [len EXCEPT ![d] = n] /\ ended' = [ended EXCEPT ![d] = TRUE]
      /\ max' = [max EXCEPT ![d] = max[d]] /\ Return(d, "success", len[s])
      /\ buf' = [buf EXCEPT ![d] = Stored(buf[d], 0, n, v, max[d] - n, e)]
  BY <1>1, <1>2, <1>3, <1>v, SameIs DEF CopyString, Stored
<1>7. Good(d, n, max[d], Stored(buf[d], 0, n, v, max[d] - n, e), TRUE)
  <2>1. PICK at \in Nat : at = 0
    OBVIOUS
  <2>2. PICK newlen \in Nat : newlen = n
    OBVIOUS
  <2>3. at + n <= newlen /\ newlen <= max[d] /\ e <= newlen
    BY <1>2, <1>3, <2>1, <2>2
  <2>4. d \in Clean =>
          /\ at % 2 = 0 /\ n % 2 = 0 /\ newlen = at + n /\ e = newlen /\ at <= len[d]
          /\ \A k \in 0..(n \div 2 - 1) : CharAt(v, k) \in Char
    <3>1. newlen = at + n /\ at % 2 = 0 /\ at <= len[d]
      BY <1>1, <2>1, <2>2
    <3> QED BY <1>4, <1>5, <2>2, <3>1
  <2>5. \A x \in 0..(n - 1) : v[x] \in Byte
    BY <1>5
  <2>6. Good(d, newlen, max[d], Stored(buf[d], at, n, v, max[d] - newlen, e), TRUE)
    BY <1>1, <2>3, <2>4, <2>5, GoodStored
  <2> QED BY <2>1, <2>2, <2>6
<1> QED BY <1>1, <1>6, <1>7, SuccessIs, OneChanged

LEMMA CopyNullKeeps ==
  ASSUME Inv, NEW d \in Owned, CopyNull(d)
  PROVE  Inv'
<1>1. /\ Good(d, len[d], max[d], buf[d], ended[d]) /\ d \in Strings /\ len[d] \in Nat /\ max[d] \in Nat
      /\ ended[d] \in BOOLEAN
  BY OwnedIs DEF Inv
<1>2. /\ Call /\ Return(d, "success", 0) /\ len' = [len EXCEPT ![d] = 0]
      /\ max' = [max EXCEPT ![d] = max[d]] /\ buf' = [buf EXCEPT ![d] = buf[d]]
  BY <1>1, SameIs DEF CopyNull
<1>3. CASE len[d] = 0
  <2>1. Good(d, 0, max[d], buf[d], ended[d])
    BY <1>1, <1>3
  <2>2. ended' = [ended EXCEPT ![d] = ended[d]]
    BY <1>1, <1>3 DEF CopyNull, Inv
  <2> QED BY <1>1, <1>2, <2>1, <2>2, SuccessIs, OneChanged
<1>4. CASE len[d] # 0
  <2>1. Good(d, 0, max[d], buf[d], FALSE)
    <3>1. 0 % 2 = 0 /\ \A k \in 0..(0 \div 2 - 1) : CharAt(buf[d], k) \in Char
      OBVIOUS
    <3> QED BY <1>1, <3>1 DEF Good
  <2>2. ended' = [ended EXCEPT ![d] = FALSE]
    BY <1>1, <1>4 DEF CopyNull, Inv
  <2> QED BY <1>1, <1>2, <2>1, <2>2, SuccessIs, OneChanged
<1> QED BY <1>3, <1>4

LEMMA AppendLiteralKeeps ==
  ASSUME Inv, NEW d \in Owned, NEW lit \in Literals, AppendLiteral(d, lit)
  PROVE  Inv'
<1>1. /\ Call /\ d \in Strings /\ len[d] \in Nat /\ max[d] \in Nat /\ Len(lit) \in Nat
      /\ Good(d, len[d], max[d], buf[d], ended[d])
  BY OwnedIs, LiteralIs DEF AppendLiteral, Inv
<1>2. CASE Len(lit) > MaxName \/ len[d] + 2 * Len(lit) > max[d]
  <2>1. Refuse(d, 2 * Len(lit)) /\ 2 * Len(lit) \in Nat
    BY <1>1, <1>2 DEF AppendLiteral
  <2> QED BY <1>1, <2>1, SuccessIs, NoneChanged DEF Refuse
<1>3. CASE ~(Len(lit) > MaxName \/ len[d] + 2 * Len(lit) > max[d])
  <2>1. PICK at \in Nat : at = len[d] - (len[d] % 2) /\ at <= len[d]
    BY <1>1
  <2>2. PICK n \in Nat : n = 2 * Len(lit) /\ n % 2 = 0
    BY <1>1
  <2>3. PICK newlen \in Nat : newlen = len[d] + n /\ newlen <= max[d] /\ at + n <= newlen
    <3>1. len[d] + n \in Nat /\ len[d] + n <= max[d] /\ at + n <= len[d] + n
      BY <1>1, <1>3, <2>1, <2>2
    <3> QED BY <3>1
  <2>4. Put(d, newlen, at, n, BytesOf(lit))
    BY <1>3, <2>1, <2>2, <2>3 DEF AppendLiteral
  <2>5. \A x \in 0..(n - 1) : BytesOf(lit)[x] \in Byte
    <3>1. \A x \in 0..(n - 1) : x \in 0..(2 * Len(lit) + 1)
      BY <2>2
    <3> QED BY <3>1, LiteralIs
  <2>6. \A k \in 0..(n \div 2 - 1) : CharAt(BytesOf(lit), k) \in Char
    <3>1. \A k \in 0..(n \div 2 - 1) : k \in 0..(Len(lit) - 1)
      BY <1>1, <2>2
    <3> QED BY <3>1, LiteralIs DEF CharAt
  <2>7. d \in Clean => at % 2 = 0 /\ newlen = at + n
    <3>1. d \in Clean => len[d] % 2 = 0
      BY <1>1 DEF Good
    <3> QED BY <1>1, <2>1, <2>3, <3>1
  <2> QED BY <1>1, <2>1, <2>2, <2>3, <2>4, <2>5, <2>6, <2>7, PutKeeps
<1> QED BY <1>2, <1>3

LEMMA AppendNullKeeps ==
  ASSUME Inv, NEW d \in Owned, AppendNull(d)
  PROVE  Inv'
<1>1. Call /\ d \in Strings /\ UNCHANGED <<len, max, buf, ended>> /\ Return(d, "success", 0)
  BY OwnedIs DEF AppendNull, NoChange
<1> QED BY <1>1, SuccessIs, NoneChanged

(* What a client may give: a whole number of characters.                   *)
LEMMA AppendStringKeeps ==
  ASSUME Inv, NEW d \in Owned, NEW s \in Clean, AppendString(d, s)
  PROVE  Inv'
<1>1. /\ Call /\ d \in Strings /\ s \in Strings /\ len[d] \in Nat /\ max[d] \in Nat
      /\ Good(d, len[d], max[d], buf[d], ended[d])
      /\ Good(s, len[s], max[s], buf[s], ended[s]) /\ len[s] \in Nat
  BY OwnedIs, StringsAssumption DEF AppendString, Inv, Good
<1>2. len[s] % 2 = 0
  BY <1>1 DEF Good
<1>3. CASE len[s] = 0
  <2>1. NoChange(d)
    BY <1>3 DEF AppendString
  <2> QED BY <1>1, <2>1, SuccessIs, NoneChanged DEF NoChange
<1>4. CASE len[s] > 0 /\ len[d] + len[s] > max[d]
  <2>1. Refuse(d, len[s])
    <3>1. len[s] # 0 /\ ~(len[d] + len[s] <= max[d])
      BY <1>1, <1>4
    <3> QED BY <1>4, <3>1 DEF AppendString
  <2> QED BY <1>1, <2>1, SuccessIs, NoneChanged DEF Refuse
<1>5. CASE len[s] > 0 /\ len[d] + len[s] <= max[d]
  <2>1. PICK newlen \in Nat : newlen = len[d] + len[s] /\ newlen <= max[d]
    BY <1>1, <1>5
  <2>2. Put(d, newlen, len[d], len[s], LoadAt(buf[s], 0, len[s]))
    <3>1. len[s] # 0 /\ ~(len[d] + len[s] > max[d]) /\ len[s] % 2 # 1
      BY <1>1, <1>2, <1>5
    <3> QED BY <1>2, <1>5, <2>1, <3>1 DEF AppendString
  <2>3. d \in Clean => len[d] % 2 = 0
    BY <1>1 DEF Good
  <2>4. /\ \A x \in 0..(len[s] - 1) : LoadAt(buf[s], 0, len[s])[x] \in Byte
        /\ \A k \in 0..(len[s] \div 2 - 1) : CharAt(LoadAt(buf[s], 0, len[s]), k) \in Char
    BY <1>1, LoadedIs
  <2>5. len[d] + len[s] <= newlen /\ len[d] <= len[d]
    BY <1>1, <2>1
  <2> QED BY <1>1, <1>2, <2>1, <2>2, <2>3, <2>4, <2>5, PutKeeps
<1> QED BY <1>1, <1>3, <1>4, <1>5

LEMMA InvStep ==
  Whole /\ Inv /\ [Next]_vars => Inv'
<1>1. Inv /\ UNCHANGED vars => Inv'
  BY DEF Inv, vars
<1> QED BY <1>1, InitStringKeeps, InitStringExKeeps, InitNullKeeps, CopyStringKeeps, CopyNullKeeps,
           AppendLiteralKeeps, AppendNullKeeps, AppendStringKeeps DEF Next

LEMMA InvHolds ==
  ASSUME Whole
  PROVE  Spec => []Inv
<1>1. Inv /\ [Next]_vars => Inv'
  BY InvStep
<1> QED BY <1>1, InvInit, PTL DEF Spec

(* Lengths stay 16-bit words that count no more than the buffer has, for a *)
(* client whose buffers of whole characters are whole.                     *)
THEOREM StringsTypeOK ==
  ASSUME Whole
  PROVE  Spec => []TypeOK
<1>1. Inv => TypeOK
  <2> SUFFICES ASSUME Inv
               PROVE  TypeOK
    OBVIOUS
  <2>1. ASSUME NEW s \in Strings
        PROVE  /\ len[s] \in 0..(Word - 1) /\ max[s] \in 0..(Word - 1) /\ len[s] <= max[s]
               /\ ended[s] \in BOOLEAN
    BY SizesAre DEF Inv, Good
  <2>2. ASSUME NEW s \in Strings
        PROVE  buf[s] \in [DOMAIN buf[s] -> Byte]
    <3>1. CASE s \in Owned
      <4>1. buf[s] \in [0..(MaxOf[s] + Guard - 1) -> Byte]
        BY <3>1 DEF Inv, Good
      <4> QED BY <4>1
    <3>2. CASE s \in Views
      <4>1. PICK size \in Nat : buf[s] \in [0..(size - 1) -> Byte]
        BY <3>2 DEF Inv, Good
      <4> QED BY <4>1
    <3> QED BY <3>1, <3>2 DEF Strings
  <2>3. len \in [Strings -> 0..(Word - 1)] /\ max \in [Strings -> 0..(Word - 1)]
    BY <2>1 DEF Inv
  <2>4. ended \in [Strings -> BOOLEAN]
    BY <2>1 DEF Inv
  <2> QED BY <2>1, <2>2, <2>3, <2>4 DEF TypeOK, Inv
<1> QED BY <1>1, InvHolds, PTL

(* No call ever writes behind MaximumLength, whatever was initialised,     *)
(* copied and appended before it.                                          *)
THEOREM NothingBehind ==
  ASSUME Whole
  PROVE  Spec => []InBounds
<1>1. Inv => InBounds
  BY DEF Inv, Good, InBounds, Strings
<1> QED BY <1>1, InvHolds, PTL

(* The text that ends at the NUL and the text that Length counts are one   *)
(* and the same, for every string that a call has ended and that has room. *)
THEOREM BothReadingsAgree ==
  ASSUME Whole
  PROVE  Spec => []ReadsBack
<1>1. Inv => ReadsBack
  <2> SUFFICES ASSUME Inv, NEW s \in Owned \intersect Clean, ended[s], max[s] - len[s] >= 2
               PROVE  /\ len[s] % 2 = 0 /\ NulAt(s, len[s] \div 2)
                      /\ \A k \in 0..(len[s] \div 2 - 1) : ~NulAt(s, k)
    BY DEF ReadsBack
  <2>1. Good(s, len[s], max[s], buf[s], ended[s])
    BY DEF Inv, Strings
  <2>2. len[s] \in Nat /\ len[s] % 2 = 0 /\ buf[s][len[s]] = 0 /\ buf[s][len[s] + 1] = 0
    BY <2>1 DEF Good
  <2>3. 2 * (len[s] \div 2) = len[s]
    BY <2>2
  <2>4. ASSUME NEW k \in 0..(len[s] \div 2 - 1)
        PROVE  ~NulAt(s, k)
    <3>1. CharAt(buf[s], k) \in Char
      BY <2>1 DEF Good
    <3> QED BY <3>1, LiteralsAssumption DEF CharAt, NulAt
  <2> QED BY <2>2, <2>3, <2>4 DEF NulAt
<1> QED BY <1>1, InvHolds, PTL
-----------------------------------------------------------------------------
(* The text in the first l bytes of b.                                     *)
TextIn(l, b) == [k \in 1..(l \div 2) |-> <<b[2 * k - 2], b[2 * k - 1]>>]

LEMMA IsText ==
  ASSUME NEW n \in Nat, NEW t \in [1..n -> Char]
  PROVE  t \in Seq(Char) /\ Len(t) = n
<1>1. t \in Seq(Char)
  BY SeqDef
<1>2. 1..Len(t) = 1..n /\ Len(t) \in Nat
  BY <1>1, LenProperties
<1>3. Len(t) = n
  <2>1. CASE n = 0
    BY <1>2, <2>1
  <2>2. CASE n > 0
    <3>1. n \in 1..Len(t)
      BY <1>2, <2>2
    <3>2. Len(t) \in 1..n
      BY <1>2, <3>1
    <3> QED BY <1>2, <3>1, <3>2
  <2> QED BY <2>1, <2>2
<1> QED BY <1>1, <1>3

LEMMA TextInIs ==
  ASSUME NEW l \in Nat, NEW b, \A k \in 0..(l \div 2 - 1) : CharAt(b, k) \in Char
  PROVE  /\ TextIn(l, b) \in Seq(Char) /\ Len(TextIn(l, b)) = l \div 2
         /\ \A k \in 1..(l \div 2) : TextIn(l, b)[k] = CharAt(b, k - 1)
<1>1. l \div 2 \in Nat
  OBVIOUS
<1>2. ASSUME NEW k \in 1..(l \div 2)
      PROVE  <<b[2 * k - 2], b[2 * k - 1]>> = CharAt(b, k - 1) /\ CharAt(b, k - 1) \in Char
  <2>1. k - 1 \in 0..(l \div 2 - 1) /\ 2 * (k - 1) = 2 * k - 2 /\ 2 * (k - 1) + 1 = 2 * k - 1
    BY <1>1
  <2> QED BY <2>1 DEF CharAt
<1>3. TextIn(l, b) \in [1..(l \div 2) -> Char]
  BY <1>2 DEF TextIn
<1> QED BY <1>1, <1>2, <1>3, IsText DEF TextIn

LEMMA TextInIsText ==
  ASSUME NEW l \in Nat, NEW b, NEW t \in Seq(Char), Len(t) = l \div 2,
         \A k \in 0..(l \div 2 - 1) : CharAt(b, k) = t[k + 1]
  PROVE  TextIn(l, b) = t
<1>1. l \div 2 \in Nat
  OBVIOUS
<1>2. ASSUME NEW k \in 0..(l \div 2 - 1)
      PROVE  CharAt(b, k) \in Char
  <2>1. k + 1 \in 1..Len(t)
    BY <1>1
  <2>2. t[k + 1] \in Char
    BY <2>1
  <2> QED BY <2>2
<1>3. /\ TextIn(l, b) \in Seq(Char) /\ Len(TextIn(l, b)) = l \div 2
      /\ \A k \in 1..(l \div 2) : TextIn(l, b)[k] = CharAt(b, k - 1)
  BY <1>2, TextInIs
<1>4. ASSUME NEW k \in 1..Len(TextIn(l, b))
      PROVE  TextIn(l, b)[k] = t[k]
  <2>1. k \in 1..(l \div 2) /\ k - 1 \in 0..(l \div 2 - 1) /\ (k - 1) + 1 = k
    BY <1>1, <1>3
  <2> QED BY <1>3, <2>1
<1> QED BY <1>3, <1>4, SeqEqual

(* What is stored behind the characters of a text is appended to it.       *)
Joins(new, newlen, b, at, v, n) ==
  /\ at \in Nat /\ n \in Nat /\ newlen \in Nat
  /\ newlen \div 2 = at \div 2 + n \div 2 /\ at % 2 = 0 /\ n % 2 = 0
  /\ \A x \in 0..(newlen - 1) : new[x] = IF x < at THEN b[x] ELSE v[x - at]
  /\ \A k \in 0..(at \div 2 - 1) : CharAt(b, k) \in Char
  /\ \A k \in 0..(n \div 2 - 1) : CharAt(v, k) \in Char

LEMMA JoinedText ==
  ASSUME NEW b, NEW v, NEW new, NEW at, NEW n, NEW newlen, Joins(new, newlen, b, at, v, n)
  PROVE  TextIn(newlen, new) = TextIn(at, b) \o TextIn(n, v)
<1> SUFFICES ASSUME at \in Nat, n \in Nat, newlen \in Nat,
                    newlen \div 2 = at \div 2 + n \div 2, at % 2 = 0, n % 2 = 0,
                    \A x \in 0..(newlen - 1) : new[x] = IF x < at THEN b[x] ELSE v[x - at],
                    \A k \in 0..(at \div 2 - 1) : CharAt(b, k) \in Char,
                    \A k \in 0..(n \div 2 - 1) : CharAt(v, k) \in Char
             PROVE  TextIn(newlen, new) = TextIn(at, b) \o TextIn(n, v)
  BY DEF Joins
<1>2. PICK i \in Nat : at = 2 * i /\ at \div 2 = i
  <2>1. at \div 2 \in Nat /\ at = 2 * (at \div 2)
    OBVIOUS
  <2> QED BY <2>1
<1>3. PICK j \in Nat : n = 2 * j /\ n \div 2 = j
  <2>1. n \div 2 \in Nat /\ n = 2 * (n \div 2)
    OBVIOUS
  <2> QED BY <2>1
<1>4. newlen \div 2 = i + j /\ \A k \in 0..(newlen \div 2 - 1) : 2 * k + 1 < newlen
  BY <1>2, <1>3
<1>5. /\ TextIn(at, b) \in Seq(Char) /\ Len(TextIn(at, b)) = i
      /\ \A k \in 1..i : TextIn(at, b)[k] = CharAt(b, k - 1)
  <2>1. /\ TextIn(at, b) \in Seq(Char) /\ Len(TextIn(at, b)) = at \div 2
        /\ \A k \in 1..(at \div 2) : TextIn(at, b)[k] = CharAt(b, k - 1)
    BY TextInIs
  <2> QED BY <1>2, <2>1
<1>6. /\ TextIn(n, v) \in Seq(Char) /\ Len(TextIn(n, v)) = j
      /\ \A k \in 1..j : TextIn(n, v)[k] = CharAt(v, k - 1)
  <2>1. /\ TextIn(n, v) \in Seq(Char) /\ Len(TextIn(n, v)) = n \div 2
        /\ \A k \in 1..(n \div 2) : TextIn(n, v)[k] = CharAt(v, k - 1)
    BY TextInIs
  <2> QED BY <1>3, <2>1
<1> DEFINE t == TextIn(at, b) \o TextIn(n, v)
<1>7. /\ t \in Seq(Char) /\ Len(t) = i + j
      /\ \A k \in 1..(i + j) : t[k] = IF k <= i THEN TextIn(at, b)[k] ELSE TextIn(n, v)[k - i]
  BY <1>5, <1>6, ConcatProperties
<1> HIDE DEF t
<1>8. ASSUME NEW k \in 0..(newlen \div 2 - 1)
      PROVE  CharAt(new, k) = t[k + 1]
  <2>1. k + 1 \in 1..(i + j) /\ k \in Nat
    BY <1>4
  <2>2. CASE k < i
    <3>1. new[2 * k] = b[2 * k] /\ new[2 * k + 1] = b[2 * k + 1]
      <4>1. /\ 2 * k \in 0..(newlen - 1) /\ 2 * k + 1 \in 0..(newlen - 1)
            /\ 2 * k + 1 < at /\ 2 * k < at
        BY <1>2, <2>1, <2>2
      <4> QED BY <4>1
    <3>2. k + 1 \in 1..i /\ (k + 1) - 1 = k /\ k + 1 <= i
      BY <2>1, <2>2
    <3> QED BY <1>5, <1>7, <2>1, <3>1, <3>2 DEF CharAt
  <2>3. CASE ~(k < i)
    <3>1. PICK h \in Nat : h = k - i /\ h < j
      <4>1. k - i \in Nat /\ k - i < j
        BY <1>4, <2>1, <2>3
      <4> QED BY <4>1
    <3>2. new[2 * k] = v[2 * h] /\ new[2 * k + 1] = v[2 * h + 1]
      <4>1. /\ 2 * k \in 0..(newlen - 1) /\ 2 * k + 1 \in 0..(newlen - 1)
            /\ ~(2 * k < at) /\ ~(2 * k + 1 < at)
            /\ 2 * k - at = 2 * h /\ 2 * k + 1 - at = 2 * h + 1
        BY <1>2, <1>3, <2>1, <2>3, <3>1
      <4>2. new[2 * k] = v[2 * k - at]
        BY <4>1
      <4>3. new[2 * k + 1] = v[2 * k + 1 - at]
        BY <4>1
      <4> QED BY <4>1, <4>2, <4>3
    <3>3. (k + 1) - i = h + 1 /\ h + 1 \in 1..j /\ (h + 1) - 1 = h /\ ~(k + 1 <= i)
      BY <2>1, <2>3, <3>1
    <3> QED BY <1>6, <1>7, <2>1, <3>2, <3>3 DEF CharAt
  <2> QED BY <2>2, <2>3
<1>9. TextIn(newlen, new) = t
  <2>1. Len(t) = newlen \div 2
    BY <1>4, <1>7
  <2> QED BY <1>7, <1>8, <2>1, TextInIsText
<1> QED BY <1>9 DEF t

LEMMA PrefixIs ==
  ASSUME NEW t \in Seq(Char), NEW j \in 0..Len(t)
  PROVE  /\ SubSeq(t, 1, j) \in Seq(Char) /\ Len(SubSeq(t, 1, j)) = j
         /\ \A k \in 1..j : SubSeq(t, 1, j)[k] = t[k]
OBVIOUS

LEMMA EmptyText ==
  ASSUME NEW b
  PROVE  TextIn(0, b) = <<>>
<1>1. 0 \div 2 = 0
  OBVIOUS
<1> QED BY <1>1 DEF TextIn

LEMMA TextIs ==
  ASSUME Inv, NEW s \in Clean
  PROVE  /\ s \in Strings /\ len[s] \in Nat /\ len[s] % 2 = 0
         /\ \A k \in 0..(len[s] \div 2 - 1) : CharAt(buf[s], k) \in Char
         /\ Texts[s] = TextIn(len[s], buf[s])
         /\ Texts[s] \in Seq(Char) /\ Len(Texts[s]) = len[s] \div 2
<1>1. s \in Strings /\ Good(s, len[s], max[s], buf[s], ended[s])
  BY StringsAssumption DEF Inv
<1>2. len[s] \in Nat /\ len[s] % 2 = 0 /\ \A k \in 0..(len[s] \div 2 - 1) : CharAt(buf[s], k) \in Char
  BY <1>1 DEF Good
<1>3. Texts[s] = TextIn(len[s], buf[s])
  BY DEF Texts, TextOf, TextIn
<1>4. TextIn(len[s], buf[s]) \in Seq(Char) /\ Len(TextIn(len[s], buf[s])) = len[s] \div 2
  BY <1>2, TextInIs
<1> QED BY <1>1, <1>2, <1>3, <1>4

(* What a client of texts sees of a call on d.                             *)
LEMMA SeenOf ==
  ASSUME Inv, NEW d \in Strings, NEW code, NEW n, Return(d, code, n),
         NEW l, NEW b, len' = [len EXCEPT ![d] = l], buf' = [buf EXCEPT ![d] = b]
  PROVE  /\ d \in Clean => /\ Texts' = [Texts EXCEPT ![d] = TextIn(l, b)]
                           /\ Text!Return(d, code, n \div 2)
         /\ d \notin Clean => UNCHANGED Text!vars
<1>1. /\ \A s \in Strings : s # d => len'[s] = len[s] /\ buf'[s] = buf[s] /\ status'[s] = status[s]
      /\ len'[d] = l /\ buf'[d] = b /\ status'[d] = [code |-> code, of |-> n]
      /\ Clean \subseteq Strings
  BY StringsAssumption DEF Inv, Return
<1>2. \A s \in Clean : TextOf(s)' = IF s = d THEN TextIn(l, b) ELSE TextOf(s)
  <2> SUFFICES ASSUME NEW s \in Clean
               PROVE  TextOf(s)' = IF s = d THEN TextIn(l, b) ELSE TextOf(s)
    OBVIOUS
  <2>1. TextOf(s)' = TextIn(len'[s], buf'[s]) /\ TextOf(s) = TextIn(len[s], buf[s])
    BY DEF TextOf, TextIn
  <2>2. CASE s = d
    BY <1>1, <2>1, <2>2
  <2>3. CASE s # d
    <3>1. len'[s] = len[s] /\ buf'[s] = buf[s]
      BY <1>1, <2>3
    <3> QED BY <2>1, <2>3, <3>1
  <2> QED BY <2>2, <2>3
<1>3. \A s \in Clean : [code |-> status'[s].code, of |-> status'[s].of \div 2] =
        IF s = d THEN [code |-> code, of |-> n \div 2]
        ELSE [code |-> status[s].code, of |-> status[s].of \div 2]
  BY <1>1
<1>4. d \in Clean => Texts' = [Texts EXCEPT ![d] = TextIn(l, b)]
  BY <1>2 DEF Texts
<1>5. d \in Clean => Answers' = [Answers EXCEPT ![d] = [code |-> code, of |-> n \div 2]]
  BY <1>3 DEF Answers
<1>6. d \notin Clean => Texts' = Texts /\ Answers' = Answers
  BY <1>2, <1>3 DEF Texts, Answers
<1> QED BY <1>4, <1>5, <1>6 DEF Text!Return, Text!vars

LEMMA NothingSeen ==
  ASSUME Inv, NEW d \in Strings, NEW code, NEW n, Return(d, code, n), UNCHANGED <<len, buf>>
  PROVE  /\ d \in Clean => UNCHANGED Texts /\ Text!Return(d, code, n \div 2)
         /\ d \notin Clean => UNCHANGED Text!vars
<1>1. len' = [len EXCEPT ![d] = len[d]] /\ buf' = [buf EXCEPT ![d] = buf[d]]
  BY SameIs
<1>2. UNCHANGED Texts
  BY DEF Texts, TextOf
<1> QED BY <1>1, <1>2, SeenOf

Promised == [Text!Next]_(Text!vars)

LEMMA TextDescribe ==
  ASSUME Inv, NEW v \in Views, NEW lit \in Literals, NEW bytes \in Nat, Describe(v, lit, bytes),
         bytes \div 2 = (IF Len(lit) < MaxName THEN Len(lit) ELSE MaxName), bytes <= 2 * Len(lit)
  PROVE  Text!Set(v, lit)
<1>1. v \in Strings /\ v \in Clean /\ Len(lit) \in Nat /\ lit \in Seq(Char) /\ (2 * Len(lit)) \div 2 = Len(lit)
  BY LiteralIs, StringsAssumption DEF Strings
<1>2. PICK j \in 0..Len(lit) : j = bytes \div 2
  BY <1>1
<1>3. TextIn(bytes, BytesOf(lit)) = SubSeq(lit, 1, j)
  <2>1. ASSUME NEW k \in 0..(bytes \div 2 - 1)
        PROVE  CharAt(BytesOf(lit), k) = SubSeq(lit, 1, j)[k + 1]
    <3>1. k \in 0..(Len(lit) - 1) /\ k + 1 \in 1..j
      BY <1>1, <1>2
    <3> QED BY <1>1, <3>1, LiteralIs, PrefixIs DEF CharAt
  <2>2. SubSeq(lit, 1, j) \in Seq(Char) /\ Len(SubSeq(lit, 1, j)) = bytes \div 2
    BY <1>1, <1>2, PrefixIs
  <2> QED BY <2>1, <2>2, TextInIsText
<1>4. Texts' = [Texts EXCEPT ![v] = SubSeq(lit, 1, j)] /\ Text!Return(v, "success", Len(lit))
  <2>1. /\ len' = [len EXCEPT ![v] = bytes] /\ buf' = [buf EXCEPT ![v] = BytesOf(lit)]
        /\ Return(v, "success", 2 * Len(lit))
    BY DEF Describe
  <2>2. Texts' = [Texts EXCEPT ![v] = TextIn(bytes, BytesOf(lit))] /\ Text!Return(v, "success", (2 * Len(lit)) \div 2)
    BY <1>1, <2>1, SeenOf
  <2> QED BY <1>1, <1>3, <2>2
<1>5. SubSeq(lit, 1, j) = Text!Take(lit, MaxName)
  BY <1>2 DEF Text!Take
<1> QED BY <1>4, <1>5 DEF Text!Set

LEMMA TextInitString ==
  ASSUME Inv, NEW v \in Views, NEW lit \in Literals, InitString(v, lit)
  PROVE  Text!Next
<1>1. PICK bytes \in Nat : /\ bytes = IF 2 * Len(lit) >= Word - 2 THEN Word - 4 ELSE 2 * Len(lit)
                           /\ bytes <= 2 * Len(lit)
                           /\ bytes \div 2 = (IF Len(lit) < MaxName THEN Len(lit) ELSE MaxName)
  <2>1. Len(lit) \in Nat /\ Word \in Nat /\ Word >= 4 /\ Word % 2 = 0
    BY LiteralIs, SizesAre
  <2>2. CASE 2 * Len(lit) >= Word - 2
    <3>1. Word - 4 \in Nat /\ Word - 4 <= 2 * Len(lit) /\ (Word - 4) \div 2 = MaxName /\ ~(Len(lit) < MaxName)
      BY <2>1, <2>2 DEF MaxName
    <3> QED BY <2>2, <3>1
  <2>3. CASE ~(2 * Len(lit) >= Word - 2)
    <3>1. 2 * Len(lit) \in Nat /\ (2 * Len(lit)) \div 2 = Len(lit) /\ (Len(lit) < MaxName \/ Len(lit) = MaxName)
      BY <2>1, <2>3 DEF MaxName
    <3> QED BY <2>3, <3>1
  <2> QED BY <2>2, <2>3
<1>2. Describe(v, lit, bytes)
  BY <1>1 DEF InitString
<1>3. Text!Set(v, lit)
  BY <1>1, <1>2, TextDescribe
<1> QED BY <1>3 DEF Text!Next

(* A call that leaves a string without text.                               *)
LEMMA TextEmptied ==
  ASSUME Inv, NEW d \in Strings, NEW code, NEW n, Return(d, code, n),
         NEW l, NEW b, TextIn(l, b) = <<>>, len' = [len EXCEPT ![d] = l], buf' = [buf EXCEPT ![d] = b]
  PROVE  /\ d \in Clean => Texts' = [Texts EXCEPT ![d] = <<>>] /\ Text!Return(d, code, n \div 2)
         /\ d \notin Clean => UNCHANGED Text!vars
<1>1. /\ d \in Clean => /\ Texts' = [Texts EXCEPT ![d] = TextIn(l, b)]
                        /\ Text!Return(d, code, n \div 2)
      /\ d \notin Clean => UNCHANGED Text!vars
  BY SeenOf
<1> QED BY <1>1

LEMMA TextInitStringEx ==
  ASSUME Inv, NEW v \in Views, NEW lit \in Literals, InitStringEx(v, lit)
  PROVE  Text!Next
<1>1. v \in Strings /\ v \in Clean /\ Len(lit) \in Nat /\ (2 * Len(lit)) \div 2 = Len(lit)
  BY LiteralIs, StringsAssumption DEF Strings
<1>2. CASE Len(lit) > MaxName
  <2>0. PICK l : l = 0 /\ TextIn(l, BytesOf(lit)) = <<>>
    BY EmptyText
  <2>1. /\ len' = [len EXCEPT ![v] = l] /\ buf' = [buf EXCEPT ![v] = BytesOf(lit)]
        /\ Return(v, "too long", 2 * Len(lit))
    BY <1>2, <2>0 DEF InitStringEx, NoText
  <2>2. Texts' = [Texts EXCEPT ![v] = <<>>] /\ Text!Return(v, "too long", (2 * Len(lit)) \div 2)
    <3>1. TextIn(l, BytesOf(lit)) = <<>>
      BY <2>0
    <3> QED BY <1>1, <2>1, <3>1, TextEmptied
  <2>3. ~(Len(lit) <= MaxName)
    BY <1>1, <1>2, SizesAre DEF MaxName
  <2>4. Text!SetChecked(v, lit)
    BY <1>1, <2>2, <2>3 DEF Text!SetChecked
  <2> QED BY <2>4 DEF Text!Next
<1>3. CASE ~(Len(lit) > MaxName)
  <2>1. Len(lit) <= MaxName /\ MaxName \in Nat
    BY <1>1, <1>3, SizesAre DEF MaxName
  <2>2. PICK bytes \in Nat : bytes = 2 * Len(lit)
    BY <1>1
  <2>3. bytes <= 2 * Len(lit) /\ bytes \div 2 = (IF Len(lit) < MaxName THEN Len(lit) ELSE MaxName)
    BY <1>1, <2>1, <2>2
  <2>4. Describe(v, lit, bytes)
    BY <1>3, <2>2 DEF InitStringEx
  <2>5. Text!Set(v, lit)
    BY <2>3, <2>4, TextDescribe
  <2>6. Text!SetChecked(v, lit)
    BY <2>1, <2>5 DEF Text!SetChecked
  <2> QED BY <2>6 DEF Text!Next
<1> QED BY <1>2, <1>3

LEMMA TextCleared ==
  ASSUME Inv, NEW d \in Strings, Return(d, "success", 0),
         NEW l, NEW b, TextIn(l, b) = <<>>, len' = [len EXCEPT ![d] = l], buf' = [buf EXCEPT ![d] = b]
  PROVE  Promised
<1>1. /\ d \in Clean => Texts' = [Texts EXCEPT ![d] = <<>>] /\ Text!Return(d, "success", 0 \div 2)
      /\ d \notin Clean => UNCHANGED Text!vars
  BY TextEmptied
<1>2. 0 \div 2 = 0
  OBVIOUS
<1>3. CASE d \in Clean
  <2>1. Text!Clear(d)
    BY <1>1, <1>2, <1>3 DEF Text!Clear
  <2>2. d \in (Owned \intersect Clean) \union Views
    BY <1>3 DEF Strings
  <2> QED BY <2>1, <2>2 DEF Text!Next, Promised
<1> QED BY <1>1, <1>3 DEF Promised
-----------------------------------------------------------------------------
(* What a call stores at the start of a buffer.                            *)
LEMMA TextCopied ==
  ASSUME Whole, Inv, NEW d \in Owned, NEW s \in Clean, d \in Clean, CopyString(d, s)
  PROVE  Text!Copy(d, s)
<1>1. /\ d \in Strings /\ s \in Strings /\ Good(d, len[d], max[d], buf[d], ended[d])
      /\ max[d] = MaxOf[d] /\ max[d] \in Nat /\ max[d] % 2 = 0
  BY OwnedIs, StringsAssumption DEF Inv, Good, Whole
<1>2. /\ len[s] \in Nat /\ len[s] % 2 = 0
      /\ Texts[s] = TextIn(len[s], buf[s]) /\ Texts[s] \in Seq(Char) /\ Len(Texts[s]) = len[s] \div 2
      /\ \A k \in 0..(len[s] \div 2 - 1) : CharAt(buf[s], k) \in Char
  BY TextIs
<1>3. PICK n \in Nat : /\ n = (IF len[s] > max[d] THEN max[d] ELSE len[s])
                       /\ n <= len[s] /\ n <= max[d] /\ n % 2 = 0
  BY <1>1, <1>2
<1>4. PICK j \in Nat : /\ j = n \div 2 /\ j <= len[s] \div 2
                       /\ j = (IF len[s] \div 2 < max[d] \div 2 THEN len[s] \div 2 ELSE max[d] \div 2)
  BY <1>1, <1>2, <1>3
<1>5. PICK v : v = LoadAt(buf[s], 0, n)
  OBVIOUS
<1>6. /\ \A x \in 0..(n - 1) : v[x] \in Byte
      /\ \A k \in 0..(n \div 2 - 1) : CharAt(v, k) = CharAt(buf[s], k)
  BY <1>1, <1>3, <1>5, LoadedIs
<1>7. PICK new : new = Stored(buf[d], 0, n, v, max[d] - n, n)
  OBVIOUS
<1>8. /\ len' = [len EXCEPT ![d] = n] /\ buf' = [buf EXCEPT ![d] = new]
      /\ Return(d, "success", len[s])
  <2>1. n - (n % 2) = n
    BY <1>3
  <2> QED BY <1>1, <1>3, <1>5, <1>7, <2>1 DEF CopyString, Stored
<1>9. \A x \in 0..(n - 1) : new[x] = v[x]
  <2>1. PICK at \in Nat : at = 0
    OBVIOUS
  <2>2. PICK top \in Int : top = MaxOf[d] + Guard - 1 /\ max[d] <= top + 1
    BY <1>1, SizesAre
  <2>3. buf[d] \in [0..top -> Byte]
    BY <1>1, <2>2 DEF Good
  <2>4. n <= at + n /\ at + n <= n /\ at + n <= top + 1 /\ max[d] - n \in Int
        /\ (max[d] - n >= 2 => n + 2 <= top + 1)
    BY <1>1, <1>3, <2>1, <2>2
  <2>5. \A x \in 0..(n - 1) :
          Stored(buf[d], at, n, v, max[d] - n, n)[x] = IF x < at THEN buf[d][x] ELSE v[x - at]
    <3>1. Fits(top, buf[d], at, n, v, max[d] - n, n)
      BY <1>6, <2>3, <2>4 DEF Fits
    <3> QED BY <2>4, <3>1, StoredBefore
  <2>6. \A x \in 0..(n - 1) : ~(x < at) /\ x - at = x
    BY <2>1
  <2>7. new = Stored(buf[d], at, n, v, max[d] - n, n)
    BY <1>7, <2>1
  <2> QED BY <2>5, <2>6, <2>7
<1>10. TextIn(n, new) = SubSeq(Texts[s], 1, j)
  <2>1. /\ SubSeq(Texts[s], 1, j) \in Seq(Char) /\ Len(SubSeq(Texts[s], 1, j)) = j
        /\ \A k \in 1..j : SubSeq(Texts[s], 1, j)[k] = Texts[s][k]
    <3>1. j \in 0..Len(Texts[s])
      BY <1>2, <1>4
    <3> QED BY <1>2, <3>1, PrefixIs
  <2>2. \A k \in 1..(len[s] \div 2) : Texts[s][k] = CharAt(buf[s], k - 1)
    BY <1>2, TextInIs
  <2>3. ASSUME NEW k \in 0..(n \div 2 - 1)
        PROVE  CharAt(new, k) = SubSeq(Texts[s], 1, j)[k + 1]
    <3>0. k \in 0..(j - 1) /\ n = 2 * j
      BY <1>3, <1>4
    <3>h. PICK h \in Nat : h = len[s] \div 2 /\ j <= h
      BY <1>2, <1>4
    <3>1. /\ 2 * k \in 0..(n - 1) /\ 2 * k + 1 \in 0..(n - 1)
          /\ k + 1 \in 1..j /\ k + 1 \in 1..(len[s] \div 2) /\ (k + 1) - 1 = k
      <4>1. k + 1 \in 1..h
        BY <3>0, <3>h
      <4> QED BY <3>0, <3>h, <4>1
    <3>2. CharAt(new, k) = CharAt(v, k)
      BY <1>9, <3>1 DEF CharAt
    <3> QED BY <1>6, <2>1, <2>2, <3>1, <3>2
  <2>4. Len(SubSeq(Texts[s], 1, j)) = n \div 2
    BY <1>4, <2>1
  <2> QED BY <2>1, <2>3, <2>4, TextInIsText
<1>11. Texts' = [Texts EXCEPT ![d] = SubSeq(Texts[s], 1, j)] /\ Text!Return(d, "success", Len(Texts[s]))
  <2>1. Texts' = [Texts EXCEPT ![d] = TextIn(n, new)] /\ Text!Return(d, "success", len[s] \div 2)
    BY <1>1, <1>8, SeenOf
  <2> QED BY <1>2, <1>10, <2>1
<1>12. SubSeq(Texts[s], 1, j) = Text!Take(Texts[s], MaxOf[d] \div 2)
  BY <1>1, <1>2, <1>4 DEF Text!Take
<1> QED BY <1>11, <1>12 DEF Text!Copy

LEMMA TextCopyString ==
  ASSUME Whole, Inv, NEW d \in Owned, NEW s \in Strings, d \in Clean => s \in Clean, CopyString(d, s)
  PROVE  Promised
<1>1. CASE d \in Clean
  <2>1. Text!Copy(d, s) /\ s \in (Owned \intersect Clean) \union Views
    BY <1>1, TextCopied DEF Strings
  <2> QED BY <1>1, <2>1 DEF Text!Next, Promised
<1>2. CASE d \notin Clean
  <2>1. \E l, b : /\ len' = [len EXCEPT ![d] = l] /\ buf' = [buf EXCEPT ![d] = b]
                  /\ Return(d, "success", len[s])
    BY DEF CopyString
  <2>2. PICK l, b : /\ len' = [len EXCEPT ![d] = l] /\ buf' = [buf EXCEPT ![d] = b]
                    /\ Return(d, "success", len[s])
    BY <2>1
  <2>3. UNCHANGED Text!vars
    BY <1>2, <2>2, OwnedIs, SeenOf
  <2> QED BY <2>3 DEF Promised
<1> QED BY <1>1, <1>2

LEMMA StoredText ==
  ASSUME NEW top, NEW b, NEW at, NEW n, NEW v, NEW spare, NEW newlen,
         Fits(top, b, at, n, v, spare, newlen), newlen <= at + n, at + n <= newlen,
         at % 2 = 0, n % 2 = 0,
         \A k \in 0..(at \div 2 - 1) : CharAt(b, k) \in Char,
         \A k \in 0..(n \div 2 - 1) : CharAt(v, k) \in Char
  PROVE  TextIn(newlen, Stored(b, at, n, v, spare, newlen)) = TextIn(at, b) \o TextIn(n, v)
<1>1. at \in Nat /\ n \in Nat /\ newlen \in Nat
  BY DEF Fits
<1>2. newlen \div 2 = at \div 2 + n \div 2
  BY <1>1
<1>3. \A x \in 0..(newlen - 1) :
        Stored(b, at, n, v, spare, newlen)[x] = IF x < at THEN b[x] ELSE v[x - at]
  BY StoredBefore
<1>4. Joins(Stored(b, at, n, v, spare, newlen), newlen, b, at, v, n)
  BY <1>1, <1>2, <1>3 DEF Joins
<1> QED BY <1>4, JoinedText

LEMMA TextAppended ==
  ASSUME Inv, NEW d \in Owned, d \in Clean, NEW newlen \in Nat, NEW n \in Nat, NEW v,
         Put(d, newlen, len[d], n, v), newlen <= len[d] + n, len[d] + n <= newlen,
         newlen <= max[d], n % 2 = 0,
         \A x \in 0..(n - 1) : v[x] \in Byte,
         \A k \in 0..(n \div 2 - 1) : CharAt(v, k) \in Char
  PROVE  Text!Add(d, TextIn(n, v))
<1>1. /\ d \in Strings /\ max[d] = MaxOf[d] /\ max[d] \in Nat
      /\ buf[d] \in [0..(MaxOf[d] + Guard - 1) -> Byte]
  BY OwnedIs DEF Inv, Good
<1>2. /\ len[d] \in Nat /\ len[d] % 2 = 0
      /\ \A k \in 0..(len[d] \div 2 - 1) : CharAt(buf[d], k) \in Char
      /\ Texts[d] = TextIn(len[d], buf[d]) /\ Len(Texts[d]) = len[d] \div 2
  BY TextIs
<1>3. PICK at \in Nat : at = len[d]
  BY <1>2
<1>4. PICK spare \in Int : spare = max[d] - newlen
  BY <1>1
<1>5. PICK new : new = Stored(buf[d], at, n, v, spare, newlen)
  OBVIOUS
<1>6. /\ len' = [len EXCEPT ![d] = newlen] /\ buf' = [buf EXCEPT ![d] = new]
      /\ Return(d, "success", n)
  <2>1. newlen = at + n
    BY <1>3
  <2> QED BY <1>1, <1>3, <1>4, <1>5, <2>1 DEF Put, Stored, Inv
<1>7. TextIn(newlen, new) = TextIn(at, buf[d]) \o TextIn(n, v)
  <2>1. PICK top \in Int : top = MaxOf[d] + Guard - 1 /\ max[d] <= top + 1
    BY <1>1, SizesAre
  <2>2. newlen <= at + n /\ at + n <= newlen
    BY <1>3
  <2>3. at + n <= top + 1 /\ (spare >= 2 => newlen + 2 <= top + 1)
    BY <1>1, <1>4, <2>1, <2>2
  <2>4. buf[d] \in [0..top -> Byte]
    BY <1>1, <2>1
  <2>5. Fits(top, buf[d], at, n, v, spare, newlen)
    BY <2>3, <2>4 DEF Fits
  <2>6. at % 2 = 0 /\ \A k \in 0..(at \div 2 - 1) : CharAt(buf[d], k) \in Char
    BY <1>2, <1>3
  <2>7. TextIn(newlen, Stored(buf[d], at, n, v, spare, newlen)) = TextIn(at, buf[d]) \o TextIn(n, v)
    BY <2>2, <2>5, <2>6, StoredText
  <2> QED BY <1>5, <2>7
<1>8. Texts' = [Texts EXCEPT ![d] = TextIn(newlen, new)] /\ Text!Return(d, "success", n \div 2)
  BY <1>1, <1>6, SeenOf
<1>9. Len(TextIn(n, v)) = n \div 2
  BY TextInIs
<1>10. Len(Texts[d]) + Len(TextIn(n, v)) <= MaxOf[d] \div 2
  <2>1. len[d] \div 2 + n \div 2 <= max[d] \div 2
    BY <1>1, <1>2
  <2> QED BY <1>1, <1>2, <1>9, <2>1
<1>11. Texts' = [Texts EXCEPT ![d] = Texts[d] \o TextIn(n, v)]
  BY <1>2, <1>3, <1>7, <1>8
<1> QED BY <1>8, <1>9, <1>10, <1>11 DEF Text!Add

(* A refused call, or one that had nothing to do.                          *)
LEMMA TextKept ==
  ASSUME Inv, NEW d \in Owned, d \notin Clean, NEW code, NEW n, Return(d, code, n),
         UNCHANGED <<len, buf>>
  PROVE  Promised
BY OwnedIs, NothingSeen DEF Promised

LEMMA TextInitNull ==
  ASSUME Inv, NEW v \in Views, InitNull(v)
  PROVE  Promised
<1>1. PICK l : l = 0 /\ TextIn(l, Nowhere) = <<>>
  BY EmptyText
<1>2. TextIn(l, Nowhere) = <<>>
  BY <1>1
<1>3. /\ len' = [len EXCEPT ![v] = l] /\ buf' = [buf EXCEPT ![v] = Nowhere]
      /\ Return(v, "success", 0)
  BY <1>1 DEF InitNull, NoText
<1> QED BY <1>2, <1>3, ViewIs, TextCleared

LEMMA TextCopyNull ==
  ASSUME Inv, NEW d \in Owned, CopyNull(d)
  PROVE  Promised
<1>1. PICK l : l = 0 /\ TextIn(l, buf[d]) = <<>>
  BY EmptyText
<1>2. TextIn(l, buf[d]) = <<>> /\ d \in Strings
  BY <1>1, OwnedIs
<1>3. /\ len' = [len EXCEPT ![d] = l] /\ buf' = [buf EXCEPT ![d] = buf[d]]
      /\ Return(d, "success", 0)
  BY <1>1, <1>2, SameIs DEF CopyNull
<1> QED BY <1>2, <1>3, TextCleared

LEMMA TextAppendNull ==
  ASSUME Inv, NEW d \in Owned, AppendNull(d)
  PROVE  Promised
<1>1. Return(d, "success", 0) /\ UNCHANGED <<len, buf>> /\ d \in Strings
  BY OwnedIs DEF AppendNull, NoChange
<1>2. /\ d \in Clean => UNCHANGED Texts /\ Text!Return(d, "success", 0 \div 2)
      /\ d \notin Clean => UNCHANGED Text!vars
  BY <1>1, NothingSeen
<1>3. 0 \div 2 = 0
  OBVIOUS
<1>4. CASE d \in Clean
  <2>1. Text!Nothing(d)
    BY <1>2, <1>3, <1>4 DEF Text!Nothing
  <2> QED BY <1>4, <2>1 DEF Text!Next, Promised
<1> QED BY <1>2, <1>4 DEF Promised

LEMMA TextAppendLiteral ==
  ASSUME Whole, Inv, NEW d \in Owned, NEW lit \in Literals, AppendLiteral(d, lit)
  PROVE  Promised
<1>1. /\ d \in Strings /\ len[d] \in Nat /\ max[d] \in Nat /\ max[d] = MaxOf[d]
      /\ Len(lit) \in Nat /\ lit \in Seq(Char)
  BY OwnedIs, LiteralIs DEF Inv
<1>2. CASE Len(lit) > MaxName \/ len[d] + 2 * Len(lit) > max[d]
  <2>1. Return(d, "too small", 2 * Len(lit)) /\ UNCHANGED <<len, buf>>
    BY <1>1, <1>2 DEF AppendLiteral, Refuse
  <2>2. /\ d \in Clean => UNCHANGED Texts /\ Text!Return(d, "too small", (2 * Len(lit)) \div 2)
        /\ d \notin Clean => UNCHANGED Text!vars
    BY <1>1, <2>1, NothingSeen
  <2>3. CASE d \in Clean
    <3>1. len[d] % 2 = 0 /\ Len(Texts[d]) = len[d] \div 2
      BY <2>3, TextIs
    <3>2. (2 * Len(lit)) \div 2 = Len(lit)
      BY <1>1
    <3>3. Text!Refuse(d, lit)
      BY <2>2, <2>3, <3>2 DEF Text!Refuse
    <3>4. ~(Len(lit) <= MaxName) \/ ~(Len(Texts[d]) + Len(lit) <= MaxOf[d] \div 2)
      <4>1. max[d] % 2 = 0
        BY <1>1, <2>3 DEF Whole
      <4>2. CASE Len(lit) > MaxName
        BY <1>1, <4>2, SizesAre DEF MaxName
      <4>3. CASE len[d] + 2 * Len(lit) > max[d]
        <5>1. ~(len[d] \div 2 + Len(lit) <= max[d] \div 2)
          BY <1>1, <3>1, <4>1, <4>3
        <5> QED BY <1>1, <3>1, <5>1
      <4> QED BY <1>2, <4>2, <4>3
    <3>5. Text!AddLiteral(d, lit)
      BY <2>3, <3>3, <3>4 DEF Text!AddLiteral, Text!Add
    <3> QED BY <2>3, <3>5 DEF Text!Next, Promised
  <2> QED BY <2>2, <2>3 DEF Promised
<1>3. CASE ~(Len(lit) > MaxName \/ len[d] + 2 * Len(lit) > max[d])
  <2>1. PICK n \in Nat : n = 2 * Len(lit) /\ n % 2 = 0 /\ n \div 2 = Len(lit)
    BY <1>1
  <2>2. PICK newlen \in Nat : newlen = len[d] + n
    BY <1>1
  <2>3. Put(d, newlen, len[d] - (len[d] % 2), n, BytesOf(lit))
    BY <1>3, <2>1, <2>2 DEF AppendLiteral
  <2>4. CASE d \in Clean
    <3>1. newlen <= len[d] + n /\ len[d] + n <= newlen /\ newlen <= max[d] /\ len[d] - (len[d] % 2) = len[d]
      <4>1. len[d] % 2 = 0
        BY <2>4, TextIs
      <4> QED BY <1>1, <1>3, <2>1, <2>2, <4>1
    <3>2. /\ \A x \in 0..(n - 1) : BytesOf(lit)[x] \in Byte
          /\ \A k \in 0..(n \div 2 - 1) : CharAt(BytesOf(lit), k) = lit[k + 1] /\ lit[k + 1] \in Char
      <4>1. /\ \A x \in 0..(n - 1) : x \in 0..(2 * Len(lit) + 1)
            /\ \A k \in 0..(n \div 2 - 1) : k \in 0..(Len(lit) - 1)
        BY <2>1
      <4> QED BY <4>1, LiteralIs DEF CharAt
    <3>3. TextIn(n, BytesOf(lit)) = lit
      BY <1>1, <2>1, <3>2, TextInIsText
    <3>4. Put(d, newlen, len[d], n, BytesOf(lit))
      BY <2>3, <3>1
    <3>5. \A k \in 0..(n \div 2 - 1) : CharAt(BytesOf(lit), k) \in Char
      BY <3>2
    <3>6. Text!Add(d, TextIn(n, BytesOf(lit)))
      BY <2>1, <2>4, <3>1, <3>2, <3>4, <3>5, TextAppended
    <3>7. Len(lit) <= MaxName
      BY <1>1, <1>3, SizesAre DEF MaxName
    <3>8. Text!AddLiteral(d, lit)
      BY <3>3, <3>6, <3>7 DEF Text!AddLiteral
    <3> QED BY <2>4, <3>8 DEF Text!Next, Promised
  <2>5. CASE d \notin Clean
    <3>1. PICK l, b : /\ len' = [len EXCEPT ![d] = l] /\ buf' = [buf EXCEPT ![d] = b]
                      /\ Return(d, "success", n)
      BY <2>3 DEF Put
    <3>2. UNCHANGED Text!vars
      BY <1>1, <2>5, <3>1, SeenOf
    <3> QED BY <3>2 DEF Promised
  <2> QED BY <2>4, <2>5
<1> QED BY <1>2, <1>3

LEMMA TextAppendString ==
  ASSUME Whole, Inv, NEW d \in Owned, NEW s \in Clean, AppendString(d, s)
  PROVE  Promised
<1>1. /\ d \in Strings /\ s \in Strings /\ len[d] \in Nat /\ max[d] \in Nat /\ max[d] = MaxOf[d]
      /\ len[s] \in Nat /\ len[s] % 2 = 0
  BY OwnedIs, TextIs DEF Inv
<1>2. Texts[s] = TextIn(len[s], buf[s]) /\ Len(Texts[s]) = len[s] \div 2
  BY TextIs
<1>3. s \in (Owned \intersect Clean) \union Views
  BY <1>1 DEF Strings
<1>4. CASE len[s] = 0
  <2>1. AppendNull(d)
    BY <1>4 DEF AppendString, AppendNull
  <2> QED BY <2>1, TextAppendNull
<1>5. CASE len[s] > 0 /\ len[d] + len[s] > max[d]
  <2>1. Return(d, "too small", len[s]) /\ UNCHANGED <<len, buf>>
    <3>1. len[s] # 0 /\ ~(len[d] + len[s] <= max[d])
      BY <1>1, <1>5
    <3> QED BY <1>5, <3>1 DEF AppendString, Refuse
  <2>2. /\ d \in Clean => UNCHANGED Texts /\ Text!Return(d, "too small", len[s] \div 2)
        /\ d \notin Clean => UNCHANGED Text!vars
    BY <1>1, <2>1, NothingSeen
  <2>3. CASE d \in Clean
    <3>1. len[d] % 2 = 0 /\ Len(Texts[d]) = len[d] \div 2 /\ max[d] % 2 = 0
      BY <1>1, <2>3, TextIs DEF Whole
    <3>2. ~(len[d] \div 2 + len[s] \div 2 <= max[d] \div 2)
      BY <1>1, <1>5, <3>1
    <3>3. ~(Len(Texts[d]) + Len(Texts[s]) <= MaxOf[d] \div 2)
      BY <1>1, <1>2, <3>1, <3>2
    <3>4. Text!Add(d, Texts[s])
      BY <1>2, <2>2, <2>3, <3>3 DEF Text!Add, Text!Refuse
    <3> QED BY <1>3, <2>3, <3>4 DEF Text!Next, Promised
  <2> QED BY <2>2, <2>3 DEF Promised
<1>6. CASE len[s] > 0 /\ len[d] + len[s] <= max[d]
  <2>1. PICK newlen \in Nat : newlen = len[d] + len[s]
    BY <1>1
  <2>2. PICK n \in Nat : n = len[s]
    BY <1>1
  <2>3. PICK v : v = LoadAt(buf[s], 0, n)
    OBVIOUS
  <2>4. Put(d, newlen, len[d], n, v)
    <3>1. len[s] # 0 /\ ~(len[d] + len[s] > max[d]) /\ len[s] % 2 # 1
      BY <1>1, <1>6
    <3> QED BY <1>1, <1>6, <2>1, <2>2, <2>3, <3>1 DEF AppendString
  <2>5. CASE d \in Clean
    <3>1. newlen <= len[d] + n /\ len[d] + n <= newlen /\ newlen <= max[d] /\ n % 2 = 0 /\ n <= len[s]
      BY <1>1, <1>6, <2>1, <2>2
    <3>2. /\ \A x \in 0..(n - 1) : v[x] \in Byte
          /\ \A k \in 0..(n \div 2 - 1) : CharAt(v, k) = CharAt(buf[s], k) /\ CharAt(buf[s], k) \in Char
      BY <1>1, <2>3, <3>1, LoadedIs
    <3>3. \A k \in 0..(n \div 2 - 1) : CharAt(v, k) \in Char
      BY <3>2
    <3>4. Text!Add(d, TextIn(n, v))
      BY <2>4, <2>5, <3>1, <3>2, <3>3, TextAppended
    <3>5. TextIn(n, v) = Texts[s]
      <4>1. Texts[s] \in Seq(Char) /\ Len(Texts[s]) = n \div 2
        BY <2>2, TextIs
      <4>2. \A k \in 1..(n \div 2) : Texts[s][k] = CharAt(buf[s], k - 1)
        BY <1>1, <1>2, <2>2, <3>2, TextInIs
      <4>3. ASSUME NEW k \in 0..(n \div 2 - 1)
            PROVE  CharAt(v, k) = Texts[s][k + 1]
        <5>1. k + 1 \in 1..(n \div 2) /\ (k + 1) - 1 = k
          OBVIOUS
        <5> QED BY <3>2, <4>2, <5>1
      <4> QED BY <4>1, <4>3, TextInIsText
    <3> QED BY <1>3, <2>5, <3>4, <3>5 DEF Text!Next, Promised
  <2>6. CASE d \notin Clean
    <3>1. PICK l, b : /\ len' = [len EXCEPT ![d] = l] /\ buf' = [buf EXCEPT ![d] = b]
                      /\ Return(d, "success", n)
      BY <2>4 DEF Put
    <3>2. UNCHANGED Text!vars
      BY <1>1, <2>6, <3>1, SeenOf
    <3> QED BY <3>2 DEF Promised
  <2> QED BY <2>5, <2>6
<1> QED BY <1>1, <1>4, <1>5, <1>6
-----------------------------------------------------------------------------
LEMMA TextInit ==
  Init => Text!Init
<1> SUFFICES ASSUME Init
             PROVE  Text!Init
  OBVIOUS
<1>1. (Owned \intersect Clean) \union Views = Clean
  BY StringsAssumption DEF Strings
<1>2. ASSUME NEW s \in Clean
      PROVE  TextOf(s) = <<>> /\ status[s].code = "none" /\ status[s].of \div 2 = 0
  <2>1. s \in Strings
    BY StringsAssumption
  <2>2. len[s] = 0 /\ status[s].code = "none" /\ status[s].of = 0
    BY <2>1 DEF Init
  <2>3. TextOf(s) = TextIn(len[s], buf[s])
    BY DEF TextOf, TextIn
  <2>4. TextIn(len[s], buf[s]) = <<>>
    BY <2>2, EmptyText
  <2>5. 0 \div 2 = 0
    OBVIOUS
  <2> QED BY <2>2, <2>3, <2>4, <2>5
<1>3. Texts = [s \in Clean |-> <<>>]
  BY <1>2 DEF Texts
<1>4. Answers = [s \in Clean |-> [code |-> "none", of |-> 0]]
  BY <1>2 DEF Answers
<1> QED BY <1>1, <1>3, <1>4 DEF Text!Init

LEMMA TextStep ==
  ASSUME Whole
  PROVE  Inv /\ [Next]_vars => Promised
<1>1. UNCHANGED vars => Promised
  BY DEF vars, Promised, Text!vars, Texts, TextOf, Answers
<1>2. Text!Next => Promised
  BY DEF Promised
<1> QED BY <1>1, <1>2, TextInitString, TextInitStringEx, TextInitNull, TextCopyString, TextCopyNull,
           TextAppendLiteral, TextAppendNull, TextAppendString DEF Next

(* To a client that keeps its strings in whole characters, bytes, 16-bit   *)
(* lengths and NULs are texts: a copy keeps what fits, an append adds the  *)
(* whole text or changes nothing, and what is returned says which.         *)
THEOREM StringsAreTexts ==
  ASSUME Whole
  PROVE  Spec => KeepsText
<1>1. Inv /\ [Next]_vars => [Text!Next]_(Text!vars)
  BY TextStep DEF Promised
<1> QED BY <1>1, TextInit, InvHolds, PTL DEF Spec, KeepsText, Text!Spec
=============================================================================
