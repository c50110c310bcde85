-------------------------- MODULE SecureCrt_proofs --------------------------
(***************************************************************************)
(* The bounded string functions and strtok_s, block by block, do what the  *)
(* scalar loops do, load nothing that these would not have been allowed to *)
(* and leave a client's contexts good, for buffers, registers and pages of *)
(* any size and whatever is called on them.                                *)
(***************************************************************************)
EXTENDS SecureCrt, TLAPS, WellFoundedInduction, FiniteSetTheorems

Cell(a) == InArray(a, 1)
NoNul(m, lo, hi) == \A x \in lo..(hi - 1) : m[x] # Nul

(* There is a string at a, within one array.                               *)
String(m, a) == a \in Nat /\ Cell(a) /\ Ends(m, a)

Memory(m) ==
  /\ m \in [DOMAIN m -> Nat] /\ DOMAIN m \subseteq Nat
  /\ \A r \in Arrays : \A a \in r.base..(r.base + r.room - 1) : PageOf(a) \subseteq DOMAIN m

(* Memory is changed within some cells only.                               *)
Differ(m, k, given) == \A x \in DOMAIN m \ given : m[x] = k[x]

From == IF req.dst = Null THEN ctx[req.ctx] ELSE req.dst
-----------------------------------------------------------------------------
(* Every set of addresses has a least one, and only one.                   *)
LEMMA LeastIs ==
  ASSUME NEW S \in SUBSET Nat, S # {}
  PROVE  LeastOf(S) \in S /\ \A j \in S : LeastOf(S) <= j
<1>1. \E i \in S : \A j \in S : ~ (<<j, i>> \in OpToRel(<, Nat))
  BY WFMin, NatLessThanWellFounded
<1>2. PICK i \in S : \A j \in S : ~ (<<j, i>> \in OpToRel(<, Nat))
  BY <1>1
<1>3. \A j \in S : i <= j
  <2>1. TAKE j \in S
  <2>2. <<j, i>> \in Nat \X Nat
    OBVIOUS
  <2>3. ~ (j < i)
    BY <1>2, <2>2 DEF OpToRel
  <2> QED BY <2>3
<1> QED BY <1>3 DEF LeastOf

LEMMA LeastOnly ==
  ASSUME NEW S \in SUBSET Nat, NEW x \in S, \A j \in S : x <= j
  PROVE  LeastOf(S) = x
<1> DEFINE l == LeastOf(S)
<1>1. l \in S /\ l <= x
  BY LeastIs
<1> HIDE DEF l
<1>2. x <= l /\ l \in Nat /\ x \in Nat
  BY <1>1
<1>3. l = x
  BY <1>1, <1>2
<1> QED BY <1>3 DEF l
-----------------------------------------------------------------------------
(* Pages: what begins in one with a block to go ends there.                *)

LEMMA SamePage ==
  ASSUME NEW a \in Nat, a % Page <= Page - Block, NEW x \in BlockAt(a)
  PROVE  x \div Page = a \div Page /\ x \in PageOf(a)
<1>1. Page \in Nat \ {0} /\ Block \in Nat \ {0}
  BY CrtAssumption
<1> DEFINE q == a \div Page
           r == a % Page
<1>2. q \in Nat /\ r \in 0..(Page - 1) /\ a = Page * q + r
  BY <1>1
<1>3. PICK d \in 0..(Block - 1) : x = a + d
  <2>1. x - a \in 0..(Block - 1) /\ x = a + (x - a)
    BY <1>1 DEF BlockAt
  <2> QED BY <2>1
<1> HIDE DEF q, r
<1>4. r + d \in 0..(Page - 1) /\ x = Page * q + (r + d)
  BY <1>1, <1>2, <1>3 DEF r
<1>5. x \div Page = q
  <2>1. \A s \in 0..(Page - 1) : (Page * q + s) \div Page = q
    BY <1>1, <1>2
  <2> QED BY <1>4, <2>1
<1>6. x \in PageOf(a)
  BY <1>1, <1>2, <1>4 DEF PageOf, r
<1> QED BY <1>5, <1>6 DEF q

LEMMA AlignedPage ==
  ASSUME NEW a \in Nat, a % Block = 0
  PROVE  a % Page <= Page - Block
<1>1. Page \in Nat \ {0} /\ Block \in Nat \ {0} /\ Page % Block = 0
  BY CrtAssumption
<1> DEFINE q == a \div Page
           r == a % Page
           j == a \div Block
           k == Page \div Block
<1>2. q \in Nat /\ r \in 0..(Page - 1) /\ a = Page * q + r
  BY <1>1
<1>3. j \in Nat /\ a = Block * j
  BY <1>1
<1>4. k \in Nat /\ Page = Block * k
  BY <1>1
<1> HIDE DEF q, r, j, k
<1>5. (Block * k) * q = Block * (k * q)
  BY <1>1, <1>2, <1>4
<1> DEFINE i == j - k * q
<1>6. i \in Int /\ k * q \in Int
  BY <1>2, <1>3, <1>4
<1>7. Block * j = Block * (k * q) + r
  BY <1>2, <1>3, <1>4, <1>5
<1>8. Block * i = Block * j - Block * (k * q)
  BY <1>1, <1>3, <1>6
<1>9. r = Block * i
  BY <1>1, <1>2, <1>3, <1>6, <1>7, <1>8
<1> HIDE DEF i
<1>10. i <= k - 1
  <2>1. SUFFICES ASSUME i >= k PROVE FALSE
    BY <1>4, <1>6
  <2>2. Block * i >= Block * k
    BY <1>1, <1>4, <1>6, <2>1
  <2> QED BY <1>1, <1>2, <1>4, <1>9, <2>2
<1>11. Block * i <= Block * (k - 1)
  BY <1>1, <1>4, <1>6, <1>10
<1>12. Block * (k - 1) = Block * k - Block
  BY <1>1, <1>4
<1>13. r <= Page - Block
  <2>1. Block * (k - 1) \in Int /\ Block * i \in Int
    BY <1>1, <1>4, <1>6
  <2> QED BY <1>1, <1>4, <1>9, <1>11, <1>12, <2>1
<1> QED BY <1>13 DEF r

LEMMA AlignedIs ==
  ASSUME NEW a \in Nat
  PROVE  /\ Aligned(a) \in Nat /\ Aligned(a) % Block = 0
         /\ Aligned(a) <= a /\ a < Aligned(a) + Block
<1>1. Block \in Nat \ {0}
  BY CrtAssumption
<1> DEFINE j == a \div Block
           r == a % Block
<1>2. j \in Nat /\ r \in 0..(Block - 1) /\ a = Block * j + r
  BY <1>1
<1> HIDE DEF j
<1>3. Aligned(a) = Block * j
  BY <1>1, <1>2 DEF Aligned
<1>4. (Block * j) % Block = 0 /\ Block * j \in Nat
  BY <1>1, <1>2
<1> QED BY <1>1, <1>2, <1>3, <1>4

LEMMA NextAligned ==
  ASSUME NEW a \in Nat, a % Block = 0
  PROVE  a + Block \in Nat /\ (a + Block) % Block = 0
<1>1. Block \in Nat \ {0}
  BY CrtAssumption
<1> DEFINE j == a \div Block
<1>2. j \in Nat /\ a = Block * j
  BY <1>1
<1> HIDE DEF j
<1>3. a + Block = Block * (j + 1) /\ j + 1 \in Nat
  BY <1>1, <1>2
<1>4. (Block * (j + 1)) % Block = 0
  BY <1>1, <1>3
<1> QED BY <1>1, <1>3, <1>4
-----------------------------------------------------------------------------
(* Arrays: they share no cell, so that there is one end to every cell.     *)

LEMMA ArraysAre ==
  ASSUME NEW r \in Arrays PROVE r.base \in Nat /\ r.room \in Nat
  BY CrtAssumption

LEMMA EndOfIs ==
  ASSUME NEW r \in Arrays, NEW a \in r.base..(r.base + r.room - 1)
  PROVE  EndOf(a) = r.base + r.room
<1> DEFINE s == CHOOSE s \in Arrays : a \in s.base..(s.base + s.room - 1)
<1>1. s \in Arrays /\ a \in s.base..(s.base + s.room - 1)
  OBVIOUS
<1> HIDE DEF s
<1>2. r.base \in Nat /\ r.room \in Nat /\ s.base \in Nat /\ s.room \in Nat
  BY <1>1, ArraysAre
<1>3. ~(r.base + r.room <= s.base \/ s.base + s.room <= r.base)
  BY <1>1, <1>2
<1>4. s = r
  BY <1>1, <1>3, ArraysAssumption
<1> QED BY <1>4 DEF EndOf, s

LEMMA CellIs ==
  ASSUME NEW a, Cell(a), a \in Int
  PROVE  \E r \in Arrays : a \in r.base..(r.base + r.room - 1) /\ EndOf(a) = r.base + r.room
<1>1. PICK r \in Arrays : r.base <= a /\ a + 1 <= r.base + r.room
  BY DEF Cell, InArray
<1>2. a \in r.base..(r.base + r.room - 1)
  BY <1>1, ArraysAre
<1> QED BY <1>2, EndOfIs

LEMMA BehindCell ==
  ASSUME NEW a \in Nat, Cell(a)
  PROVE  /\ EndOf(a) \in Nat /\ a < EndOf(a)
         /\ \A x \in a..(EndOf(a) - 1) : x \in Nat /\ Cell(x) /\ EndOf(x) = EndOf(a)
<1>1. PICK r \in Arrays : a \in r.base..(r.base + r.room - 1) /\ EndOf(a) = r.base + r.room
  BY CellIs
<1>2. r.base \in Nat /\ r.room \in Nat
  BY ArraysAre
<1>3. ASSUME NEW x \in a..(EndOf(a) - 1)
      PROVE  x \in Nat /\ Cell(x) /\ EndOf(x) = EndOf(a)
  <2>1. x \in r.base..(r.base + r.room - 1) /\ x \in Nat
    BY <1>1, <1>2
  <2>2. r.base <= x /\ x + 1 <= r.base + r.room
    BY <1>2, <2>1
  <2> QED BY <1>1, <2>1, <2>2, EndOfIs DEF Cell, InArray
<1> QED BY <1>1, <1>2, <1>3

(* The n cells from a on.                                                  *)
LEMMA CellsOf ==
  ASSUME NEW a \in Nat, NEW n \in Nat, InArray(a, n), NEW x \in a..(a + n - 1)
  PROVE  x \in Nat /\ Cell(x) /\ a + n <= EndOf(x)
<1>1. PICK r \in Arrays : r.base <= a /\ a + n <= r.base + r.room
  BY DEF InArray
<1>2. r.base \in Nat /\ r.room \in Nat
  BY ArraysAre
<1>3. x \in Nat /\ x \in r.base..(r.base + r.room - 1) /\ r.base <= x /\ x + 1 <= r.base + r.room
  BY <1>1, <1>2
<1> QED BY <1>1, <1>3, EndOfIs DEF Cell, InArray

LEMMA SmallArray ==
  ASSUME NEW a \in Nat, NEW n \in Nat, InArray(a, n)
  PROVE  n < Truncate /\ Truncate \in Nat
<1>1. PICK r \in Arrays : r.base <= a /\ a + n <= r.base + r.room
  BY DEF InArray
<1>2. r.base \in Nat /\ r.room \in Nat /\ r.room < Truncate /\ Truncate \in Nat
  BY ArraysAre, ArraysAssumption
<1> QED BY <1>1, <1>2

LEMMA CellMapped ==
  ASSUME NEW m, Memory(m), NEW a \in Nat, Cell(a)
  PROVE  PageOf(a) \subseteq DOMAIN m /\ a \in DOMAIN m /\ m[a] \in Nat
<1>1. PICK r \in Arrays : a \in r.base..(r.base + r.room - 1)
  BY CellIs
<1>2. PageOf(a) \subseteq DOMAIN m
  BY <1>1 DEF Memory
<1>3. a \in PageOf(a)
  <2>1. Page \in Nat \ {0}
    BY CrtAssumption
  <2>2. a % Page \in 0..(Page - 1)
    BY <2>1
  <2> QED BY <2>1, <2>2 DEF PageOf
<1> QED BY <1>2, <1>3 DEF Memory
-----------------------------------------------------------------------------
(* Strings.                                                                *)

(* The first NUL of a string ends it.                                      *)
LEMMA StringEnds ==
  ASSUME NEW m, NEW a, String(m, a)
  PROVE  \E e \in a..(EndOf(a) - 1) : m[e] = Nul /\ NoNul(m, a, e)
<1>1. a \in Nat /\ EndOf(a) \in Nat
  BY BehindCell DEF String
<1> DEFINE S == {x \in a..(EndOf(a) - 1) : m[x] = Nul}
           e == LeastOf(S)
<1>2. S \in SUBSET Nat /\ S # {}
  BY <1>1 DEF String, Ends
<1>3. e \in S /\ \A j \in S : e <= j
  BY <1>2, LeastIs
<1> HIDE DEF e
<1>4. NoNul(m, a, e)
  <2>1. SUFFICES ASSUME NEW x \in a..(e - 1), m[x] = Nul PROVE FALSE
    BY DEF NoNul
  <2>2. e \in a..(EndOf(a) - 1)
    BY <1>3
  <2>3. x \in a..(EndOf(a) - 1) /\ ~(e <= x)
    BY <1>1, <2>2
  <2> QED BY <1>3, <2>1, <2>3
<1> QED BY <1>3, <1>4

LEMMA StringCells ==
  ASSUME NEW m, NEW a \in Nat, NEW end \in Nat, EndOf(a) = end,
         NEW e \in a..(end - 1), m[e] = Nul, NoNul(m, a, e)
  PROVE  StringAt(m, a) = a..e
<1>1. ASSUME NEW x \in a..e
      PROVE  x \in StringAt(m, a)
  <2>1. x \in a..(end - 1) /\ \A y \in a..(x - 1) : y \in a..(e - 1)
    OBVIOUS
  <2> QED BY <2>1 DEF StringAt, NoNul
<1>2. ASSUME NEW x \in StringAt(m, a)
      PROVE  x \in a..e
  <2>1. x \in a..(end - 1) /\ \A y \in a..(x - 1) : m[y] # Nul
    BY DEF StringAt
  <2>2. ~(e \in a..(x - 1))
    BY <2>1
  <2> QED BY <2>1, <2>2
<1> QED BY <1>1, <1>2

LEMMA StringIs ==
  ASSUME NEW m, NEW a, String(m, a)
  PROVE  \E e \in Nat : /\ a <= e /\ e < EndOf(a) /\ m[e] = Nul /\ NoNul(m, a, e)
                        /\ StringAt(m, a) = a..e
<1>1. a \in Nat /\ EndOf(a) \in Nat
  BY BehindCell DEF String
<1>2. PICK e \in a..(EndOf(a) - 1) : m[e] = Nul /\ NoNul(m, a, e)
  BY StringEnds
<1>3. StringAt(m, a) = a..e
  BY <1>1, <1>2, StringCells
<1>4. e \in Nat /\ a <= e /\ e < EndOf(a)
  BY <1>1, <1>2
<1> QED BY <1>2, <1>3, <1>4

(* What leaves the cells of a string alone leaves its text alone.          *)
LEMMA StringSame ==
  ASSUME NEW m, NEW k, NEW a, String(m, a), \A x \in StringAt(m, a) : k[x] = m[x]
  PROVE  String(k, a) /\ TextAt(k, a) = TextAt(m, a)
<1>1. a \in Nat /\ EndOf(a) \in Nat
  BY BehindCell DEF String
<1>2. PICK e \in Nat : /\ a <= e /\ e < EndOf(a) /\ m[e] = Nul /\ NoNul(m, a, e)
                       /\ StringAt(m, a) = a..e
  BY StringIs
<1>3. e \in a..(EndOf(a) - 1) /\ e \in a..e /\ \A y \in a..(e - 1) : y \in a..e
  BY <1>1, <1>2
<1>4. k[e] = Nul /\ NoNul(k, a, e)
  BY <1>2, <1>3 DEF NoNul
<1>5. StringAt(k, a) = a..e
  BY <1>1, <1>3, <1>4, StringCells
<1>6. String(k, a)
  BY <1>3, <1>4 DEF String, Ends
<1>7. TextAt(k, a) = TextAt(m, a)
  <2>1. Cardinality(a..e) = e - a + 1
    BY <1>1, <1>2, FS_Interval
  <2>2. \A j \in 1..(e - a) : a + j - 1 \in a..e
    BY <1>1, <1>2
  <2>3. \A j \in 1..(e - a) : k[a + j - 1] = m[a + j - 1]
    BY <1>2, <2>2
  <2>4. Cardinality(a..e) - 1 = e - a
    BY <1>1, <1>2, <2>1
  <2>5. TextAt(k, a) = [j \in 1..(e - a) |-> k[a + j - 1]]
    BY <1>5, <2>4 DEF TextAt
  <2>6. TextAt(m, a) = [j \in 1..(e - a) |-> m[a + j - 1]]
    BY <1>2, <2>4 DEF TextAt
  <2> QED BY <2>3, <2>5, <2>6
<1> QED BY <1>6, <1>7

(* Cells of one array are changed, and the last of them becomes NUL: where *)
(* there was a string there is one.                                        *)
LEMMA StringsKept ==
  ASSUME NEW m, Memory(m), NEW k, NEW lo \in Nat, NEW hi \in Nat,
         lo <= hi, Cell(lo), hi < EndOf(lo),
         Differ(m, k, lo..hi), k[hi] = Nul
  PROVE  \A a \in Nat : String(m, a) => String(k, a)
<1>1. SUFFICES ASSUME NEW a \in Nat, String(m, a) PROVE String(k, a)
  OBVIOUS
<1>2. Cell(a) /\ EndOf(a) \in Nat
  BY <1>1, BehindCell DEF String
<1>3. PICK e \in a..(EndOf(a) - 1) : m[e] = Nul
  BY <1>1 DEF String, Ends
<1>4. e \in Nat /\ EndOf(e) = EndOf(a)
  BY <1>2, <1>3, BehindCell
<1>5. CASE e \notin lo..hi
  <2>1. e \in DOMAIN m
    BY <1>2, <1>3, <1>4, BehindCell, CellMapped
  <2>2. k[e] = Nul
    BY <1>3, <1>5, <2>1 DEF Differ
  <2> QED BY <1>2, <1>3, <2>2 DEF String, Ends
<1>6. CASE e \in lo..hi
  <2>1. EndOf(lo) \in Nat /\ e \in lo..(EndOf(lo) - 1)
    BY <1>6, BehindCell
  <2>2. EndOf(e) = EndOf(lo)
    BY <2>1, BehindCell
  <2>3. hi \in a..(EndOf(a) - 1)
    BY <1>2, <1>3, <1>4, <1>6, <2>1, <2>2
  <2> QED BY <1>2, <2>3 DEF String, Ends
<1> QED BY <1>5, <1>6
-----------------------------------------------------------------------------
(* What a store leaves.                                                    *)

LEMMA PokeIs ==
  ASSUME NEW m, m \in [DOMAIN m -> Nat], NEW a \in DOMAIN m, NEW c \in Nat
  PROVE  /\ Poke(m, a, c) \in [DOMAIN m -> Nat] /\ Poke(m, a, c)[a] = c
         /\ \A x \in DOMAIN m : x # a => Poke(m, a, c)[x] = m[x]
  BY DEF Poke

LEMMA MovedIs ==
  ASSUME NEW m, m \in [DOMAIN m -> Nat], DOMAIN m \subseteq Nat,
         NEW dst \in Nat, NEW src \in Nat, NEW n \in Nat, src..(src + n - 1) \subseteq DOMAIN m
  PROVE  /\ Moved(m, dst, src, n) \in [DOMAIN m -> Nat]
         /\ Differ(m, Moved(m, dst, src, n), dst..(dst + n - 1))
<1> DEFINE v == LoadAt(m, src, n)
           k == StoreAt(m, dst, n, v)
<1>1. v \in [0..(n - 1) -> Nat]
  <2>1. \A j \in 0..(n - 1) : src + j \in src..(src + n - 1)
    OBVIOUS
  <2>2. \A j \in 0..(n - 1) : m[src + j] \in Nat
    BY <2>1
  <2> QED BY <2>2 DEF LoadAt
<1> HIDE DEF v
<1>2. \A x \in DOMAIN m : dst <= x /\ x < dst + n => x - dst \in 0..(n - 1)
  OBVIOUS
<1>3. k = [x \in DOMAIN m |-> IF dst <= x /\ x < dst + n THEN v[x - dst] ELSE m[x]]
  BY DEF StoreAt
<1>4. k \in [DOMAIN m -> Nat]
  BY <1>1, <1>2, <1>3
<1>5. Differ(m, k, dst..(dst + n - 1))
  <2>1. \A x \in DOMAIN m \ dst..(dst + n - 1) : ~(dst <= x /\ x < dst + n)
    OBVIOUS
  <2> QED BY <1>3, <2>1 DEF Differ
<1> QED BY <1>4, <1>5 DEF Moved, v

LEMMA FilledIs ==
  ASSUME NEW m, m \in [DOMAIN m -> Nat], DOMAIN m \subseteq Nat,
         NEW dst \in Nat, NEW n \in Nat, NEW c \in Nat
  PROVE  /\ Filled(m, dst, n, c) \in [DOMAIN m -> Nat]
         /\ Differ(m, Filled(m, dst, n, c), dst..(dst + n - 1))
<1> DEFINE v == [j \in 0..(n - 1) |-> c]
           k == StoreAt(m, dst, n, v)
<1>1. v \in [0..(n - 1) -> Nat]
  OBVIOUS
<1> HIDE DEF v
<1>2. \A x \in DOMAIN m : dst <= x /\ x < dst + n => x - dst \in 0..(n - 1)
  OBVIOUS
<1>3. k = [x \in DOMAIN m |-> IF dst <= x /\ x < dst + n THEN v[x - dst] ELSE m[x]]
  BY DEF StoreAt
<1>4. k \in [DOMAIN m -> Nat]
  BY <1>1, <1>2, <1>3
<1>5. Differ(m, k, dst..(dst + n - 1))
  <2>1. \A x \in DOMAIN m \ dst..(dst + n - 1) : ~(dst <= x /\ x < dst + n)
    OBVIOUS
  <2> QED BY <1>3, <2>1 DEF Differ
<1> QED BY <1>4, <1>5 DEF Filled, v

(* A block that lies in one page with a cell is mapped with it.            *)
LEMMA PageOfIs ==
  ASSUME NEW a \in Nat
  PROVE  PageOf(a) = (Page * (a \div Page))..(Page * (a \div Page) + Page - 1)
<1>1. Page \in Nat \ {0}
  BY CrtAssumption
<1> DEFINE q == a \div Page
           r == a % Page
<1>2. q \in Nat /\ r \in 0..(Page - 1) /\ a = Page * q + r
  BY <1>1
<1>3. Page * q \in Nat
  BY <1>1, <1>2
<1> HIDE DEF q, r
<1>4. a - r = Page * q
  BY <1>1, <1>2, <1>3
<1> QED BY <1>4 DEF PageOf, q, r

LEMMA BlockMapped ==
  ASSUME NEW m, Memory(m), NEW a \in Nat, a % Page <= Page - Block,
         NEW y \in BlockAt(a), Cell(y)
  PROVE  BlockAt(a) \subseteq DOMAIN m /\ \A x \in BlockAt(a) : y \div Page = x \div Page
<1>1. Block \in Nat \ {0}
  BY CrtAssumption
<1>2. y \in Nat
  BY <1>1 DEF BlockAt
<1>3. y \div Page = a \div Page
  BY SamePage
<1>4. PageOf(y) = PageOf(a)
  BY <1>2, <1>3, PageOfIs
<1>5. PageOf(a) \subseteq DOMAIN m
  BY <1>2, <1>4, CellMapped
<1>6. ASSUME NEW x \in BlockAt(a)
      PROVE  x \in DOMAIN m /\ y \div Page = x \div Page
  BY <1>3, <1>5, SamePage
<1> QED BY <1>6
-----------------------------------------------------------------------------
(* The invariant.                                                          *)

(* What is known of the arguments.                                         *)
Args ==
  /\ req \in Requests
  /\ req.op # "strtok_s" =>
       /\ req.dst # Null => InArray(req.dst, req.size)
       /\ req.op \in Fills => req.dst # Null \/ req.size = 0
       /\ req.src # Null =>
            Cell(req.src) /\ (Ends(was, req.src) \/ EndOf(req.src) - req.src >= Bound(req))
  /\ req.op = "strtok_s" /\ stage # "leave" => String(was, From)

(* Where the NUL of the destination is that something is appended to.      *)
FoundIs ==
  /\ found < req.size
  /\ req.op = "strncpy_s" => req.count # 0
  /\ req.op \notin Appends => found = 0
  /\ req.op \in Appends => NoNul(was, req.dst, req.dst + found) /\ was[req.dst + found] = Nul

InWalk ==
  /\ req.op \in Appends /\ ~NoTarget /\ (req.src # Null \/ NoCount)
  /\ at % Block = 0 /\ req.dst < at + Block /\ at < req.dst + req.size /\ NoNul(was, req.dst, at)

InScan ==
  /\ req.op \in Copies /\ Sourced /\ FoundIs
  /\ at % Block = 0 /\ req.src < at + Block /\ (at <= req.src \/ at < req.src + Limit)
  /\ NoNul(was, req.src, at)

InFill ==
  /\ req.op \in Fills /\ ~NoTarget
  /\ req.dst <= at /\ at <= req.dst + req.size /\ NoNul(was, req.dst, at)

InSkip ==
  /\ req.op = "strtok_s" /\ found = From
  /\ at % Block = 0 /\ found < at + Block /\ \A x \in found..(at - 1) : was[x] \in req.delim

InToken ==
  /\ req.op = "strtok_s" /\ From <= found /\ String(was, found)
  /\ (\A x \in From..(found - 1) : was[x] \in req.delim) /\ was[found] \notin req.delim \union {Nul}
  /\ at % Block = 0 /\ found < at + Block
  /\ \A x \in found..(at - 1) : was[x] \notin req.delim \union {Nul}

Clipped(n) == IF req.op = "_strnset_s" THEN Lesser(n, req.count) ELSE n

(* Why the handler runs, and what it finds.                                *)
Refused ==
  \/ reply.code = EINVAL /\ NoTarget /\ ~NoRequest /\ mem = was
  \/ /\ reply.code = EINVAL /\ req.op \in Copies /\ ~NoTarget /\ mem = Poke(was, req.dst, Nul)
     /\ (req.src = Null /\ ~NoCount) \/ (req.op \in Appends /\ NoNul(was, req.dst, req.dst + req.size))
  \/ /\ reply.code = ERANGE /\ req.op \in Copies /\ Sourced /\ FoundIs /\ Limit = Room
     /\ ~(req.op \in Counts /\ req.count = Truncate) /\ NoNul(was, req.src, req.src + Room)
     /\ mem = Poke(Moved(was, req.dst + found, req.src, Room), req.dst, Nul)
  \/ /\ reply.code = EINVAL /\ req.op \in Fills /\ ~NoTarget /\ NoNul(was, req.dst, req.dst + req.size)
     /\ mem = Poke(Filled(was, req.dst, Clipped(req.size - 1), req.fill), req.dst, Nul)

(* What a call leaves: nothing but what it was given is changed, and if it *)
(* was not refused, where there was a string there is one.                 *)
Leaving ==
  /\ Differ(mem, was, Given)
  /\ ~reply.told => \A a \in Nat : String(was, a) => String(mem, a)
  /\ req.op = "strtok_s" => ~reply.told /\ String(mem, ctx[req.ctx])

AtStage ==
  /\ stage \notin {"handler", "leave"} => mem = was
  /\ stage = "idle" => req = Idle
  /\ stage = "entry" => seen = {}
  /\ stage # "idle" => Args
  /\ stage = "walk" => InWalk
  /\ stage = "scan" => InScan
  /\ stage = "fill" => InFill
  /\ stage = "skip" => InSkip
  /\ stage = "token" => InToken
  /\ stage = "handler" =>
       /\ Refused /\ req.op # "strtok_s" /\ Differ(mem, was, Given)
       /\ reply \in [code : Pointers, told : BOOLEAN] /\ reply.told
  /\ stage = "leave" => Leaving

OfClient == \A c \in live \ Own : String(was, ctx[c]) /\ rest[c] = TextAt(was, ctx[c])

Kinds ==
  /\ mem \in [DOMAIN was -> Nat]
  /\ ctx \in [Contexts -> Pointers] /\ live \subseteq Contexts
  /\ req = Idle \/ req \in Requests
  /\ stage \in {"idle", "entry", "walk", "scan", "fill", "skip", "token", "handler", "leave"}
  /\ reply \in {Idle} \union [code : Pointers, told : BOOLEAN]
  /\ at \in Nat /\ found \in Nat /\ seen \subseteq DOMAIN was /\ asked \in 0..MaxAsked

CrtInv == Memory(was) /\ Kinds /\ LoadsAllowed /\ AtStage /\ OfClient

LEMMA RequestIs ==
  ASSUME NEW q \in Requests
  PROVE  /\ q.op \in {"strcpy_s", "strcat_s", "strncpy_s", "strncat_s",
                      "_strset_s", "_strnset_s", "strtok_s"}
         /\ q.dst \in Pointers /\ q.size \in Nat /\ q.src \in Pointers /\ q.count \in 0..Truncate
         /\ q.fill \in Nat /\ q.ctx \in Contexts /\ q.delim \subseteq Nat \ {Nul} /\ q # Idle
  BY CrtAssumption

LEMMA StringMapped ==
  ASSUME NEW m, Memory(m), NEW a, String(m, a)
  PROVE  a \in Nat /\ a \in DOMAIN m
  BY CellMapped DEF String

LEMMA TypeFromInv == ASSUME CrtInv PROVE CrtTypeOK
<1>1. Memory(was) /\ Kinds /\ DOMAIN mem = DOMAIN was
  BY DEF CrtInv, Kinds
<1>2. ASSUME NEW c \in live \union Own
      PROVE  ctx[c] \in DOMAIN mem
  <2>1. CASE c \in live \ Own
    BY <1>1, <2>1, StringMapped DEF CrtInv, OfClient
  <2>2. CASE c \in Own
    <3>1. stage = "leave" /\ req.op = "strtok_s" /\ c = req.ctx
      BY <2>2 DEF Own
    <3>2. String(mem, ctx[c])
      BY <3>1 DEF CrtInv, AtStage, Leaving
    <3>3. Memory(mem)
      BY <1>1 DEF Memory, Kinds
    <3> QED BY <3>2, <3>3, StringMapped
  <2> QED BY <2>1, <2>2
<1>3. was \in [DOMAIN was -> Nat]
  BY <1>1 DEF Memory
<1> QED BY <1>1, <1>2, <1>3 DEF CrtTypeOK, Kinds

LEMMA RefusedFromInv == ASSUME CrtInv PROVE RefusedIsEmpty
<1>1. SUFFICES ASSUME stage = "handler", req.dst # Null, req.size > 0 PROVE mem[req.dst] = Nul
  BY DEF RefusedIsEmpty
<1>2. req \in Requests /\ InArray(req.dst, req.size) /\ Refused /\ ~NoTarget
  <2>1. Args /\ Refused /\ req.op # "strtok_s"
    BY <1>1 DEF CrtInv, AtStage
  <2>2. req.size \in Nat /\ req \in Requests
    BY <2>1, RequestIs DEF Args
  <2>3. ~NoTarget
    BY <1>1, <2>2 DEF NoTarget
  <2> QED BY <1>1, <2>1, <2>2, <2>3 DEF Args
<1>3. req.dst \in Nat /\ req.size \in Nat
  BY <1>1, <1>2, RequestIs DEF Pointers
<1>4. req.dst \in req.dst..(req.dst + req.size - 1)
  BY <1>1, <1>3
<1>5. req.dst \in DOMAIN was
  BY <1>2, <1>3, <1>4, CellsOf, CellMapped DEF CrtInv
<1>6. PICK m : mem = Poke(m, req.dst, Nul) /\ DOMAIN m = DOMAIN was
  BY <1>2 DEF Refused, Moved, Filled, StoreAt
<1> QED BY <1>5, <1>6 DEF Poke

(* A step that only goes on with a scan.                                   *)
LEMMA GoesOn ==
  ASSUME CrtInv, stage \notin {"idle", "handler", "leave"},
         UNCHANGED <<mem, ctx, client, req, was, reply>>,
         at' \in Nat, found' \in Nat, seen' \subseteq DOMAIN was, LoadsAllowed',
         \/ stage' = "walk" /\ InWalk'
         \/ stage' = "scan" /\ InScan'
         \/ stage' = "fill" /\ InFill'
         \/ stage' = "skip" /\ InSkip'
         \/ stage' = "token" /\ InToken'
  PROVE  CrtInv'
<1>1. /\ mem' = mem /\ ctx' = ctx /\ live' = live /\ rest' = rest /\ asked' = asked
      /\ req' = req /\ was' = was /\ reply' = reply
  BY DEF client
<1>2. stage' \in {"walk", "scan", "fill", "skip", "token"}
  OBVIOUS
<1>3. Memory(was)'
  BY <1>1 DEF CrtInv
<1>4. Kinds'
  BY <1>1, <1>2 DEF CrtInv, Kinds
<1>5. mem = was /\ Args
  BY DEF CrtInv, AtStage
<1>6. Args'
  <2>1. From' = From
    BY <1>1 DEF From
  <2>2. Bound(req)' = Bound(req)
    BY <1>1
  <2> QED BY <1>1, <1>5, <2>1, <2>2 DEF Args
<1>7. AtStage'
  BY <1>1, <1>2, <1>5, <1>6 DEF AtStage
<1>8. OfClient'
  <2>1. Own = {} /\ Own' = {}
    BY <1>2 DEF Own
  <2> QED BY <1>1, <2>1 DEF CrtInv, OfClient
<1> QED BY <1>3, <1>4, <1>7, <1>8 DEF CrtInv

(* A step to the handler.                                                  *)
LEMMA ToHandler ==
  ASSUME CrtInv, stage \notin {"idle", "handler", "leave"}, req.op # "strtok_s",
         UNCHANGED <<ctx, client, req, was>>, stage' = "handler",
         at' \in Nat, found' \in Nat, seen' \subseteq DOMAIN was, LoadsAllowed',
         mem' \in [DOMAIN was -> Nat], Differ(mem', was, Declared(req)),
         reply' \in [code : Pointers, told : BOOLEAN], reply'.told, Refused'
  PROVE  CrtInv'
<1>1. /\ ctx' = ctx /\ live' = live /\ rest' = rest /\ asked' = asked
      /\ req' = req /\ was' = was
  BY DEF client
<1>3. Memory(was)'
  BY <1>1 DEF CrtInv
<1>4. Kinds'
  BY <1>1 DEF CrtInv, Kinds
<1>5. Args
  BY DEF CrtInv, AtStage
<1>6. Args'
  BY <1>1, <1>5 DEF Args, Bound
<1>7. AtStage'
  <2>1. Given' = Declared(req)
    BY <1>1 DEF Given, Declared
  <2>2. Differ(mem, was, Given)'
    BY <1>1, <2>1
  <2> QED BY <1>1, <1>6, <2>2 DEF AtStage
<1>8. OfClient'
  <2>1. Own = {} /\ Own' = {}
    BY DEF Own
  <2> QED BY <1>1, <2>1 DEF CrtInv, OfClient
<1> QED BY <1>3, <1>4, <1>7, <1>8 DEF CrtInv

(* A step that ends a call; only strtok_s moves a context.                 *)
LEMMA ToLeave ==
  ASSUME CrtInv, stage \notin {"idle", "leave"},
         UNCHANGED <<client, req, was>>, stage' = "leave",
         \/ ctx' = ctx /\ req.op # "strtok_s"
         \/ req.op = "strtok_s" /\ \E p \in Nat : ctx' = [ctx EXCEPT ![req.ctx] = p],
         at' \in Nat, found' \in Nat, seen' \subseteq DOMAIN was, LoadsAllowed',
         mem' \in [DOMAIN was -> Nat],
         reply' \in [code : Pointers, told : BOOLEAN], Leaving'
  PROVE  CrtInv'
<1>1. live' = live /\ rest' = rest /\ asked' = asked /\ req' = req /\ was' = was
  BY DEF client
<1>2. Args /\ req.ctx \in Contexts
  BY RequestIs DEF CrtInv, AtStage, Args
<1>3. Memory(was)'
  BY <1>1 DEF CrtInv
<1>4. ctx' \in [Contexts -> Pointers] /\ \A c \in Contexts \ Own' : ctx'[c] = ctx[c]
  <2>1. ctx \in [Contexts -> Pointers]
    BY DEF CrtInv, Kinds
  <2>2. Own' = IF req.op = "strtok_s" THEN {req.ctx} ELSE {}
    BY <1>1 DEF Own
  <2> QED BY <1>2, <2>1, <2>2 DEF Pointers
<1>5. Kinds'
  BY <1>1, <1>4 DEF CrtInv, Kinds
<1>6. Args'
  BY <1>1, <1>2 DEF Args, Bound
<1>7. AtStage'
  BY <1>1, <1>6 DEF AtStage
<1>8. OfClient'
  <2>1. Own = {} /\ live \subseteq Contexts
    BY DEF Own, CrtInv, Kinds
  <2> QED BY <1>1, <1>4, <2>1 DEF CrtInv, OfClient
<1> QED BY <1>3, <1>5, <1>7, <1>8 DEF CrtInv
-----------------------------------------------------------------------------
(* Calls, and their ends.                                                  *)

LEMMA CallKeeps == ASSUME CrtInv, CrtCall PROVE CrtInv'
<1>1. /\ stage = "idle" /\ was' = mem /\ mem' = mem /\ ctx' = ctx /\ live' = live /\ rest' = rest
      /\ req' \in Requests /\ Legal(req') /\ reply' = Idle /\ stage' = "entry"
      /\ at' = 0 /\ found' = 0 /\ seen' = {} /\ asked' <= MaxAsked
  BY DEF CrtCall
<1>2. mem = was /\ Own = {} /\ Own' = {} /\ Memory(was) /\ Kinds
  BY <1>1 DEF CrtInv, AtStage, Own
<1>3. asked' \in 0..MaxAsked
  <2>1. asked \in Nat /\ MaxAsked \in Nat /\ (asked' = asked + 1 \/ asked' = asked + 2)
    BY <1>2, CrtAssumption DEF CrtCall, Kinds
  <2> QED BY <1>1, <2>1
<1>4. Kinds'
  BY <1>1, <1>2, <1>3 DEF Kinds
<1>5. OfClient'
  BY <1>1, <1>2 DEF CrtInv, OfClient
<1>6. LoadsAllowed'
  BY <1>1 DEF LoadsAllowed
<1>7. Args'
  <2> DEFINE q == req'
  <2>1. CASE q.op = "strtok_s"
    <3>1. CASE q.dst = Null
      <4>1. String(was, ctx[q.ctx])
        BY <1>1, <1>2, <2>1, <3>1 DEF Legal, CrtInv, OfClient
      <4> QED BY <1>1, <1>2, <2>1, <3>1, <4>1 DEF Args, From
    <3>2. CASE q.dst # Null
      <4>1. String(was, q.dst)
        BY <1>1, <1>2, <2>1, <3>2, RequestIs DEF Legal, String, Cell, Pointers
      <4> QED BY <1>1, <1>2, <2>1, <3>2, <4>1 DEF Args, From
    <3> QED BY <3>1, <3>2
  <2>2. CASE q.op # "strtok_s"
    BY <1>1, <1>2, <2>2 DEF Args, Legal, Cell, Bound
  <2> QED BY <2>1, <2>2
<1>8. AtStage'
  BY <1>1, <1>2, <1>7 DEF AtStage
<1>9. Memory(was)'
  BY <1>1, <1>2
<1> QED BY <1>4, <1>5, <1>6, <1>8, <1>9 DEF CrtInv

LEMMA HandlerKeeps == ASSUME CrtInv, HandlerReturns PROVE CrtInv'
<1>1. /\ stage = "handler" /\ stage' = "leave" /\ mem' = mem /\ ctx' = ctx /\ UNCHANGED client
      /\ req' = req /\ was' = was /\ at' = at /\ found' = found /\ reply' = reply /\ seen' = seen
  BY DEF HandlerReturns
<1>2. Refused /\ reply.told /\ req.op # "strtok_s" /\ Differ(mem, was, Given) /\ Kinds /\ LoadsAllowed
  BY <1>1 DEF CrtInv, AtStage
<1>3. Leaving'
  BY <1>1, <1>2 DEF Leaving, Given, Declared
<1>4. LoadsAllowed'
  BY <1>1, <1>2 DEF LoadsAllowed, Reads, Target, Source, Declared, Bound
<1>5. reply \in [code : Pointers, told : BOOLEAN]
  BY <1>1 DEF CrtInv, AtStage
<1> QED BY <1>1, <1>2, <1>3, <1>4, <1>5, ToLeave DEF Kinds

LEMMA LeaveKeeps == ASSUME CrtInv, Leave PROVE CrtInv'
<1> DEFINE changed == Own \union {c \in live : StringAt(was, ctx[c]) \intersect Given # {}}
<1>1. /\ stage = "leave" /\ stage' = "idle" /\ req' = Idle
      /\ live' = (IF reply.told THEN live \ changed ELSE live \union Own)
      /\ rest' = [c \in Contexts |-> IF c \notin live' THEN <<>>
                                     ELSE IF c \in changed THEN TextAt(mem, ctx[c]) ELSE rest[c]]
      /\ was' = mem /\ at' = 0 /\ found' = 0 /\ seen' = {}
      /\ mem' = mem /\ ctx' = ctx /\ reply' = reply /\ asked' = asked
  BY DEF Leave
<1>2. Kinds /\ Memory(was) /\ OfClient /\ Leaving /\ Args /\ DOMAIN mem = DOMAIN was
  BY <1>1 DEF CrtInv, AtStage, Kinds
<1>3. Own = (IF req.op = "strtok_s" THEN {req.ctx} ELSE {}) /\ Own' = {} /\ Own \subseteq Contexts
  BY <1>1, <1>2, RequestIs DEF Own, Args
<1>4. live' \subseteq Contexts
  BY <1>1, <1>2, <1>3 DEF Kinds
<1>5. Memory(mem)
  BY <1>2 DEF Memory, Kinds
<1>6. ASSUME NEW c \in live \ changed
      PROVE  String(mem, ctx[c]) /\ rest[c] = TextAt(mem, ctx[c])
  <2>1. String(was, ctx[c]) /\ rest[c] = TextAt(was, ctx[c])
    BY <1>2 DEF OfClient
  <2>2. ASSUME NEW x \in StringAt(was, ctx[c])
        PROVE  mem[x] = was[x]
    <3>1. x \notin Given
      OBVIOUS
    <3>2. x \in DOMAIN was
      <4>1. ctx[c] \in Nat /\ Cell(ctx[c]) /\ x \in ctx[c]..(EndOf(ctx[c]) - 1)
        BY <2>1 DEF String, StringAt
      <4>2. x \in Nat /\ Cell(x)
        BY <4>1, BehindCell
      <4> QED BY <1>2, <4>2, CellMapped
    <3> QED BY <1>2, <3>1, <3>2 DEF Leaving, Differ
  <2> QED BY <2>1, <2>2, StringSame
<1>7. ASSUME NEW c \in live', c \in changed
      PROVE  String(mem, ctx[c])
  <2>1. ~reply.told
    BY <1>1, <1>7, <1>2, <1>3 DEF Leaving
  <2>2. CASE c \in Own
    BY <1>2, <1>3, <2>2 DEF Leaving
  <2>3. CASE c \in live \ Own
    <3>1. String(was, ctx[c])
      BY <1>2, <2>3 DEF OfClient
    <3>2. ctx[c] \in Nat
      BY <3>1 DEF String
    <3> QED BY <1>2, <2>1, <3>1, <3>2 DEF Leaving
  <2> QED BY <1>1, <1>7, <2>1, <2>2, <2>3
<1>8. ASSUME NEW c \in live'
      PROVE  String(mem, ctx[c]) /\ rest'[c] = TextAt(mem, ctx[c])
  <2>1. c \in Contexts
    BY <1>4
  <2>2. CASE c \in changed
    <3>1. rest'[c] = TextAt(mem, ctx[c])
      BY <1>1, <2>1, <2>2
    <3> QED BY <1>7, <2>2, <3>1
  <2>3. CASE c \notin changed
    <3>1. c \in live \ changed
      BY <1>1, <2>3
    <3>2. rest'[c] = rest[c]
      BY <1>1, <2>1, <2>3
    <3> QED BY <1>6, <3>1, <3>2
  <2> QED BY <2>2, <2>3
<1> HIDE DEF changed
<1>9. OfClient'
  BY <1>1, <1>3, <1>8 DEF OfClient
<1>10. Kinds'
  BY <1>1, <1>2, <1>4 DEF Kinds
<1>11. AtStage'
  BY <1>1 DEF AtStage
<1>12. LoadsAllowed' /\ Memory(was)'
  BY <1>1, <1>5 DEF LoadsAllowed
<1> QED BY <1>9, <1>10, <1>11, <1>12 DEF CrtInv
-----------------------------------------------------------------------------
(* The arguments.                                                          *)

(* A destination that is not refused at once.                              *)
LEMMA Targeted ==
  ASSUME CrtInv, stage # "idle", req.op # "strtok_s", ~NoTarget
  PROVE  /\ req \in Requests /\ req.dst \in Nat /\ req.size \in Nat /\ req.size > 0
         /\ InArray(req.dst, req.size)
         /\ \A x \in req.dst..(req.dst + req.size - 1) :
              x \in Nat /\ x \in DOMAIN was /\ Cell(x) /\ req.dst + req.size <= EndOf(x)
<1>1. Args /\ Memory(was)
  BY DEF CrtInv, AtStage
<1>2. req \in Requests /\ req.dst \in Nat /\ req.size \in Nat /\ req.size > 0
  BY <1>1, RequestIs DEF Args, NoTarget, Pointers
<1>3. InArray(req.dst, req.size)
  BY <1>1, <1>2 DEF Args, NoTarget
<1>4. ASSUME NEW x \in req.dst..(req.dst + req.size - 1)
      PROVE  x \in Nat /\ x \in DOMAIN was /\ Cell(x) /\ req.dst + req.size <= EndOf(x)
  BY <1>1, <1>2, <1>3, CellsOf, CellMapped
<1> QED BY <1>2, <1>3, <1>4

LEMMA BoundIs ==
  ASSUME req \in Requests PROVE Bound(req) \in Nat
  BY RequestIs, ArraysAssumption DEF Bound, Lesser

(* A source that is not NULL: as far as it is scanned, it is the caller's. *)
LEMMA SourceIs ==
  ASSUME CrtInv, stage # "idle", req.op \in Copies, req.src # Null
  PROVE  /\ req \in Requests /\ req.src \in Nat /\ Cell(req.src) /\ EndOf(req.src) \in Nat
         /\ req.src < EndOf(req.src)
         /\ \A n \in 0..Bound(req) : NoNul(was, req.src, req.src + n) => req.src + n <= EndOf(req.src)
<1>1. Args /\ req \in Requests
  BY DEF CrtInv, AtStage, Args
<1>2. req.src \in Nat /\ Cell(req.src)
  BY <1>1, RequestIs DEF Args, Copies, Pointers
<1>3. EndOf(req.src) \in Nat /\ req.src < EndOf(req.src)
  BY <1>2, BehindCell
<1>4. ASSUME NEW n \in 0..Bound(req), NoNul(was, req.src, req.src + n)
      PROVE  req.src + n <= EndOf(req.src)
  <2>1. Bound(req) \in Nat
    BY <1>1, BoundIs
  <2>2. Ends(was, req.src) \/ EndOf(req.src) - req.src >= Bound(req)
    BY <1>1 DEF Args, Copies
  <2>3. CASE EndOf(req.src) - req.src >= Bound(req)
    BY <1>2, <1>3, <2>1, <2>3
  <2>4. CASE Ends(was, req.src)
    <3>1. PICK e \in req.src..(EndOf(req.src) - 1) : was[e] = Nul
      BY <2>4 DEF Ends
    <3>2. ~(e \in req.src..((req.src + n) - 1))
      BY <1>4, <3>1 DEF NoNul
    <3> QED BY <1>2, <1>3, <2>1, <3>1, <3>2
  <2> QED BY <2>2, <2>3, <2>4
<1> QED BY <1>1, <1>2, <1>3, <1>4

(* Cells that the scalar loops read.                                       *)
LEMMA TargetRead ==
  ASSUME CrtInv, stage # "idle", req.op # "strtok_s", ~NoTarget, req' = req, was' = was,
         NEW x \in req.dst..(req.dst + req.size - 1), NoNul(was, req.dst, x)
  PROVE  x \in Reads'
<1>1. x \in Declared(req)
  BY DEF Declared, NoTarget
<1>2. x \in Target'
  BY <1>1 DEF Target, NoNul
<1> QED BY <1>2 DEF Reads

LEMMA SourceRead ==
  ASSUME CrtInv, stage # "idle", req.op \in Copies, req.src # Null, req' = req, was' = was,
         NEW x \in Nat, req.src <= x, x = req.src \/ x < req.src + Bound(req),
         NoNul(was, req.src, x)
  PROVE  x \in Reads' /\ Cell(x) /\ x < EndOf(req.src)
<1>1. /\ req.src \in Nat /\ Cell(req.src) /\ EndOf(req.src) \in Nat /\ req.src < EndOf(req.src)
      /\ \A n \in 0..Bound(req) : NoNul(was, req.src, req.src + n) => req.src + n <= EndOf(req.src)
      /\ Bound(req) \in Nat
  BY SourceIs, BoundIs
<1>2. x < EndOf(req.src)
  <2>1. CASE x = req.src
    BY <1>1, <2>1
  <2>2. CASE x # req.src
    <3> DEFINE n == x - req.src
    <3>1. n \in 0..Bound(req) /\ x = req.src + n
      BY <1>1, <2>2
    <3> HIDE DEF n
    <3>2. x <= EndOf(req.src)
      BY <1>1, <3>1
    <3>3. Args
      BY DEF CrtInv, AtStage
    <3>4. Ends(was, req.src) \/ EndOf(req.src) - req.src >= Bound(req)
      BY <3>3 DEF Args, Copies
    <3>5. CASE Ends(was, req.src)
      <4>1. PICK e \in req.src..(EndOf(req.src) - 1) : was[e] = Nul
        BY <3>5 DEF Ends
      <4>2. ~(e \in req.src..(x - 1))
        BY <4>1 DEF NoNul
      <4> QED BY <1>1, <4>1, <4>2
    <3>6. CASE EndOf(req.src) - req.src >= Bound(req)
      BY <1>1, <2>2, <3>6
    <3> QED BY <3>4, <3>5, <3>6
  <2> QED BY <2>1, <2>2
<1>3. x \in req.src..(EndOf(req.src) - 1)
  BY <1>1, <1>2
<1>4. Cell(x)
  BY <1>1, <1>3, BehindCell
<1>5. x \in StringAt(was, req.src)
  BY <1>3 DEF StringAt, NoNul
<1>6. x \in Source'
  BY <1>5 DEF Source, Bound
<1>7. req.op # "strtok_s"
  BY DEF Copies
<1> QED BY <1>2, <1>4, <1>6, <1>7 DEF Reads

(* A block that is loaded has a cell of those in it.                       *)
LEMMA BlockLoaded ==
  ASSUME CrtInv, was' = was, NEW a \in Nat, a % Page <= Page - Block, seen' = BlockAt(a),
         NEW y \in BlockAt(a), Cell(y), y \in Reads'
  PROVE  seen' \subseteq DOMAIN was /\ LoadsAllowed'
<1>1. Memory(was)
  BY DEF CrtInv
<1>2. BlockAt(a) \subseteq DOMAIN was /\ \A x \in BlockAt(a) : y \div Page = x \div Page
  BY <1>1, BlockMapped
<1> QED BY <1>2 DEF LoadsAllowed

LEMMA CellLoaded ==
  ASSUME CrtInv, was' = was, NEW y \in Nat, Cell(y), seen' = {y}, y \in Reads'
  PROVE  seen' \subseteq DOMAIN was /\ LoadsAllowed'
<1>1. y \in DOMAIN was
  BY CellMapped DEF CrtInv
<1> QED BY <1>1 DEF LoadsAllowed

LEMMA NothingLoaded ==
  ASSUME CrtInv, was' = was, seen' = {}
  PROVE  seen' \subseteq DOMAIN was /\ LoadsAllowed'
  BY DEF LoadsAllowed

(* The loads of the step before, of the same call.                         *)
LEMMA LoadedBefore ==
  ASSUME CrtInv, stage \notin {"idle", "entry"}, req.op # "strtok_s", was' = was, req' = req, seen' = seen
  PROVE  seen' \subseteq DOMAIN was /\ LoadsAllowed'
<1>1. seen \subseteq DOMAIN was /\ LoadsAllowed
  BY DEF CrtInv, Kinds
<1>2. Reads' = Reads
  BY DEF Reads, Target, Source, Declared, Bound
<1> QED BY <1>1, <1>2 DEF LoadsAllowed
-----------------------------------------------------------------------------
LEMMA NoneYet ==
  ASSUME NEW m, NEW a \in Nat, NEW b \in Nat, b <= a PROVE NoNul(m, a, b)
  BY DEF NoNul

LEMMA SmallBlock == Block \in Nat \ {0} /\ \A a \in Nat : a \in BlockAt(a) /\ a \in Nat
  BY CrtAssumption DEF BlockAt

LEMMA EntryIs ==
  ASSUME CrtInv, stage = "entry"
  PROVE  mem = was /\ seen = {} /\ at \in Nat /\ found \in Nat /\ mem \in [DOMAIN was -> Nat]
  BY DEF CrtInv, AtStage, Kinds

(* A call that leaves memory as it was.                                    *)
LEMMA Unwritten ==
  ASSUME req.op # "strtok_s", UNCHANGED <<input, mem>>, mem = was
  PROVE  Leaving'
<1>1. mem' = mem /\ was' = was /\ req' = req
  BY DEF input
<1> QED BY <1>1 DEF Leaving, Differ

(* A call that leaves a NUL as the last of the cells that it changes.      *)
LEMMA WroteString ==
  ASSUME CrtInv, stage # "idle", req.op # "strtok_s", ~NoTarget, UNCHANGED <<input>>,
         NEW lo \in Nat, NEW hi \in Nat, req.dst <= lo, lo <= hi, hi < req.dst + req.size,
         Differ(mem', was, lo..hi), mem'[hi] = Nul, mem' \in [DOMAIN was -> Nat]
  PROVE  Leaving' /\ Differ(mem', was, Declared(req))
<1>1. /\ req.dst \in Nat /\ req.size \in Nat
      /\ \A x \in req.dst..(req.dst + req.size - 1) : Cell(x) /\ req.dst + req.size <= EndOf(x)
  BY Targeted
<1>2. was' = was /\ req' = req /\ DOMAIN mem' = DOMAIN was
  BY DEF input
<1>3. Memory(was)
  BY DEF CrtInv
<1>4. Cell(lo) /\ hi < EndOf(lo)
  <2>1. lo \in req.dst..(req.dst + req.size - 1) /\ EndOf(lo) \in Nat
    BY <1>1, BehindCell
  <2> QED BY <1>1, <2>1
<1>5. Differ(was, mem', lo..hi)
  BY <1>2 DEF Differ
<1>6. \A a \in Nat : String(was, a) => String(mem', a)
  BY <1>3, <1>4, <1>5, StringsKept
<1>7. Differ(mem', was, Declared(req))
  <2>1. lo..hi \subseteq req.dst..(req.dst + req.size - 1)
    BY <1>1
  <2> QED BY <2>1 DEF Differ, Declared, NoTarget
<1>8. Differ(mem, was, Given)'
  BY <1>2, <1>7 DEF Given, Declared
<1>9. (\A a \in Nat : String(was, a) => String(mem, a))'
  BY <1>2, <1>6
<1> QED BY <1>2, <1>7, <1>8, <1>9 DEF Leaving

LEMMA EmptiedIs ==
  ASSUME CrtInv, stage # "idle", req.op # "strtok_s", ~NoTarget, mem = was
  PROVE  /\ Emptied \in [DOMAIN was -> Nat] /\ Emptied[req.dst] = Nul
         /\ Differ(Emptied, was, req.dst..req.dst) /\ Differ(Emptied, was, Declared(req))
<1>1. req.dst \in DOMAIN was /\ req.dst \in Nat /\ req.dst \in Declared(req)
  <2>1. req.dst \in req.dst..(req.dst + req.size - 1)
    BY Targeted
  <2> QED BY <2>1, Targeted DEF Declared, NoTarget
<1>2. was \in [DOMAIN was -> Nat] /\ DOMAIN was \subseteq Nat
  BY DEF CrtInv, Memory
<1>3. /\ Emptied \in [DOMAIN was -> Nat] /\ Emptied[req.dst] = Nul
      /\ \A x \in DOMAIN was : x # req.dst => Emptied[x] = was[x]
  <2>1. Emptied = Poke(was, req.dst, Nul) /\ Nul \in Nat
    BY DEF Emptied, Nul
  <2> QED BY <1>1, <1>2, <2>1, PokeIs
<1> QED BY <1>1, <1>2, <1>3 DEF Differ

LEMMA AskNothingKeeps == ASSUME CrtInv, AskNothing PROVE CrtInv'
<1>1. /\ stage = "entry" /\ req.op \in Copies /\ stage' = "leave" /\ mem' = mem
      /\ reply' = [code |-> 0, told |-> FALSE] /\ UNCHANGED <<input, scan, seen>>
  BY DEF AskNothing, Entry, Answer
<1>2. mem = was /\ seen = {} /\ at \in Nat /\ found \in Nat /\ mem \in [DOMAIN was -> Nat]
  BY <1>1, EntryIs
<1>3. req.op # "strtok_s" /\ Leaving'
  BY <1>1, <1>2, Unwritten DEF Copies
<1>4. seen' \subseteq DOMAIN was /\ LoadsAllowed'
  BY <1>1, <1>2, NothingLoaded DEF input
<1>5. reply' \in [code : Pointers, told : BOOLEAN]
  BY <1>1 DEF Pointers
<1> QED BY <1>1, <1>2, <1>3, <1>4, <1>5, ToLeave DEF input, scan

LEMMA RefuseTargetKeeps == ASSUME CrtInv, RefuseTarget PROVE CrtInv'
<1>1. /\ stage = "entry" /\ req.op \in Copies \union Fills /\ stage' = "handler" /\ mem' = mem
      /\ NoTarget /\ ~NoRequest
      /\ reply' = [code |-> EINVAL, told |-> TRUE] /\ UNCHANGED <<input, scan, seen>>
  BY DEF RefuseTarget, Entry, Complain
<1>2. mem = was /\ seen = {} /\ at \in Nat /\ found \in Nat /\ mem \in [DOMAIN was -> Nat]
  BY <1>1, EntryIs
<1>3. req.op # "strtok_s"
  BY <1>1 DEF Copies, Fills
<1>4. Refused'
  BY <1>1, <1>2 DEF Refused, NoTarget, NoRequest, input
<1>5. seen' \subseteq DOMAIN was /\ LoadsAllowed'
  BY <1>1, <1>2, NothingLoaded DEF input
<1>6. reply' \in [code : Pointers, told : BOOLEAN] /\ reply'.told
  BY <1>1 DEF Pointers, EINVAL
<1>7. Differ(mem', was, Declared(req))
  BY <1>1, <1>2 DEF Differ
<1> QED BY <1>1, <1>2, <1>3, <1>4, <1>5, <1>6, <1>7, ToHandler DEF input, scan

(* The destination is emptied, and the handler is invoked.                 *)
LEMMA EmptiedHandled ==
  ASSUME CrtInv, stage \notin {"idle", "handler", "leave"}, req.op \in Copies, ~NoTarget,
         Complain(EINVAL, Emptied), UNCHANGED <<input, scan>>, mem = was,
         seen' \subseteq DOMAIN was, LoadsAllowed',
         \/ req.src = Null /\ ~NoCount
         \/ req.op \in Appends /\ NoNul(was, req.dst, req.dst + req.size)
  PROVE  CrtInv'
<1>1. req.op # "strtok_s"
  BY DEF Copies
<1>2. /\ stage' = "handler" /\ reply' = [code |-> EINVAL, told |-> TRUE]
      /\ mem' = Emptied /\ at' = at /\ found' = found /\ req' = req /\ was' = was
  BY DEF Complain, input, scan
<1>3. mem' \in [DOMAIN was -> Nat] /\ Differ(mem', was, Declared(req))
  BY <1>1, <1>2, EmptiedIs
<1>4. Refused'
  BY <1>2 DEF Refused, NoTarget, NoCount, Emptied
<1>5. reply' \in [code : Pointers, told : BOOLEAN] /\ reply'.told
  BY <1>2 DEF Pointers, EINVAL
<1>6. at' \in Nat /\ found' \in Nat
  BY <1>2 DEF CrtInv, Kinds
<1> QED BY <1>1, <1>2, <1>3, <1>4, <1>5, <1>6, ToHandler DEF input

LEMMA RefuseSourceKeeps == ASSUME CrtInv, RefuseSource PROVE CrtInv'
<1>1. /\ stage = "entry" /\ req.op \in Copies /\ ~NoTarget /\ req.src = Null /\ ~NoCount
      /\ Complain(EINVAL, Emptied) /\ UNCHANGED <<input, scan, seen>>
  BY DEF RefuseSource, Entry
<1>2. mem = was /\ seen = {}
  BY <1>1, EntryIs
<1>3. seen' \subseteq DOMAIN was /\ LoadsAllowed'
  BY <1>1, <1>2, NothingLoaded DEF input
<1> QED BY <1>1, <1>2, <1>3, EmptiedHandled

LEMMA CopyNothingKeeps == ASSUME CrtInv, CopyNothing PROVE CrtInv'
<1>1. /\ stage = "entry" /\ req.op = "strncpy_s" /\ ~NoTarget /\ stage' = "leave"
      /\ mem' = Emptied /\ reply' = [code |-> 0, told |-> FALSE] /\ UNCHANGED <<input, scan, seen>>
  BY DEF CopyNothing, Entry, Answer
<1>2. mem = was /\ seen = {} /\ at \in Nat /\ found \in Nat
  BY <1>1, EntryIs
<1>3. req.dst \in Nat /\ req.dst < req.dst + req.size
  BY <1>1, Targeted
<1>4. mem' \in [DOMAIN was -> Nat] /\ mem'[req.dst] = Nul /\ Differ(mem', was, req.dst..req.dst)
  BY <1>1, <1>2, EmptiedIs
<1>5. Leaving'
  <2>1. UNCHANGED <<input>> /\ req.op # "strtok_s" /\ stage # "idle" /\ req.dst <= req.dst
    BY <1>1, <1>3
  <2> QED BY <1>1, <1>3, <1>4, <2>1, WroteString
<1>6. seen' \subseteq DOMAIN was /\ LoadsAllowed'
  BY <1>1, <1>2, NothingLoaded DEF input
<1>7. reply' \in [code : Pointers, told : BOOLEAN]
  BY <1>1 DEF Pointers
<1> QED BY <1>1, <1>2, <1>4, <1>5, <1>6, <1>7, ToLeave DEF input, scan
-----------------------------------------------------------------------------
(* The first cell of the destination is looked at.                         *)
LEMMA FirstRead ==
  ASSUME CrtInv, stage # "idle", req.op \in Copies, ~NoTarget, req' = req, was' = was
  PROVE  /\ req.dst \in Nat /\ Cell(req.dst) /\ req.dst \in Reads'
         /\ req.dst \in req.dst..(req.dst + req.size - 1)
<1>1. req.op # "strtok_s"
  BY DEF Copies
<1>2. req.dst \in req.dst..(req.dst + req.size - 1) /\ req.dst \in Nat /\ Cell(req.dst)
  <2>1. req.dst \in Nat /\ req.size \in Nat /\ req.size > 0
    BY <1>1, Targeted
  <2>2. req.dst \in req.dst..(req.dst + req.size - 1)
    BY <2>1
  <2> QED BY <1>1, <2>1, <2>2, Targeted
<1>3. NoNul(was, req.dst, req.dst)
  BY <1>2 DEF NoNul
<1> QED BY <1>1, <1>2, <1>3, TargetRead

LEMMA KeepEmptyKeeps == ASSUME CrtInv, KeepEmpty PROVE CrtInv'
<1>1. /\ stage = "entry" /\ req.op = "strncat_s" /\ ~NoTarget /\ stage' = "leave" /\ mem' = mem
      /\ reply' = [code |-> 0, told |-> FALSE] /\ seen' = {req.dst} /\ UNCHANGED <<input, scan>>
  BY DEF KeepEmpty, Entry, Answer
<1>2. mem = was /\ at \in Nat /\ found \in Nat /\ mem \in [DOMAIN was -> Nat]
  BY <1>1, EntryIs
<1>3. req.op # "strtok_s" /\ Leaving'
  BY <1>1, <1>2, Unwritten
<1>4. seen' \subseteq DOMAIN was /\ LoadsAllowed'
  <2>1. req' = req /\ was' = was /\ req.op \in Copies
    BY <1>1 DEF input, Copies
  <2>2. req.dst \in Nat /\ Cell(req.dst) /\ req.dst \in Reads'
    BY <1>1, <2>1, FirstRead
  <2> QED BY <1>1, <2>1, <2>2, CellLoaded
<1>5. reply' \in [code : Pointers, told : BOOLEAN]
  BY <1>1 DEF Pointers
<1> QED BY <1>1, <1>2, <1>3, <1>4, <1>5, ToLeave DEF input, scan

(* The scan of the source begins.                                          *)
LEMMA ToScan ==
  ASSUME CrtInv, stage \in {"entry", "walk"}, req.op \in Copies, Sourced,
         NEW len \in Nat, ScanSource(len), UNCHANGED <<mem, input, reply>>,
         seen' \subseteq DOMAIN was, LoadsAllowed',
         len < req.size, req.op \notin Appends => len = 0, req.op = "strncpy_s" => req.count # 0,
         req.op \in Appends => NoNul(was, req.dst, req.dst + len) /\ was[req.dst + len] = Nul
  PROVE  CrtInv'
<1>1. stage' = "scan" /\ found' = len /\ at' = Aligned(req.src) /\ req' = req /\ was' = was
  BY DEF ScanSource, input
<1>2. req.src \in Nat
  BY SourceIs DEF Sourced
<1>3. at' \in Nat /\ at' % Block = 0 /\ at' <= req.src /\ req.src < at' + Block
  BY <1>1, <1>2, AlignedIs
<1>4. NoNul(was, req.src, at')
  BY <1>2, <1>3, NoneYet
<1>5. FoundIs'
  BY <1>1 DEF FoundIs
<1>6. InScan'
  <2>1. Sourced'
    BY <1>1 DEF Sourced, NoTarget
  <2>2. (at <= req.src \/ at < req.src + Limit)'
    BY <1>1, <1>3
  <2>3. (at % Block = 0 /\ req.src < at + Block /\ NoNul(was, req.src, at))'
    BY <1>1, <1>3, <1>4
  <2> QED BY <1>1, <1>5, <2>1, <2>2, <2>3 DEF InScan
<1> QED BY <1>1, <1>3, <1>6, GoesOn DEF input

LEMMA StartCopyKeeps == ASSUME CrtInv, StartCopy PROVE CrtInv'
<1>1. /\ stage = "entry" /\ req.op \in {"strcpy_s", "strncpy_s"} /\ Sourced
      /\ ScanSource(0) /\ UNCHANGED <<mem, input, reply, seen>> /\ ~NoCount
  BY DEF StartCopy, Entry
<1>2. seen = {}
  BY <1>1, EntryIs
<1>3. seen' \subseteq DOMAIN was /\ LoadsAllowed'
  BY <1>1, <1>2, NothingLoaded DEF input
<1>4. req.op \in Copies /\ req.op \notin Appends /\ req.op # "strtok_s"
  BY <1>1 DEF Copies, Appends
<1>5. 0 < req.size
  <2>1. req.size \in Nat /\ req.size > 0
    BY <1>1, <1>4, Targeted DEF Sourced
  <2> QED BY <2>1
<1>6. req.op = "strncpy_s" => req.count # 0
  BY <1>1 DEF NoCount, Counts
<1> QED BY <1>1, <1>3, <1>4, <1>5, <1>6, ToScan

LEMMA AppendToEmptyKeeps == ASSUME CrtInv, AppendToEmpty PROVE CrtInv'
<1>1. /\ stage = "entry" /\ req.op \in Appends /\ Sourced /\ mem[req.dst] = Nul
      /\ ScanSource(0) /\ seen' = {req.dst} /\ UNCHANGED <<mem, input, reply>>
  BY DEF AppendToEmpty, Entry
<1>2. /\ req.op \in Copies /\ req.op # "strtok_s" /\ ~NoTarget /\ req' = req /\ was' = was
      /\ req.op # "strncpy_s"
  BY <1>1 DEF Copies, Appends, Sourced, input
<1>3. req.dst \in Nat /\ Cell(req.dst) /\ req.dst \in Reads'
  BY <1>1, <1>2, FirstRead
<1>4. seen' \subseteq DOMAIN was /\ LoadsAllowed'
  BY <1>1, <1>2, <1>3, CellLoaded
<1>5. 0 < req.size
  <2>1. req.size \in Nat /\ req.size > 0
    BY <1>1, <1>2, Targeted
  <2> QED BY <2>1
<1>6. req.dst + 0 = req.dst /\ was[req.dst] = Nul
  BY <1>1, <1>3, EntryIs
<1>7. NoNul(was, req.dst, req.dst + 0) /\ was[req.dst + 0] = Nul
  BY <1>3, <1>6 DEF NoNul
<1> QED BY <1>1, <1>2, <1>4, <1>5, <1>7, ToScan

LEMMA StartWalkKeeps == ASSUME CrtInv, StartWalk PROVE CrtInv'
<1>1. /\ stage = "entry" /\ req.op \in Appends /\ ~NoTarget /\ (Sourced \/ NoCount)
      /\ stage' = "walk" /\ at' = Aligned(req.dst) /\ found' = 0
      /\ seen' = {req.dst} \union IF req.op = "strcat_s" THEN BlockAt(Aligned(req.src)) ELSE {}
      /\ UNCHANGED <<mem, input, reply>>
  BY DEF StartWalk, Entry
<1>2. req.op \in Copies /\ req.op # "strtok_s" /\ req' = req /\ was' = was
  BY <1>1 DEF Copies, Appends, input
<1>3. req.dst \in Nat /\ Cell(req.dst) /\ req.dst \in Reads' /\ req.size \in Nat /\ req.size > 0
  BY <1>1, <1>2, FirstRead, Targeted
<1>4. seen' \subseteq DOMAIN was /\ LoadsAllowed'
  <2>1. Memory(was)
    BY DEF CrtInv
  <2>2. req.dst \in DOMAIN was
    BY <1>3, <2>1, CellMapped
  <2>3. CASE req.op # "strcat_s"
    <3>1. seen' = {req.dst}
      BY <1>1, <2>3
    <3> QED BY <1>2, <1>3, <3>1, CellLoaded
  <2>4. CASE req.op = "strcat_s"
    <3> DEFINE a == Aligned(req.src)
    <3>1. req.src # Null
      BY <1>1, <2>4 DEF Sourced, NoCount, Counts
    <3>2. req.src \in Nat /\ Cell(req.src)
      BY <1>1, <1>2, <3>1, SourceIs
    <3>3. NoNul(was, req.src, req.src)
      BY <3>2 DEF NoNul
    <3>4. req.src \in Reads'
      BY <1>1, <1>2, <3>1, <3>2, <3>3, SourceRead
    <3>5. a \in Nat /\ a % Block = 0 /\ a <= req.src /\ req.src < a + Block
      BY <3>2, AlignedIs
    <3>6. a % Page <= Page - Block
      BY <3>5, AlignedPage
    <3>7. req.src \in BlockAt(a)
      BY <3>2, <3>5, SmallBlock DEF BlockAt
    <3> HIDE DEF a
    <3>8. BlockAt(a) \subseteq DOMAIN was /\ \A x \in BlockAt(a) : req.src \div Page = x \div Page
      BY <2>1, <3>2, <3>5, <3>6, <3>7, BlockMapped
    <3>9. seen' = {req.dst} \union BlockAt(a)
      BY <1>1, <2>4 DEF a
    <3> QED BY <1>2, <1>3, <2>2, <3>4, <3>8, <3>9 DEF LoadsAllowed
  <2> QED BY <2>3, <2>4
<1>5. at' \in Nat /\ at' % Block = 0 /\ at' <= req.dst /\ req.dst < at' + Block
  BY <1>1, <1>3, AlignedIs
<1>6. InWalk'
  <2>1. (~NoTarget /\ (req.src # Null \/ NoCount))'
    BY <1>1, <1>2 DEF NoTarget, Sourced, NoCount
  <2>2. (at < req.dst + req.size)'
    BY <1>2, <1>3, <1>5
  <2>3. NoNul(was, req.dst, at)'
    BY <1>2, <1>3, <1>5, NoneYet
  <2> QED BY <1>1, <1>2, <1>5, <2>1, <2>2, <2>3 DEF InWalk
<1>7. found' \in Nat /\ stage \notin {"idle", "handler", "leave"}
  BY <1>1
<1> QED BY <1>1, <1>4, <1>5, <1>6, <1>7, GoesOn DEF input
-----------------------------------------------------------------------------
(* Blocks that are scanned for a NUL.                                      *)

LEMMA NoHit ==
  ASSUME mem = was, at \in Nat, NEW a \in Nat, NoNul(was, a, at), Hits(a) = {}
  PROVE  NoNul(was, a, at + Block)
<1>1. Block \in Nat
  BY SmallBlock
<1>2. SUFFICES ASSUME NEW x \in a..((at + Block) - 1), was[x] = Nul PROVE FALSE
  BY DEF NoNul
<1>3. CASE x < at
  <2>1. x \in a..(at - 1)
    BY <1>1, <1>3
  <2> QED BY <1>2, <2>1 DEF NoNul
<1>4. CASE x >= at
  <2>1. x \in BlockAt(at) /\ x >= a
    BY <1>1, <1>4 DEF BlockAt
  <2> QED BY <1>2, <2>1 DEF Hits
<1> QED BY <1>1, <1>3, <1>4

LEMMA FirstHit ==
  ASSUME mem = was, at \in Nat, NEW a \in Nat, NoNul(was, a, at), Hits(a) # {}
  PROVE  \E n \in Nat : /\ First(a) = n /\ a + n \in BlockAt(at) /\ LeastOf(Hits(a)) = a + n
                        /\ was[a + n] = Nul /\ NoNul(was, a, a + n)
<1>1. Block \in Nat
  BY SmallBlock
<1> DEFINE l == LeastOf(Hits(a))
<1>2. Hits(a) \in SUBSET Nat
  BY <1>1 DEF Hits, BlockAt
<1>3. l \in Hits(a) /\ \A x \in Hits(a) : l <= x
  BY <1>2, LeastIs
<1> HIDE DEF l
<1>4. l \in BlockAt(at) /\ l >= a /\ was[l] = Nul /\ l \in Nat
  BY <1>2, <1>3 DEF Hits
<1>5. NoNul(was, a, l)
  <2>1. SUFFICES ASSUME NEW x \in a..(l - 1), was[x] = Nul PROVE FALSE
    BY DEF NoNul
  <2>2. CASE x < at
    <3>1. x \in a..(at - 1)
      BY <1>4, <2>2
    <3> QED BY <2>1, <3>1 DEF NoNul
  <2>3. CASE x >= at
    <3>1. x \in BlockAt(at) /\ x >= a
      BY <1>1, <1>4, <2>3 DEF BlockAt
    <3>2. x \in Hits(a)
      BY <2>1, <3>1 DEF Hits
    <3> QED BY <1>3, <1>4, <3>2
  <2> QED BY <1>4, <2>2, <2>3
<1>6. PICK n \in Nat : n = l - a
  BY <1>4
<1>7. First(a) = n /\ a + n = l
  BY <1>4, <1>6 DEF First, l
<1> QED BY <1>4, <1>5, <1>7 DEF l

(* What has no NUL has none in less.                                       *)
LEMMA NoNulBefore ==
  ASSUME NEW m, NEW a \in Nat, NEW b \in Nat, NEW c \in Nat, c <= b, NoNul(m, a, b)
  PROVE  NoNul(m, a, c)
<1>1. \A x \in a..(c - 1) : x \in a..(b - 1)
  OBVIOUS
<1> QED BY <1>1 DEF NoNul

LEMMA WalkLoads ==
  ASSUME CrtInv, stage = "walk", req' = req, was' = was, seen' = BlockAt(at)
  PROVE  seen' \subseteq DOMAIN was /\ LoadsAllowed'
<1>1. InWalk /\ at \in Nat /\ Block \in Nat \ {0}
  BY SmallBlock DEF CrtInv, AtStage, Kinds
<1>2. req.op # "strtok_s" /\ ~NoTarget
  BY <1>1 DEF InWalk, Appends
<1>3. req.dst \in Nat /\ req.size \in Nat /\ req.size > 0
  BY <1>2, Targeted
<1>4. at % Page <= Page - Block
  BY <1>1, AlignedPage DEF InWalk
<1>5. PICK y \in Nat : y = IF at <= req.dst THEN req.dst ELSE at
  BY <1>1, <1>3
<1>6. req.dst < at + Block /\ at < req.dst + req.size /\ NoNul(was, req.dst, at)
  BY <1>1 DEF InWalk
<1>7. y \in BlockAt(at) /\ y \in req.dst..(req.dst + req.size - 1)
  BY <1>1, <1>3, <1>5, <1>6 DEF BlockAt
<1>8. NoNul(was, req.dst, y)
  BY <1>3, <1>5, <1>6, NoneYet
<1>9. Cell(y) /\ y \in Reads'
  BY <1>2, <1>7, <1>8, Targeted, TargetRead
<1> QED BY <1>1, <1>4, <1>7, <1>9, BlockLoaded

LEMMA WalkBlockKeeps == ASSUME CrtInv, WalkBlock PROVE CrtInv'
<1>1. stage = "walk" /\ seen' = BlockAt(at) /\ UNCHANGED input
  BY DEF WalkBlock
<1>2. InWalk /\ at \in Nat /\ found \in Nat /\ mem = was /\ Block \in Nat \ {0} /\ mem \in [DOMAIN was -> Nat]
  BY <1>1, SmallBlock DEF CrtInv, AtStage, Kinds
<1>3. /\ req.op \in Appends /\ req.op \in Copies /\ req.op # "strtok_s" /\ ~NoTarget
      /\ (req.src # Null \/ NoCount)
      /\ req.dst < at + Block /\ at < req.dst + req.size /\ NoNul(was, req.dst, at)
  BY <1>2 DEF InWalk, Appends, Copies
<1>4. req.dst \in Nat /\ req.size \in Nat /\ req.size > 0
  BY <1>1, <1>3, Targeted
<1>5. req' = req /\ was' = was /\ ctx' = ctx /\ UNCHANGED client
  BY <1>1 DEF input
<1>6. seen' \subseteq DOMAIN was /\ LoadsAllowed'
  BY <1>1, <1>5, WalkLoads
<1>7. CASE Hits(req.dst) = {}
  <2>1. NoNul(was, req.dst, at + Block)
    BY <1>2, <1>3, <1>4, <1>7, NoHit
  <2>2. CASE Covered(req.dst) < req.size /\ GoOn
    <3>1. at' = at + Block /\ mem' = mem /\ found' = found /\ reply' = reply /\ stage' = "walk"
      BY <1>1, <2>2 DEF GoOn
    <3>2. at + Block \in Nat /\ (at + Block) % Block = 0
      BY <1>2, NextAligned DEF InWalk
    <3>3. at + Block < req.dst + req.size /\ req.dst < (at + Block) + Block
      BY <1>2, <1>3, <1>4, <2>2 DEF Covered
    <3>4. (~NoTarget /\ (req.src # Null \/ NoCount))'
      BY <1>3, <1>5 DEF NoTarget, NoCount
    <3>5. InWalk'
      BY <1>3, <1>5, <2>1, <3>1, <3>2, <3>3, <3>4 DEF InWalk
    <3> QED BY <1>1, <1>2, <1>5, <1>6, <3>1, <3>2, <3>5, GoesOn
  <2>3. CASE Covered(req.dst) >= req.size /\ Complain(EINVAL, Emptied) /\ UNCHANGED scan
    <3>1. req.dst + req.size <= at + Block /\ req.dst + req.size \in Nat /\ at + Block \in Nat
      BY <1>2, <1>4, <2>3 DEF Covered
    <3>2. NoNul(was, req.dst, req.dst + req.size)
      BY <1>4, <2>1, <3>1, NoNulBefore
    <3> QED BY <1>1, <1>2, <1>3, <1>6, <2>3, <3>2, EmptiedHandled
  <2> QED BY <1>7, <2>2, <2>3 DEF WalkBlock
<1>8. CASE Hits(req.dst) # {}
  <2>1. PICK n \in Nat : /\ First(req.dst) = n /\ was[req.dst + n] = Nul
                         /\ NoNul(was, req.dst, req.dst + n)
    BY <1>2, <1>3, <1>4, <1>8, FirstHit
  <2>2. CASE n >= req.size /\ Complain(EINVAL, Emptied) /\ UNCHANGED scan
    <3>1. req.dst + req.size <= req.dst + n /\ req.dst + req.size \in Nat /\ req.dst + n \in Nat
      BY <1>4, <2>2
    <3>2. NoNul(was, req.dst, req.dst + req.size)
      BY <1>4, <2>1, <3>1, NoNulBefore
    <3> QED BY <1>1, <1>2, <1>3, <1>6, <2>2, <3>2, EmptiedHandled
  <2>3. CASE n < req.size /\ req.src # Null /\ ScanSource(n) /\ UNCHANGED <<mem, reply>>
    <3>1. Sourced /\ req.op # "strncpy_s"
      BY <1>3, <2>3 DEF Sourced, Appends
    <3>2. UNCHANGED <<mem, input, reply>>
      BY <1>1, <2>3
    <3> QED BY <1>1, <1>3, <1>6, <2>1, <2>3, <3>1, <3>2, ToScan
  <2>4. CASE n < req.size /\ req.src = Null /\ Answer(0, mem) /\ UNCHANGED scan
    <3>1. stage' = "leave" /\ mem' = mem /\ reply' = [code |-> 0, told |-> FALSE]
      BY <2>4 DEF Answer
    <3>2. Leaving'
      BY <1>1, <1>2, <1>3, <3>1, Unwritten
    <3>3. reply' \in [code : Pointers, told : BOOLEAN]
      BY <3>1 DEF Pointers
    <3>4. at' \in Nat /\ found' \in Nat
      BY <1>2, <2>4 DEF scan
    <3> QED BY <1>1, <1>2, <1>3, <1>5, <1>6, <3>1, <3>2, <3>3, <3>4, ToLeave
  <2> QED BY <1>8, <2>1, <2>2, <2>3, <2>4 DEF WalkBlock
<1> QED BY <1>7, <1>8
-----------------------------------------------------------------------------
(* The copy behind the scan.                                               *)

LEMMA LimitIs ==
  ASSUME CrtInv, stage = "scan"
  PROVE  /\ InScan /\ mem = was /\ req.op \in Copies /\ req.op # "strtok_s" /\ ~NoTarget
         /\ req.src # Null /\ req.src \in Nat /\ req.dst \in Nat /\ req.size \in Nat
         /\ found \in Nat /\ at \in Nat /\ Room \in Nat /\ Room > 0 /\ found + Room = req.size
         /\ Limit \in Nat /\ Limit <= Room /\ Limit <= Bound(req)
<1>1. InScan /\ mem = was /\ found \in Nat /\ at \in Nat
  BY DEF CrtInv, AtStage, Kinds
<1>2. req.op \in Copies /\ req.op # "strtok_s" /\ ~NoTarget /\ req.src # Null /\ found < req.size
  BY <1>1 DEF InScan, Sourced, Copies, FoundIs
<1>3. req \in Requests /\ req.dst \in Nat /\ req.size \in Nat /\ req.src \in Nat
  BY <1>2, Targeted, SourceIs
<1>4. req.count \in Nat
  BY <1>3, RequestIs, ArraysAssumption
<1>5. Room \in Nat /\ Room > 0 /\ found + Room = req.size /\ Room <= req.size
  BY <1>1, <1>2, <1>3 DEF Room
<1>6. Limit \in Nat /\ Limit <= Room
  BY <1>4, <1>5 DEF Limit
<1>7. Limit <= Bound(req)
  BY <1>3, <1>4, <1>5 DEF Limit, Bound, Lesser
<1> QED BY <1>1, <1>2, <1>3, <1>5, <1>6, <1>7

LEMMA ScanLoads ==
  ASSUME CrtInv, stage = "scan", req' = req, was' = was, seen' = BlockAt(at)
  PROVE  seen' \subseteq DOMAIN was /\ LoadsAllowed'
<1>1. /\ InScan /\ req.op \in Copies /\ req.src # Null /\ req.src \in Nat /\ at \in Nat
      /\ Limit \in Nat /\ Limit <= Bound(req) /\ Block \in Nat \ {0}
  BY LimitIs, SmallBlock
<1>2. at % Page <= Page - Block
  BY <1>1, AlignedPage DEF InScan
<1>3. PICK y \in Nat : y = IF at <= req.src THEN req.src ELSE at
  BY <1>1
<1>4. /\ req.src < at + Block /\ NoNul(was, req.src, at)
      /\ at <= req.src \/ at < req.src + Limit
  BY <1>1 DEF InScan
<1>5. y \in BlockAt(at) /\ req.src <= y
  BY <1>1, <1>3, <1>4 DEF BlockAt
<1>6. y = req.src \/ y < req.src + Bound(req)
  <2>1. req \in Requests
    BY <1>1, SourceIs
  <2>2. Bound(req) \in Nat
    BY <2>1, BoundIs
  <2> QED BY <1>1, <1>3, <1>4, <2>2
<1>7. NoNul(was, req.src, y)
  BY <1>1, <1>3, <1>4, NoneYet
<1>8. Cell(y) /\ y \in Reads'
  BY <1>1, <1>5, <1>6, <1>7, SourceRead
<1> QED BY <1>1, <1>2, <1>5, <1>8, BlockLoaded

(* n characters of the source, none of them NUL, in the destination.       *)
LEMMA MovedSource ==
  ASSUME CrtInv, stage = "scan", NEW n \in 0..Limit, NoNul(was, req.src, req.src + n)
  PROVE  LET to == req.dst + found
             m  == Moved(was, to, req.src, n)
         IN  /\ m \in [DOMAIN was -> Nat] /\ Differ(m, was, to..(to + n - 1))
             /\ to \in Nat /\ to..(to + n - 1) \subseteq Declared(req)
<1>1. /\ req.src # Null /\ req.src \in Nat /\ req.op \in Copies /\ req.dst \in Nat /\ found \in Nat
      /\ req.size \in Nat /\ Limit \in Nat /\ Limit <= Room /\ Room \in Nat
      /\ Limit <= Bound(req) /\ found + Room = req.size /\ ~NoTarget
  BY LimitIs
<1>2. req.src + n <= EndOf(req.src) /\ Cell(req.src) /\ EndOf(req.src) \in Nat
  <2>1. n \in 0..Bound(req)
    <3>1. req \in Requests
      BY <1>1, SourceIs
    <3>2. Bound(req) \in Nat
      BY <3>1, BoundIs
    <3> QED BY <1>1, <3>2
  <2> QED BY <1>1, <2>1, SourceIs
<1>3. Memory(was) /\ was \in [DOMAIN was -> Nat] /\ DOMAIN was \subseteq Nat
  BY DEF CrtInv, Memory
<1>4. req.src..(req.src + n - 1) \subseteq DOMAIN was
  <2>1. SUFFICES ASSUME NEW x \in req.src..(req.src + n - 1) PROVE x \in DOMAIN was
    OBVIOUS
  <2>2. x \in req.src..(EndOf(req.src) - 1)
    BY <1>1, <1>2
  <2>3. x \in Nat /\ Cell(x)
    BY <1>1, <1>2, <2>2, BehindCell
  <2> QED BY <1>3, <2>3, CellMapped
<1>5. PICK to \in Nat : to = req.dst + found
  BY <1>1
<1>6. n \in Nat
  BY <1>1
<1>7. /\ Moved(was, to, req.src, n) \in [DOMAIN was -> Nat]
      /\ Differ(was, Moved(was, to, req.src, n), to..(to + n - 1))
  BY <1>1, <1>3, <1>4, <1>6, MovedIs
<1>8. Differ(Moved(was, to, req.src, n), was, to..(to + n - 1))
  BY <1>7 DEF Differ
<1>9. to..(to + n - 1) \subseteq Declared(req)
  BY <1>1, <1>5, <1>6 DEF Declared, NoTarget
<1> QED BY <1>5, <1>7, <1>8, <1>9

(* A store of one cell more.                                               *)
LEMMA PokeDiffers ==
  ASSUME CrtInv, NEW m, m \in [DOMAIN was -> Nat], NEW S, Differ(m, was, S), NEW a \in DOMAIN was
  PROVE  /\ Poke(m, a, Nul) \in [DOMAIN was -> Nat] /\ Poke(m, a, Nul)[a] = Nul
         /\ Differ(Poke(m, a, Nul), was, S \union {a})
<1>1. DOMAIN m = DOMAIN was /\ Nul \in Nat
  BY DEF Nul
<1>2. /\ Poke(m, a, Nul) \in [DOMAIN m -> Nat] /\ Poke(m, a, Nul)[a] = Nul
      /\ \A x \in DOMAIN m : x # a => Poke(m, a, Nul)[x] = m[x]
  BY <1>1, PokeIs
<1> QED BY <1>1, <1>2 DEF Differ

(* An answer of a copy: the last of the cells that it wrote is NUL.        *)
LEMMA CopyAnswered ==
  ASSUME CrtInv, stage = "scan", UNCHANGED <<input>>, UNCHANGED scan,
         seen' \subseteq DOMAIN was, LoadsAllowed',
         NEW code \in Nat, NEW m, Answer(code, m), m \in [DOMAIN was -> Nat],
         NEW lo \in Nat, NEW hi \in Nat, req.dst <= lo, lo <= hi, hi < req.dst + req.size,
         Differ(m, was, lo..hi), m[hi] = Nul
  PROVE  CrtInv'
<1>1. stage' = "leave" /\ mem' = m /\ reply' = [code |-> code, told |-> FALSE]
  BY DEF Answer
<1>2. ~NoTarget /\ req.op # "strtok_s" /\ stage # "idle" /\ at \in Nat /\ found \in Nat
  BY LimitIs
<1>3. Leaving'
  BY <1>1, <1>2, WroteString
<1>4. reply' \in [code : Pointers, told : BOOLEAN]
  BY <1>1 DEF Pointers
<1>5. at' \in Nat /\ found' \in Nat
  BY <1>2 DEF scan
<1>6. UNCHANGED <<client, req, was>> /\ ctx' = ctx
  BY DEF input
<1>7. stage \notin {"idle", "leave"}
  OBVIOUS
<1> QED BY <1>1, <1>2, <1>3, <1>4, <1>5, <1>6, <1>7, ToLeave
-----------------------------------------------------------------------------
LEMMA FitsKeeps ==
  ASSUME CrtInv, stage = "scan", UNCHANGED <<input>>, UNCHANGED scan,
         seen' \subseteq DOMAIN was, LoadsAllowed',
         NEW n \in 0..Limit, n < Room, NoNul(was, req.src, req.src + n), Fits(n)
  PROVE  CrtInv'
<1>1. /\ mem = was /\ req.op # "strtok_s" /\ ~NoTarget /\ req.dst \in Nat /\ req.size \in Nat
      /\ found \in Nat /\ Room \in Nat /\ found + Room = req.size /\ Limit \in Nat
  BY LimitIs
<1>2. PICK to \in Nat : to = req.dst + found
  BY <1>1
<1>3. PICK m : m = Moved(was, to, req.src, n)
  OBVIOUS
<1>4. m \in [DOMAIN was -> Nat] /\ Differ(m, was, to..(to + n - 1))
  BY <1>2, <1>3, MovedSource
<1>5. PICK hi \in Nat : hi = to + n
  BY <1>1, <1>2
<1>6. req.dst <= to /\ to <= hi /\ hi < req.dst + req.size /\ hi \in req.dst..(req.dst + req.size - 1)
  BY <1>1, <1>2, <1>5
<1>7. hi \in DOMAIN was
  BY <1>1, <1>6, Targeted
<1>8. PICK k : k = Poke(m, hi, Nul)
  OBVIOUS
<1>9. k \in [DOMAIN was -> Nat] /\ k[hi] = Nul /\ Differ(k, was, to..(to + n - 1) \union {hi})
  BY <1>4, <1>7, <1>8, PokeDiffers
<1>10. Differ(k, was, to..hi)
  <2>1. n \in Nat /\ hi \in to..hi
    BY <1>1, <1>6
  <2>2. to..(to + n - 1) \subseteq to..hi
    BY <1>5, <2>1
  <2> QED BY <1>9, <2>1, <2>2 DEF Differ
<1>11. Answer(0, k)
  BY <1>1, <1>2, <1>3, <1>5, <1>8 DEF Fits
<1> QED BY <1>6, <1>9, <1>10, <1>11, CopyAnswered

(* As many characters as there is room for, none of them NUL.              *)
LEMMA WholeIs ==
  ASSUME CrtInv, stage = "scan", Limit = Room, NoNul(was, req.src, req.src + Room)
  PROVE  /\ Whole = Moved(was, req.dst + found, req.src, Room)
         /\ Whole \in [DOMAIN was -> Nat]
         /\ Differ(Whole, was, (req.dst + found)..(req.dst + req.size - 1))
<1>1. /\ mem = was /\ req.dst \in Nat /\ req.size \in Nat
      /\ found \in Nat /\ Room \in Nat /\ found + Room = req.size
  BY LimitIs
<1>2. PICK n \in 0..Limit : n = Room
  BY <1>1
<1>3. NoNul(was, req.src, req.src + n)
  BY <1>2
<1>4. PICK to \in Nat : to = req.dst + found
  BY <1>1
<1>5. /\ Moved(was, to, req.src, n) \in [DOMAIN was -> Nat]
      /\ Differ(Moved(was, to, req.src, n), was, to..(to + n - 1))
  BY <1>3, <1>4, MovedSource
<1>6. Whole = Moved(was, to, req.src, n)
  BY <1>1, <1>2, <1>4 DEF Whole
<1>7. to + n - 1 = req.dst + req.size - 1
  BY <1>1, <1>2, <1>4
<1> QED BY <1>2, <1>4, <1>5, <1>6, <1>7

LEMMA TruncatedKeeps ==
  ASSUME CrtInv, stage = "scan", UNCHANGED <<input>>, UNCHANGED scan,
         seen' \subseteq DOMAIN was, LoadsAllowed',
         Limit = Room, NoNul(was, req.src, req.src + Room), Truncated
  PROVE  CrtInv'
<1>1. /\ req.op # "strtok_s" /\ ~NoTarget /\ req.dst \in Nat /\ req.size \in Nat
      /\ found \in Nat /\ Room \in Nat /\ Room > 0 /\ found + Room = req.size
  BY LimitIs
<1>2. PICK to \in Nat : to = req.dst + found
  BY <1>1
<1>3. PICK hi \in Nat : hi = req.dst + req.size - 1
  BY <1>1
<1>4. Whole \in [DOMAIN was -> Nat] /\ Differ(Whole, was, to..hi)
  BY <1>2, <1>3, WholeIs
<1>5. req.dst <= to /\ to <= hi /\ hi < req.dst + req.size /\ hi \in req.dst..(req.dst + req.size - 1)
  BY <1>1, <1>2, <1>3
<1>6. hi \in DOMAIN was
  BY <1>1, <1>5, Targeted
<1>7. PICK k : k = Poke(Whole, hi, Nul)
  OBVIOUS
<1>8. k \in [DOMAIN was -> Nat] /\ k[hi] = Nul /\ Differ(k, was, to..hi \union {hi})
  BY <1>4, <1>6, <1>7, PokeDiffers
<1>9. Differ(k, was, to..hi)
  <2>1. to..hi \union {hi} = to..hi
    BY <1>5
  <2> QED BY <1>8, <2>1
<1>10. Answer(STRUNCATE, k) /\ STRUNCATE \in Nat
  BY <1>3, <1>7 DEF Truncated, STRUNCATE
<1> QED BY <1>5, <1>8, <1>9, <1>10, CopyAnswered

LEMMA TooLongKeeps ==
  ASSUME CrtInv, stage = "scan", UNCHANGED <<input>>, UNCHANGED scan,
         seen' \subseteq DOMAIN was, LoadsAllowed',
         Limit = Room, NoNul(was, req.src, req.src + Room), TooLong,
         ~(req.op \in Counts /\ req.count = Truncate)
  PROVE  CrtInv'
<1>1. /\ req.op # "strtok_s" /\ req.op \in Copies /\ ~NoTarget /\ req.dst \in Nat /\ req.size \in Nat
      /\ found \in Nat /\ at \in Nat /\ Room \in Nat /\ found + Room = req.size /\ InScan
  BY LimitIs
<1>2. Whole = Moved(was, req.dst + found, req.src, Room)
  BY WholeIs
<1>3. PICK to \in Nat : to = req.dst + found
  BY <1>1
<1>4. Whole \in [DOMAIN was -> Nat] /\ Differ(Whole, was, to..(req.dst + req.size - 1))
  BY <1>3, WholeIs
<1>5. req.dst \in DOMAIN was /\ req.dst \in Declared(req)
  <2>1. req.size > 0
    BY <1>1, Targeted
  <2>2. req.dst \in req.dst..(req.dst + req.size - 1)
    BY <1>1, <2>1
  <2> QED BY <1>1, <2>2, Targeted DEF Declared, NoTarget
<1>6. PICK k : k = Poke(Whole, req.dst, Nul)
  OBVIOUS
<1>7. /\ k \in [DOMAIN was -> Nat]
      /\ Differ(k, was, to..(req.dst + req.size - 1) \union {req.dst})
  BY <1>4, <1>5, <1>6, PokeDiffers
<1>8. Differ(k, was, Declared(req))
  <2>1. to..(req.dst + req.size - 1) \subseteq Declared(req)
    BY <1>1, <1>3 DEF Declared, NoTarget
  <2> QED BY <1>5, <1>7, <2>1 DEF Differ
<1>9. stage' = "handler" /\ mem' = k /\ reply' = [code |-> ERANGE, told |-> TRUE]
  BY <1>6 DEF TooLong, Complain
<1>10. req' = req /\ was' = was /\ UNCHANGED <<client>> /\ ctx' = ctx /\ found' = found /\ at' = at
  BY DEF input, scan
<1>11. Refused'
  <2>1. FoundIs /\ Sourced
    BY <1>1 DEF InScan
  <2>2. (Sourced /\ FoundIs /\ Limit = Room)'
    BY <1>10, <2>1 DEF Sourced, NoTarget, FoundIs, Limit, Room
  <2>3. Room' = Room
    BY <1>10 DEF Room
  <2>4. mem' = Poke(Moved(was, req.dst + found, req.src, Room), req.dst, Nul)
    BY <1>2, <1>6, <1>9
  <2>5. reply'.code = ERANGE
    BY <1>9
  <2> QED BY <1>1, <1>10, <2>2, <2>3, <2>4, <2>5 DEF Refused
<1>12. reply' \in [code : Pointers, told : BOOLEAN] /\ reply'.told
  BY <1>9 DEF Pointers, ERANGE
<1> QED BY <1>1, <1>7, <1>8, <1>9, <1>10, <1>11, <1>12, ToHandler

LEMMA NoEndKeeps ==
  ASSUME CrtInv, stage = "scan", UNCHANGED <<input>>, UNCHANGED scan,
         seen' \subseteq DOMAIN was, LoadsAllowed',
         NoNul(was, req.src, req.src + Limit), NoEnd
  PROVE  CrtInv'
<1>1. CASE Limit < Room /\ Fits(Limit)
  <2>1. PICK n \in 0..Limit : n = Limit
    BY LimitIs
  <2> QED BY <1>1, <2>1, FitsKeeps
<1>2. CASE Limit = Room /\ req.op \in Counts /\ req.count = Truncate /\ Truncated
  BY <1>2, TruncatedKeeps
<1>3. CASE Limit = Room /\ ~(req.op \in Counts /\ req.count = Truncate) /\ TooLong
  BY <1>3, TooLongKeeps
<1> QED BY <1>1, <1>2, <1>3 DEF NoEnd

LEMMA ScanBlockKeeps == ASSUME CrtInv, ScanBlock PROVE CrtInv'
<1>1. stage = "scan" /\ seen' = BlockAt(at) /\ UNCHANGED <<input>>
  BY DEF ScanBlock
<1>2. /\ InScan /\ mem = was /\ at \in Nat /\ req.src \in Nat /\ Limit \in Nat /\ found \in Nat
      /\ Block \in Nat \ {0} /\ NoNul(was, req.src, at) /\ req.src < at + Block
  BY <1>1, LimitIs, SmallBlock DEF InScan
<1>3. req' = req /\ was' = was /\ ctx' = ctx /\ UNCHANGED <<client>>
  BY <1>1 DEF input
<1>4. seen' \subseteq DOMAIN was /\ LoadsAllowed'
  BY <1>1, <1>3, ScanLoads
<1>5. CASE Hits(req.src) = {}
  <2>1. NoNul(was, req.src, at + Block)
    BY <1>2, <1>5, NoHit
  <2>2. CASE Covered(req.src) < Limit /\ GoOn
    <3>1. at' = at + Block /\ mem' = mem /\ found' = found /\ reply' = reply /\ stage' = "scan"
      BY <1>1, <2>2 DEF GoOn
    <3>2. at + Block \in Nat /\ (at + Block) % Block = 0
      BY <1>2, NextAligned DEF InScan
    <3>3. at + Block < req.src + Limit /\ req.src < (at + Block) + Block
      BY <1>2, <2>2 DEF Covered
    <3>4. FoundIs' /\ Sourced' /\ Limit' = Limit
      BY <1>2, <1>3, <3>1 DEF FoundIs, Sourced, NoTarget, Limit, Room, InScan
    <3>5. InScan'
      BY <1>2, <1>3, <2>1, <3>1, <3>2, <3>3, <3>4 DEF InScan
    <3> QED BY <1>1, <1>2, <1>3, <1>4, <3>1, <3>2, <3>5, GoesOn
  <2>3. CASE Covered(req.src) >= Limit /\ NoEnd /\ UNCHANGED scan
    <3>1. req.src + Limit <= at + Block /\ req.src + Limit \in Nat /\ at + Block \in Nat
      BY <1>2, <2>3 DEF Covered
    <3>2. NoNul(was, req.src, req.src + Limit)
      BY <1>2, <2>1, <3>1, NoNulBefore
    <3> QED BY <1>1, <1>4, <2>3, <3>2, NoEndKeeps
  <2> QED BY <1>5, <2>2, <2>3 DEF ScanBlock
<1>6. CASE Hits(req.src) # {}
  <2>1. PICK n \in Nat : First(req.src) = n /\ NoNul(was, req.src, req.src + n)
    BY <1>2, <1>6, FirstHit
  <2>2. CASE n >= Limit /\ NoEnd /\ UNCHANGED scan
    <3>1. req.src + Limit <= req.src + n /\ req.src + Limit \in Nat /\ req.src + n \in Nat
      BY <1>2, <2>2
    <3>2. NoNul(was, req.src, req.src + Limit)
      BY <1>2, <2>1, <3>1, NoNulBefore
    <3> QED BY <1>1, <1>4, <2>2, <3>2, NoEndKeeps
  <2>3. CASE n < Limit /\ Fits(n) /\ UNCHANGED scan
    <3>1. n \in 0..Limit /\ n < Room
      <4>1. Limit <= Room /\ Room \in Nat
        BY <1>1, LimitIs
      <4> QED BY <1>2, <2>3, <4>1
    <3> QED BY <1>1, <1>4, <2>1, <2>3, <3>1, FitsKeeps
  <2> QED BY <1>6, <2>1, <2>2, <2>3 DEF ScanBlock
<1> QED BY <1>5, <1>6
-----------------------------------------------------------------------------
(* The fills.                                                              *)

LEMMA FillIs ==
  ASSUME CrtInv, stage = "fill"
  PROVE  /\ mem = was /\ req.op \in Fills /\ req.op # "strtok_s" /\ ~NoTarget /\ found \in Nat
         /\ req \in Requests /\ req.dst \in Nat /\ req.size \in Nat /\ req.size > 0 /\ at \in Nat
         /\ req.dst <= at /\ at <= req.dst + req.size /\ NoNul(was, req.dst, at)
<1>1. InFill /\ mem = was /\ found \in Nat /\ at \in Nat
  BY DEF CrtInv, AtStage, Kinds
<1>2. req.op \in Fills /\ req.op # "strtok_s" /\ ~NoTarget
  BY <1>1 DEF InFill, Fills
<1> QED BY <1>1, <1>2, Targeted DEF InFill

LEMMA StartFillKeeps == ASSUME CrtInv, StartFill PROVE CrtInv'
<1>1. /\ stage = "entry" /\ req.op \in Fills /\ ~NoTarget /\ stage' = "fill" /\ at' = req.dst
      /\ UNCHANGED <<mem, input, found, reply, seen>>
  BY DEF StartFill, Entry
<1>2. req.op # "strtok_s" /\ req' = req /\ was' = was /\ ctx' = ctx /\ UNCHANGED <<client>>
  BY <1>1 DEF Fills, input
<1>3. req.dst \in Nat /\ req.size \in Nat /\ req.size > 0
  BY <1>1, <1>2, Targeted
<1>4. seen' \subseteq DOMAIN was /\ LoadsAllowed'
  BY <1>1, <1>2, EntryIs, NothingLoaded
<1>5. InFill'
  <2>1. NoNul(was, req.dst, req.dst) /\ req.dst <= req.dst /\ req.dst <= req.dst + req.size
    BY <1>3, NoneYet
  <2>2. ~NoTarget'
    BY <1>1, <1>2 DEF NoTarget
  <2> QED BY <1>1, <1>2, <2>1, <2>2 DEF InFill
<1>6. at' \in Nat /\ found' \in Nat
  BY <1>1, <1>3, EntryIs
<1> QED BY <1>1, <1>2, <1>4, <1>5, <1>6, GoesOn

(* At most n cells are filled, of those of the buffer.                     *)
LEMMA FillCellsAre ==
  ASSUME CrtInv, stage = "fill", NEW n \in Nat, n <= req.size
  PROVE  /\ FillCells(n) = Filled(was, req.dst, Clipped(n), req.fill)
         /\ FillCells(n) \in [DOMAIN was -> Nat]
         /\ Differ(FillCells(n), was, req.dst..(req.dst + n - 1))
<1>1. mem = was /\ req \in Requests /\ req.dst \in Nat /\ req.size \in Nat
  BY FillIs
<1>2. req.fill \in Nat /\ req.count \in Nat
  BY <1>1, RequestIs, ArraysAssumption
<1>3. PICK k \in Nat : k = Clipped(n) /\ k <= n
  BY <1>2 DEF Clipped, Lesser
<1>4. FillCells(n) = Filled(was, req.dst, k, req.fill)
  BY <1>1, <1>3 DEF FillCells, Clipped
<1>5. was \in [DOMAIN was -> Nat] /\ DOMAIN was \subseteq Nat
  BY DEF CrtInv, Memory
<1>6. /\ FillCells(n) \in [DOMAIN was -> Nat]
      /\ Differ(was, FillCells(n), req.dst..(req.dst + k - 1))
  <2>1. req.fill \in Nat
    BY <1>2
  <2>2. PICK m : m = Filled(was, req.dst, k, req.fill)
    OBVIOUS
  <2>3. m \in [DOMAIN was -> Nat] /\ Differ(was, m, req.dst..(req.dst + k - 1))
    BY ONLY <1>1, <1>5, <2>1, <2>2, k \in Nat, FilledIs
  <2> QED BY <1>4, <2>2, <2>3
<1>7. req.dst..(req.dst + k - 1) \subseteq req.dst..(req.dst + n - 1)
  BY <1>1, <1>3
<1>8. Differ(FillCells(n), was, req.dst..(req.dst + n - 1))
  BY <1>6, <1>7 DEF Differ
<1> QED BY <1>3, <1>4, <1>6, <1>8

(* A fill up to the NUL at x.                                              *)
LEMMA FillingKeeps ==
  ASSUME CrtInv, stage = "fill", UNCHANGED <<input>>, seen' \subseteq DOMAIN was, LoadsAllowed',
         NEW n \in Nat, n < req.size, was[req.dst + n] = Nul, Filling(n)
  PROVE  CrtInv'
<1>1. /\ mem = was /\ req \in Requests /\ req.dst \in Nat /\ req.size \in Nat /\ ~NoTarget
      /\ req.op # "strtok_s" /\ at \in Nat /\ found \in Nat
  BY FillIs
<1>2. PICK k : k = FillCells(n)
  OBVIOUS
<1>3. k \in [DOMAIN was -> Nat] /\ Differ(k, was, req.dst..(req.dst + n - 1))
  <2>1. n <= req.size
    BY <1>1
  <2> QED BY <1>2, <2>1, FillCellsAre
<1>4. PICK hi \in Nat : hi = req.dst + n
  BY <1>1
<1>5. req.dst <= hi /\ hi < req.dst + req.size /\ hi \in req.dst..(req.dst + req.size - 1)
  BY <1>1, <1>4
<1>6. Differ(k, was, req.dst..hi)
  <2>1. req.dst..(req.dst + n - 1) \subseteq req.dst..hi
    BY <1>1, <1>4
  <2> QED BY <1>3, <2>1 DEF Differ
<1>7. k[hi] = Nul
  <2>1. hi \in DOMAIN was
    BY <1>1, <1>5, Targeted
  <2>2. hi \notin req.dst..(req.dst + n - 1)
    BY <1>1, <1>4
  <2>3. k[hi] = was[hi]
    BY <1>3, <2>1, <2>2 DEF Differ
  <2> QED BY <1>4, <2>3
<1>8. /\ stage' = "leave" /\ mem' = k /\ reply' = [code |-> 0, told |-> FALSE]
      /\ at' = at /\ found' = found
  BY <1>2 DEF Filling, Answer, scan
<1>9. Leaving'
  <2>1. req.dst <= req.dst /\ stage # "idle"
    BY <1>1
  <2> QED BY <1>1, <1>3, <1>5, <1>6, <1>7, <1>8, <2>1, WroteString
<1>10. reply' \in [code : Pointers, told : BOOLEAN]
  BY <1>8 DEF Pointers
<1>11. UNCHANGED <<client, req, was>> /\ ctx' = ctx
  BY DEF input
<1> QED BY <1>1, <1>3, <1>8, <1>9, <1>10, <1>11, ToLeave

LEMMA FillBlockKeeps == ASSUME CrtInv, FillBlock PROVE CrtInv'
<1>1. stage = "fill" /\ WholeBlock /\ seen' = BlockAt(at) /\ UNCHANGED <<input>>
  BY DEF FillBlock
<1>2. /\ mem = was /\ req.op \in Fills /\ req.op # "strtok_s" /\ ~NoTarget /\ found \in Nat
      /\ req.dst \in Nat /\ req.size \in Nat /\ at \in Nat
      /\ req.dst <= at /\ at <= req.dst + req.size /\ NoNul(was, req.dst, at)
  BY <1>1, FillIs
<1>3. Block \in Nat \ {0} /\ at \in BlockAt(at)
  BY <1>2, SmallBlock
<1>4. at + Block <= req.dst + req.size /\ at % Page <= Page - Block
  <2>1. Left >= Block /\ at % Page <= Page - Block
    BY <1>1 DEF WholeBlock
  <2> QED BY <1>2, <1>3, <2>1 DEF Left
<1>5. req' = req /\ was' = was /\ ctx' = ctx /\ UNCHANGED <<client>>
  BY <1>1 DEF input
<1>6. seen' \subseteq DOMAIN was /\ LoadsAllowed'
  <2>1. at \in req.dst..(req.dst + req.size - 1)
    BY <1>2, <1>3, <1>4
  <2>2. Cell(at) /\ at \in Reads'
    BY <1>1, <1>2, <1>5, <2>1, Targeted, TargetRead
  <2> QED BY <1>1, <1>2, <1>3, <1>4, <1>5, <2>2, BlockLoaded
<1>7. CASE Hits(at) = {}
  <2>1. at' = at + Block /\ mem' = mem /\ found' = found /\ reply' = reply /\ stage' = "fill"
    BY <1>1, <1>7 DEF FillBlock, GoOn
  <2>2. \A x \in at..(at + Block - 1) : was[x] # Nul
    BY <1>2, <1>3, <1>7 DEF Hits, BlockAt
  <2>3. NoNul(was, req.dst, at + Block)
    <3>1. SUFFICES ASSUME NEW x \in req.dst..((at + Block) - 1) PROVE was[x] # Nul
      BY DEF NoNul
    <3>2. x \in req.dst..(at - 1) \/ x \in at..(at + Block - 1)
      BY <1>2, <1>3
    <3> QED BY <1>2, <2>2, <3>2 DEF NoNul
  <2>4. req.dst <= at + Block /\ at + Block \in Nat /\ ~NoTarget'
    BY <1>2, <1>3, <1>5 DEF NoTarget
  <2>5. InFill'
    BY <1>2, <1>4, <1>5, <2>1, <2>3, <2>4 DEF InFill
  <2> QED BY <1>1, <1>2, <1>5, <1>6, <2>1, <2>4, <2>5, GoesOn
<1>8. CASE Hits(at) # {}
  <2>1. NoNul(was, at, at)
    BY <1>2, NoneYet
  <2>2. PICK j \in Nat : LeastOf(Hits(at)) = at + j /\ at + j \in BlockAt(at) /\ was[at + j] = Nul
    BY <1>2, <1>8, <2>1, FirstHit
  <2>3. PICK n \in Nat : n = (at + j) - req.dst
    BY <1>2
  <2>4. n < req.size /\ req.dst + n = at + j
    BY <1>2, <1>3, <1>4, <2>2, <2>3 DEF BlockAt
  <2>5. Filling(n)
    BY <1>8, <2>2, <2>3 DEF FillBlock
  <2> QED BY <1>1, <1>6, <2>2, <2>4, <2>5, FillingKeeps
<1> QED BY <1>7, <1>8

LEMMA FillByteKeeps == ASSUME CrtInv, FillByte PROVE CrtInv'
<1>1. stage = "fill" /\ Left > 0 /\ seen' = {at} /\ UNCHANGED <<input>>
  BY DEF FillByte
<1>2. /\ mem = was /\ req.op \in Fills /\ req.op # "strtok_s" /\ ~NoTarget /\ found \in Nat
      /\ req.dst \in Nat /\ req.size \in Nat /\ at \in Nat
      /\ req.dst <= at /\ NoNul(was, req.dst, at)
  BY <1>1, FillIs
<1>3. at < req.dst + req.size /\ at \in req.dst..(req.dst + req.size - 1)
  BY <1>1, <1>2 DEF Left
<1>4. req' = req /\ was' = was /\ ctx' = ctx /\ UNCHANGED <<client>>
  BY <1>1 DEF input
<1>5. seen' \subseteq DOMAIN was /\ LoadsAllowed'
  <2>1. Cell(at) /\ at \in Reads'
    BY <1>1, <1>2, <1>3, <1>4, Targeted, TargetRead
  <2> QED BY <1>1, <1>2, <1>4, <2>1, CellLoaded
<1>6. CASE mem[at] = Nul
  <2>1. PICK n \in Nat : n = at - req.dst
    BY <1>2
  <2>2. n < req.size /\ req.dst + n = at
    BY <1>2, <1>3, <2>1
  <2>3. Filling(n)
    BY <1>6, <2>1 DEF FillByte
  <2> QED BY <1>1, <1>2, <1>5, <1>6, <2>2, <2>3, FillingKeeps
<1>7. CASE mem[at] # Nul
  <2>1. at' = at + 1 /\ mem' = mem /\ found' = found /\ reply' = reply /\ stage' = "fill"
    BY <1>1, <1>7 DEF FillByte
  <2>2. NoNul(was, req.dst, at + 1)
    <3>1. SUFFICES ASSUME NEW x \in req.dst..((at + 1) - 1) PROVE was[x] # Nul
      BY DEF NoNul
    <3>2. x \in req.dst..(at - 1) \/ x = at
      BY <1>2
    <3> QED BY <1>2, <1>7, <3>2 DEF NoNul
  <2>3. req.dst <= at + 1 /\ at + 1 <= req.dst + req.size /\ ~NoTarget'
    BY <1>2, <1>3, <1>4 DEF NoTarget
  <2>4. InFill'
    BY <1>2, <1>4, <2>1, <2>2, <2>3 DEF InFill
  <2> QED BY <1>1, <1>2, <1>4, <1>5, <2>1, <2>4, GoesOn
<1> QED BY <1>6, <1>7

LEMMA FillUnendedKeeps == ASSUME CrtInv, FillUnended PROVE CrtInv'
<1>1. /\ stage = "fill" /\ Left = 0
      /\ Complain(EINVAL, Poke(FillCells(req.size - 1), req.dst, Nul)) /\ UNCHANGED <<input, scan, seen>>
  BY DEF FillUnended
<1>2. /\ mem = was /\ req.op \in Fills /\ req.op # "strtok_s" /\ ~NoTarget /\ found \in Nat
      /\ req.dst \in Nat /\ req.size \in Nat /\ req.size > 0 /\ at \in Nat /\ NoNul(was, req.dst, at)
  BY <1>1, FillIs
<1>3. NoNul(was, req.dst, req.dst + req.size)
  <2>1. at = req.dst + req.size
    BY <1>1, <1>2 DEF Left
  <2> QED BY <1>2, <2>1
<1>4. PICK n \in Nat : n = req.size - 1
  BY <1>2
<1>5. PICK m : m = FillCells(n)
  OBVIOUS
<1>6. /\ m = Filled(was, req.dst, Clipped(n), req.fill) /\ m \in [DOMAIN was -> Nat]
      /\ Differ(m, was, req.dst..(req.dst + n - 1))
  <2>1. n <= req.size
    BY <1>2, <1>4
  <2> QED BY <1>1, <1>5, <2>1, FillCellsAre
<1>7. req.dst \in DOMAIN was /\ req.dst \in Declared(req)
  <2>1. req.dst \in req.dst..(req.dst + req.size - 1)
    BY <1>2
  <2> QED BY <1>1, <1>2, <2>1, Targeted DEF Declared, NoTarget
<1>8. PICK k : k = Poke(m, req.dst, Nul)
  OBVIOUS
<1>9. /\ k \in [DOMAIN was -> Nat]
      /\ Differ(k, was, req.dst..(req.dst + n - 1) \union {req.dst})
  BY <1>6, <1>7, <1>8, PokeDiffers
<1>10. Differ(k, was, Declared(req))
  <2>1. req.dst..(req.dst + n - 1) \subseteq Declared(req)
    BY <1>2, <1>4 DEF Declared, NoTarget
  <2> QED BY <1>7, <1>9, <2>1 DEF Differ
<1>11. /\ stage' = "handler" /\ mem' = k /\ reply' = [code |-> EINVAL, told |-> TRUE]
       /\ at' = at /\ found' = found /\ seen' = seen
  BY <1>1, <1>4, <1>5, <1>8 DEF Complain, scan
<1>12. req' = req /\ was' = was /\ ctx' = ctx /\ UNCHANGED <<client>>
  BY <1>1 DEF input
<1>13. Refused'
  <2>1. mem' = Poke(Filled(was, req.dst, Clipped(req.size - 1), req.fill), req.dst, Nul)
    BY <1>4, <1>6, <1>8, <1>11
  <2>2. ~NoTarget' /\ reply'.code = EINVAL
    BY <1>2, <1>11, <1>12 DEF NoTarget
  <2> QED BY <1>2, <1>3, <1>12, <2>1, <2>2 DEF Refused, Clipped
<1>14. seen' \subseteq DOMAIN was /\ LoadsAllowed'
  BY <1>1, <1>2, <1>11, <1>12, LoadedBefore
<1>15. reply' \in [code : Pointers, told : BOOLEAN] /\ reply'.told
  BY <1>11 DEF Pointers, EINVAL
<1> QED BY <1>1, <1>2, <1>9, <1>10, <1>11, <1>12, <1>13, <1>14, <1>15, ToHandler
-----------------------------------------------------------------------------
(* Tokens.                                                                 *)

(* A string goes on at each of its cells.                                  *)
LEMMA StringFrom ==
  ASSUME NEW m, NEW a, String(m, a), NEW x \in Nat, a <= x, NoNul(m, a, x)
  PROVE  String(m, x) /\ EndOf(x) = EndOf(a) /\ x \in StringAt(m, a) /\ Cell(x) /\ x < EndOf(x)
<1>1. a \in Nat /\ Cell(a) /\ EndOf(a) \in Nat
  BY BehindCell DEF String
<1>2. PICK e \in a..(EndOf(a) - 1) : m[e] = Nul
  BY DEF String, Ends
<1>3. ~(e \in a..(x - 1))
  BY <1>2 DEF NoNul
<1>4. x <= e /\ x \in a..(EndOf(a) - 1)
  BY <1>1, <1>2, <1>3
<1>5. Cell(x) /\ EndOf(x) = EndOf(a)
  BY <1>1, <1>4, BehindCell
<1>6. e \in x..(EndOf(x) - 1) /\ x < EndOf(x)
  BY <1>1, <1>2, <1>4, <1>5
<1>7. String(m, x)
  BY <1>2, <1>5, <1>6 DEF String, Ends
<1>8. x \in StringAt(m, a)
  BY <1>4 DEF StringAt, NoNul
<1> QED BY <1>5, <1>6, <1>7, <1>8

(* The first of some cells in blocks that are searched one after another.  *)
LEMMA FirstOf ==
  ASSUME at \in Nat, NEW f \in Nat, f < at + Block, NEW S, \A x \in f..(at - 1) : x \notin S,
         NEW H, H = {x \in BlockAt(at) : x >= f /\ x \in S}
  PROVE  /\ H = {} => \A x \in f..((at + Block) - 1) : x \notin S
         /\ H # {} => /\ LeastOf(H) \in H /\ LeastOf(H) \in Nat
                      /\ \A x \in f..(LeastOf(H) - 1) : x \notin S
<1>1. Block \in Nat
  BY SmallBlock
<1>2. ASSUME NEW x \in f..((at + Block) - 1), x \in S
      PROVE  x \in H
  <2>1. ~(x \in f..(at - 1))
    BY <1>2
  <2>2. x \in BlockAt(at) /\ x >= f
    BY <1>1, <2>1 DEF BlockAt
  <2> QED BY <1>2, <2>2
<1>3. ASSUME H # {}
      PROVE  /\ LeastOf(H) \in H /\ LeastOf(H) \in Nat
             /\ \A x \in f..(LeastOf(H) - 1) : x \notin S
  <2> DEFINE l == LeastOf(H)
  <2>1. H \in SUBSET Nat
    BY <1>1 DEF BlockAt
  <2>2. l \in H /\ \A x \in H : l <= x
    BY <1>3, <2>1, LeastIs
  <2> HIDE DEF l
  <2>3. l \in Nat /\ l < at + Block
    BY <1>1, <2>1, <2>2 DEF BlockAt
  <2>4. ASSUME NEW x \in f..(l - 1), x \in S
        PROVE  FALSE
    <3>1. x \in f..((at + Block) - 1) /\ ~(l <= x)
      BY <1>1, <2>3
    <3> QED BY <1>2, <2>2, <2>4, <3>1
  <2> QED BY <2>2, <2>3, <2>4 DEF l
<1> QED BY <1>2, <1>3

LEMMA TokenIs ==
  ASSUME CrtInv, stage \in {"skip", "token"}
  PROVE  /\ mem = was /\ at \in Nat /\ found \in Nat /\ req \in Requests /\ req.op = "strtok_s"
         /\ String(was, found) /\ at % Block = 0 /\ found < at + Block
         /\ NoNul(was, found, at) /\ req.delim \subseteq Nat \ {Nul} /\ req.ctx \in Contexts
         /\ ctx \in [Contexts -> Pointers]
<1>1. /\ mem = was /\ at \in Nat /\ found \in Nat /\ Args /\ ctx \in [Contexts -> Pointers]
      /\ stage = "skip" => InSkip
      /\ stage = "token" => InToken
  BY DEF CrtInv, AtStage, Kinds
<1>2. req \in Requests /\ req.op = "strtok_s"
  BY <1>1 DEF Args, InSkip, InToken
<1>3. req.delim \subseteq Nat \ {Nul} /\ req.ctx \in Contexts
  BY <1>2, RequestIs
<1>4. String(was, found)
  BY <1>1, <1>2 DEF Args, InSkip, InToken
<1>5. at % Block = 0 /\ found < at + Block
  BY <1>1 DEF InSkip, InToken
<1>6. NoNul(was, found, at)
  BY <1>1, <1>3 DEF InSkip, InToken, NoNul
<1> QED BY <1>1, <1>2, <1>3, <1>4, <1>5, <1>6

LEMMA TokenLoads ==
  ASSUME CrtInv, stage \in {"skip", "token"}, req' = req, was' = was, found' = found,
         seen' = BlockAt(at)
  PROVE  seen' \subseteq DOMAIN was /\ LoadsAllowed'
<1>1. /\ at \in Nat /\ found \in Nat /\ String(was, found) /\ at % Block = 0 /\ found < at + Block
      /\ NoNul(was, found, at) /\ req.op = "strtok_s"
  BY TokenIs
<1>2. at % Page <= Page - Block
  BY <1>1, AlignedPage
<1>3. PICK y \in Nat : y = IF at <= found THEN found ELSE at
  BY <1>1
<1>4. y \in BlockAt(at) /\ found <= y
  BY <1>1, <1>3, SmallBlock DEF BlockAt
<1>5. NoNul(was, found, y)
  BY <1>1, <1>3, NoneYet
<1>6. Cell(y) /\ y \in StringAt(was, found)
  BY <1>1, <1>4, <1>5, StringFrom
<1>7. y \in Reads'
  BY <1>1, <1>6 DEF Reads
<1> QED BY <1>1, <1>2, <1>4, <1>6, <1>7, BlockLoaded

LEMMA StartTokenKeeps == ASSUME CrtInv, StartToken PROVE CrtInv'
<1>1. /\ stage = "entry" /\ req.op = "strtok_s" /\ found' = From
      /\ at' = Aligned(found') /\ stage' = "skip" /\ UNCHANGED <<mem, input, reply, seen>>
  BY DEF StartToken, Entry, From
<1>2. req' = req /\ was' = was /\ ctx' = ctx /\ UNCHANGED <<client>>
  BY <1>1 DEF input
<1>3. found' \in Nat
  <2>1. Args
    BY <1>1 DEF CrtInv, AtStage
  <2> QED BY <1>1, <2>1 DEF Args, String
<1>4. at' \in Nat /\ at' % Block = 0 /\ at' <= found' /\ found' < at' + Block
  BY <1>1, <1>3, AlignedIs
<1>5. InSkip'
  <2>1. From' = From
    BY <1>2 DEF From
  <2>2. NoNul(was, found', at') /\ \A x \in found'..(at' - 1) : FALSE
    <3>1. \A f, a \in Nat : a <= f => \A x \in f..(a - 1) : FALSE
      OBVIOUS
    <3> QED BY <1>3, <1>4, <3>1, NoneYet
  <2> QED BY <1>1, <1>2, <1>4, <2>1, <2>2 DEF InSkip
<1>6. seen' \subseteq DOMAIN was /\ LoadsAllowed'
  BY <1>1, <1>2, EntryIs, NothingLoaded
<1> QED BY <1>1, <1>2, <1>3, <1>4, <1>5, <1>6, GoesOn

(* A call of strtok_s returns, with its context at a string.               *)
LEMMA TokenReturned ==
  ASSUME CrtInv, stage \in {"skip", "token"}, UNCHANGED <<client, req, was>>, UNCHANGED scan,
         seen' = BlockAt(at), NEW t \in Pointers, NEW next \in Nat, NEW m, Token(t, next, m),
         m \in [DOMAIN was -> Nat], Differ(m, was, {x \in StringAt(was, found) : was[x] # Nul}),
         \A a \in Nat : String(was, a) => String(m, a), String(was, next)
  PROVE  CrtInv'
<1>1. /\ mem = was /\ at \in Nat /\ found \in Nat /\ req.op = "strtok_s" /\ req.ctx \in Contexts
      /\ ctx \in [Contexts -> Pointers]
  BY TokenIs
<1>2. /\ ctx' = [ctx EXCEPT ![req.ctx] = next] /\ reply' = [code |-> t, told |-> FALSE]
      /\ mem' = m /\ stage' = "leave" /\ at' = at /\ found' = found /\ req' = req /\ was' = was
  BY DEF Token, Answer, scan
<1>3. seen' \subseteq DOMAIN was /\ LoadsAllowed'
  BY <1>2, TokenLoads
<1>4. Leaving'
  <2>1. ctx'[req.ctx] = next
    BY <1>1, <1>2
  <2>2. Differ(mem, was, Given)'
    BY <1>1, <1>2 DEF Given
  <2>3. String(m, next)
    OBVIOUS
  <2>4. (\A a \in Nat : String(was, a) => String(mem, a))'
    BY <1>2
  <2> QED BY <1>2, <2>1, <2>2, <2>3, <2>4 DEF Leaving
<1>5. reply' \in [code : Pointers, told : BOOLEAN]
  BY <1>2
<1>6. \E p \in Nat : ctx' = [ctx EXCEPT ![req.ctx] = p]
  BY <1>2
<1>7. stage \notin {"idle", "leave"} /\ at' \in Nat /\ found' \in Nat /\ mem' \in [DOMAIN was -> Nat]
  BY <1>1, <1>2
<1> QED BY <1>1, <1>2, <1>3, <1>4, <1>5, <1>6, <1>7, ToLeave

LEMMA SkipBlockKeeps == ASSUME CrtInv, SkipBlock PROVE CrtInv'
<1> DEFINE others == {x \in BlockAt(at) : x >= found /\ mem[x] \notin req.delim}
           x == LeastOf(others)
           S == {y \in Nat : mem[y] \notin req.delim}
<1>1. stage = "skip" /\ seen' = BlockAt(at) /\ UNCHANGED <<client, req, was>>
  BY DEF SkipBlock
<1>2. /\ mem = was /\ at \in Nat /\ found \in Nat /\ req.op = "strtok_s" /\ String(was, found)
      /\ at % Block = 0 /\ found < at + Block /\ req.delim \subseteq Nat \ {Nul}
      /\ mem \in [DOMAIN was -> Nat]
  BY <1>1, TokenIs DEF CrtInv, Kinds
<1>3. InSkip
  BY <1>1 DEF CrtInv, AtStage
<1>4. /\ others = {} => \A y \in found..((at + Block) - 1) : y \notin S
      /\ others # {} => x \in others /\ x \in Nat /\ \A y \in found..(x - 1) : y \notin S
  <2>1. others = {y \in BlockAt(at) : y >= found /\ y \in S}
    BY <1>2, SmallBlock DEF BlockAt
  <2>2. \A y \in found..(at - 1) : y \notin S
    BY <1>2, <1>3 DEF InSkip
  <2> HIDE DEF others, S
  <2> QED BY <1>2, <2>1, <2>2, FirstOf
<1>5. CASE others = {} /\ GoOn /\ UNCHANGED ctx
  <2>1. /\ at' = at + Block /\ mem' = mem /\ found' = found /\ reply' = reply /\ stage' = "skip"
        /\ ctx' = ctx /\ req' = req /\ was' = was
    BY <1>1, <1>5 DEF GoOn
  <2>2. at + Block \in Nat /\ (at + Block) % Block = 0
    BY <1>2, NextAligned
  <2>3. found < (at + Block) + Block
    BY <1>2, SmallBlock
  <2>4. \A y \in found..((at + Block) - 1) : was[y] \in req.delim
    BY <1>2, <1>4, <1>5
  <2>5. InSkip'
    <3>1. found' = From'
      BY <1>3, <2>1 DEF InSkip, From
    <3> QED BY <1>2, <2>1, <2>2, <2>3, <2>4, <3>1 DEF InSkip
  <2>6. seen' \subseteq DOMAIN was /\ LoadsAllowed'
    BY <1>1, <2>1, TokenLoads
  <2> QED BY <1>1, <1>2, <2>1, <2>2, <2>5, <2>6, GoesOn
<1>6. ASSUME others # {}
      PROVE  /\ x \in Nat /\ found <= x /\ x \in BlockAt(at) /\ was[x] \notin req.delim
             /\ (\A y \in found..(x - 1) : was[y] \in req.delim) /\ String(was, x)
  <2>1. x \in Nat /\ x >= found /\ x \in BlockAt(at) /\ was[x] \notin req.delim
    BY <1>2, <1>4, <1>6
  <2>2. \A y \in found..(x - 1) : was[y] \in req.delim
    BY <1>2, <1>4, <1>6
  <2> HIDE DEF others, x
  <2>3. NoNul(was, found, x)
    BY <1>2, <2>2 DEF NoNul
  <2>4. found <= x
    BY <1>2, <2>1
  <2>5. String(was, x)
    BY <1>2, <2>1, <2>3, <2>4, StringFrom
  <2> QED BY <2>1, <2>2, <2>4, <2>5
<1>7. CASE others # {} /\ mem[x] = Nul /\ Token(Null, x, mem) /\ UNCHANGED scan
  <2>1. x \in Nat /\ String(was, x) /\ Null \in Pointers
    BY <1>6, <1>7 DEF Pointers
  <2> HIDE DEF x
  <2>2. Token(Null, x, was)
    BY <1>2, <1>7
  <2>3. Differ(was, was, {y \in StringAt(was, found) : was[y] # Nul})
    BY DEF Differ
  <2>4. was \in [DOMAIN was -> Nat] /\ \A a \in Nat : String(was, a) => String(was, a)
    BY <1>2
  <2> QED BY <1>1, <1>7, <2>1, <2>2, <2>3, <2>4, TokenReturned
<1>8. CASE /\ others # {} /\ mem[x] # Nul
           /\ found' = x /\ at' = Aligned(x) /\ stage' = "token" /\ UNCHANGED <<mem, reply, ctx>>
  <2>1. /\ x \in Nat /\ found <= x /\ x \in BlockAt(at) /\ was[x] \notin req.delim
        /\ (\A y \in found..(x - 1) : was[y] \in req.delim) /\ String(was, x) /\ was[x] # Nul
    BY <1>2, <1>6, <1>8
  <2> HIDE DEF x
  <2>2. at' \in Nat /\ at' % Block = 0 /\ at' <= x /\ x < at' + Block
    BY <1>8, <2>1, AlignedIs
  <2>3. found' = x /\ ctx' = ctx /\ req' = req /\ was' = was
    BY <1>1, <1>8
  <2>4. InToken'
    <3>1. From' = From /\ found = From
      BY <1>3, <2>3 DEF InSkip, From
    <3>2. \A y \in x..(at' - 1) : FALSE
      BY <2>1, <2>2
    <3> QED BY <1>2, <2>1, <2>2, <2>3, <3>1, <3>2 DEF InToken
  <2>5. seen' \subseteq DOMAIN was /\ LoadsAllowed'
    <3>1. NoNul(was, x, x) /\ x <= x
      BY <2>1, NoneYet
    <3>2. Cell(x) /\ x \in StringAt(was, x)
      BY <2>1, <3>1, StringFrom
    <3>3. x \in Reads'
      BY <1>2, <2>3, <3>2 DEF Reads
    <3>4. at % Page <= Page - Block
      BY <1>2, AlignedPage
    <3> QED BY <1>1, <1>2, <2>1, <2>3, <3>2, <3>3, <3>4, BlockLoaded
  <2> QED BY <1>1, <1>8, <2>1, <2>2, <2>3, <2>4, <2>5, GoesOn
<1> HIDE DEF others, x
<1> QED BY <1>5, <1>7, <1>8 DEF SkipBlock, others, x
-----------------------------------------------------------------------------
LEMMA TokenBlockKeeps == ASSUME CrtInv, TokenBlock PROVE CrtInv'
<1> DEFINE ends == {x \in BlockAt(at) : x >= found /\ mem[x] \in req.delim \union {Nul}}
           x == LeastOf(ends)
           S == {y \in Nat : mem[y] \in req.delim \union {Nul}}
<1>1. stage = "token" /\ seen' = BlockAt(at) /\ UNCHANGED <<client, req, was>>
  BY DEF TokenBlock
<1>2. /\ mem = was /\ at \in Nat /\ found \in Nat /\ req.op = "strtok_s" /\ String(was, found)
      /\ at % Block = 0 /\ found < at + Block /\ req.delim \subseteq Nat \ {Nul}
      /\ mem \in [DOMAIN was -> Nat] /\ Memory(was)
  BY <1>1, TokenIs DEF CrtInv, Kinds
<1>3. InToken
  BY <1>1 DEF CrtInv, AtStage
<1>4. /\ ends = {} => \A y \in found..((at + Block) - 1) : y \notin S
      /\ ends # {} => x \in ends /\ x \in Nat /\ \A y \in found..(x - 1) : y \notin S
  <2>1. ends = {y \in BlockAt(at) : y >= found /\ y \in S}
    BY <1>2, SmallBlock DEF BlockAt
  <2>2. \A y \in found..(at - 1) : y \notin S
    BY <1>2, <1>3 DEF InToken
  <2> HIDE DEF ends, S
  <2> QED BY <1>2, <2>1, <2>2, FirstOf
<1>5. CASE ends = {} /\ GoOn /\ UNCHANGED ctx
  <2>1. /\ at' = at + Block /\ mem' = mem /\ found' = found /\ reply' = reply /\ stage' = "token"
        /\ ctx' = ctx /\ req' = req /\ was' = was
    BY <1>1, <1>5 DEF GoOn
  <2>2. at + Block \in Nat /\ (at + Block) % Block = 0
    BY <1>2, NextAligned
  <2>3. found < (at + Block) + Block
    BY <1>2, SmallBlock
  <2>4. \A y \in found..((at + Block) - 1) : was[y] \notin req.delim \union {Nul}
    BY <1>2, <1>4, <1>5
  <2>5. InToken'
    <3>1. From' = From
      BY <2>1 DEF From
    <3> QED BY <1>2, <1>3, <2>1, <2>2, <2>3, <2>4, <3>1 DEF InToken
  <2>6. seen' \subseteq DOMAIN was /\ LoadsAllowed'
    BY <1>1, <2>1, TokenLoads
  <2> QED BY <1>1, <1>2, <2>1, <2>2, <2>5, <2>6, GoesOn
<1>6. ASSUME ends # {}
      PROVE  /\ x \in Nat /\ found <= x /\ String(was, x) /\ NoNul(was, found, x)
             /\ x \in StringAt(was, found) /\ Cell(x) /\ x < EndOf(x) /\ EndOf(x) = EndOf(found)
  <2>1. x \in Nat /\ x >= found
    BY <1>4, <1>6
  <2>2. NoNul(was, found, x)
    BY <1>2, <1>4, <1>6 DEF NoNul
  <2> HIDE DEF x
  <2>3. found <= x
    BY <1>2, <2>1
  <2> QED BY <1>2, <2>1, <2>2, <2>3, StringFrom
<1>7. CASE ends # {} /\ mem[x] = Nul /\ Token(found, x, mem) /\ UNCHANGED scan
  <2>1. x \in Nat /\ String(was, x) /\ found \in Pointers
    BY <1>2, <1>6, <1>7 DEF Pointers
  <2> HIDE DEF x
  <2>2. Token(found, x, was)
    BY <1>2, <1>7
  <2>3. Differ(was, was, {y \in StringAt(was, found) : was[y] # Nul})
    BY DEF Differ
  <2>4. was \in [DOMAIN was -> Nat] /\ \A a \in Nat : String(was, a) => String(was, a)
    BY <1>2
  <2> QED BY <1>1, <1>7, <2>1, <2>2, <2>3, <2>4, TokenReturned
<1>8. CASE ends # {} /\ mem[x] # Nul /\ Token(found, x + 1, Poke(mem, x, Nul)) /\ UNCHANGED scan
  <2>1. /\ x \in Nat /\ found <= x /\ String(was, x) /\ NoNul(was, found, x) /\ was[x] # Nul
        /\ x \in StringAt(was, found) /\ Cell(x) /\ x < EndOf(x)
    BY <1>2, <1>6, <1>8
  <2> HIDE DEF x, ends
  <2>2. PICK m : m = Poke(was, x, Nul)
    OBVIOUS
  <2>3. x \in DOMAIN was
    BY <1>2, <2>1, CellMapped
  <2>4. m \in [DOMAIN was -> Nat] /\ m[x] = Nul /\ \A y \in DOMAIN was : y # x => m[y] = was[y]
    <3>1. was \in [DOMAIN was -> Nat] /\ Nul \in Nat
      BY <1>2 DEF Nul
    <3> QED BY <2>2, <2>3, <3>1, PokeIs
  <2>5. Differ(m, was, {y \in StringAt(was, found) : was[y] # Nul})
    BY <2>1, <2>4 DEF Differ
  <2>6. \A a \in Nat : String(was, a) => String(m, a)
    <3>1. Differ(was, m, x..x) /\ x <= x
      BY <2>1, <2>4 DEF Differ
    <3> QED BY <1>2, <2>1, <2>4, <3>1, StringsKept
  <2>7. PICK next \in Nat : next = x + 1
    BY <2>1
  <2>8. String(was, next)
    <3>1. NoNul(was, x, next) /\ x <= next
      BY <2>1, <2>7 DEF NoNul
    <3> QED BY <2>1, <3>1, StringFrom
  <2>9. Token(found, next, m) /\ found \in Pointers
    BY <1>2, <1>8, <2>2, <2>7 DEF Pointers
  <2> QED BY <1>1, <1>8, <2>4, <2>5, <2>6, <2>8, <2>9, TokenReturned
<1> HIDE DEF ends, x
<1> QED BY <1>5, <1>7, <1>8 DEF TokenBlock, ends, x
-----------------------------------------------------------------------------
(* The theorems.                                                           *)

LEMMA InitHolds == CrtInit => CrtInv
<1> SUFFICES ASSUME CrtInit PROVE CrtInv
  OBVIOUS
<1>2. mem \in Memories /\ was = mem
  BY DEF CrtInit
<1>3. Memory(was)
  BY <1>2, ArraysAssumption DEF Memory
<1>4. Kinds
  <2>1. MaxAsked \in Nat
    BY CrtAssumption
  <2> QED BY <1>2, <1>3, <2>1 DEF CrtInit, Kinds, Memory, Pointers
<1>5. LoadsAllowed /\ AtStage /\ OfClient
  BY <1>2 DEF CrtInit, LoadsAllowed, AtStage, OfClient
<1> QED BY <1>3, <1>4, <1>5 DEF CrtInv

LEMMA StutterKeeps == ASSUME CrtInv, UNCHANGED crtVars PROVE CrtInv'
<1>1. /\ mem' = mem /\ ctx' = ctx /\ live' = live /\ rest' = rest /\ asked' = asked /\ req' = req
      /\ was' = was /\ stage' = stage /\ at' = at /\ found' = found /\ reply' = reply /\ seen' = seen
  BY DEF crtVars, client
<1>2. Memory(was)' /\ Kinds'
  BY <1>1 DEF CrtInv, Kinds
<1>3. LoadsAllowed'
  BY <1>1 DEF CrtInv, LoadsAllowed, Reads, Target, Source, Declared, Bound
<1>4. OfClient'
  BY <1>1 DEF CrtInv, OfClient, Own
<1>5. Args' = Args
  BY <1>1 DEF Args, From, Bound
<1>6. FoundIs' = FoundIs /\ Sourced' = Sourced /\ NoTarget' = NoTarget
  BY <1>1 DEF FoundIs, Sourced, NoTarget
<1>7. InWalk' = InWalk
  BY <1>1, <1>6 DEF InWalk, NoCount
<1>8. InScan' = InScan
  BY <1>1, <1>6 DEF InScan, Limit, Room
<1>9. InFill' = InFill
  BY <1>1, <1>6 DEF InFill
<1>10. InSkip' = InSkip
  BY <1>1 DEF InSkip, From
<1>11. InToken' = InToken
  BY <1>1 DEF InToken, From
<1>12. Refused' = Refused
  BY <1>1, <1>6 DEF Refused, NoRequest, NoCount, Limit, Room, Clipped
<1>13. Given' = Given
  BY <1>1 DEF Given, Declared
<1>14. Leaving' = Leaving
  BY <1>1, <1>13 DEF Leaving
<1>15. AtStage'
  BY <1>1, <1>5, <1>7, <1>8, <1>9, <1>10, <1>11, <1>12, <1>13, <1>14 DEF CrtInv, AtStage
<1> QED BY <1>2, <1>3, <1>4, <1>15 DEF CrtInv

LEMMA StepKeeps == CrtInv /\ [CrtNext]_crtVars => CrtInv'
<1> SUFFICES ASSUME CrtInv, [CrtNext]_crtVars PROVE CrtInv'
  OBVIOUS
<1>2. CASE CrtCall
  BY <1>2, CallKeeps
<1>3. CASE Checks
  BY <1>3, AskNothingKeeps, RefuseTargetKeeps, RefuseSourceKeeps, CopyNothingKeeps, KeepEmptyKeeps
     DEF Checks
<1>4. CASE Copying
  BY <1>4, StartCopyKeeps, AppendToEmptyKeeps, StartWalkKeeps, WalkBlockKeeps, ScanBlockKeeps
     DEF Copying
<1>5. CASE Filler
  BY <1>5, StartFillKeeps, FillBlockKeeps, FillByteKeeps, FillUnendedKeeps DEF Filler
<1>6. CASE Tokens
  BY <1>6, StartTokenKeeps, SkipBlockKeeps, TokenBlockKeeps DEF Tokens
<1>7. CASE HandlerReturns \/ Leave
  BY <1>7, HandlerKeeps, LeaveKeeps
<1>8. CASE ClientDone \/ UNCHANGED crtVars
  BY <1>8, StutterKeeps DEF ClientDone
<1> QED BY <1>2, <1>3, <1>4, <1>5, <1>6, <1>7, <1>8 DEF CrtNext

LEMMA InvHolds == CrtSpec => []CrtInv
  BY InitHolds, StepKeeps, PTL DEF CrtSpec

(* A context that strtok_s has set points into memory, and every load is   *)
(* of cells that are mapped, whatever the sizes of buffers and registers.  *)
THEOREM SecureTypeOK == CrtSpec => []CrtTypeOK
  BY InvHolds, TypeFromInv, PTL

(* The aligned vector loads, and the unaligned ones of the fills, stay in  *)
(* pages with a cell that the scalar loops read.                           *)
THEOREM SecureLoads == CrtSpec => []LoadsAllowed
<1>1. CrtInv => LoadsAllowed
  BY DEF CrtInv
<1> QED BY <1>1, InvHolds, PTL

(* The invalid-parameter handler finds an empty string.                    *)
THEOREM SecureRefused == CrtSpec => []RefusedIsEmpty
  BY InvHolds, RefusedFromInv, PTL

(* The next call with a live context finds the end of its string.          *)
THEOREM SecureContextEnds == CrtSpec => []LiveContextEnds
<1>1. CrtInv => LiveContextEnds
  <2>1. SUFFICES ASSUME CrtInv, stage = "idle", NEW c \in live PROVE Ends(mem, ctx[c])
    BY DEF LiveContextEnds
  <2>2. mem = was /\ Own = {}
    BY <2>1 DEF CrtInv, AtStage, Own
  <2> QED BY <2>1, <2>2 DEF CrtInv, OfClient, String
<1> QED BY <1>1, InvHolds, PTL

(* What a context has to come is what it had, unless a call was given that *)
(* part of the buffer.                                                     *)
THEOREM SecureRestIntact == CrtSpec => []RestIntact
<1>1. CrtInv => RestIntact
  <2>1. SUFFICES ASSUME CrtInv, stage = "idle", NEW c \in live PROVE rest[c] = TextAt(mem, ctx[c])
    BY DEF RestIntact
  <2>2. mem = was /\ Own = {}
    BY <2>1 DEF CrtInv, AtStage, Own
  <2> QED BY <2>1, <2>2 DEF CrtInv, OfClient
<1> QED BY <1>1, InvHolds, PTL
-----------------------------------------------------------------------------
(***************************************************************************)
(* Block by block, every call is one step of the contract.                 *)
(***************************************************************************)

(* The contract has its own copies of the operators on memory.             *)
LEMMA SameLeast == ASSUME NEW S PROVE Scalar!LeastOf(S) = LeastOf(S)
  BY DEF Scalar!LeastOf, LeastOf

LEMMA SameLesser == ASSUME NEW a, NEW b PROVE Scalar!Lesser(a, b) = Lesser(a, b)
  BY DEF Scalar!Lesser, Lesser

LEMMA SamePoke == ASSUME NEW m, NEW a, NEW c PROVE Scalar!Poke(m, a, c) = Poke(m, a, c)
  BY DEF Scalar!Poke, Poke

LEMMA SameStore ==
  ASSUME NEW m, NEW a, NEW n, NEW v PROVE Scalar!StoreAt(m, a, n, v) = StoreAt(m, a, n, v)
  BY DEF Scalar!StoreAt, StoreAt

LEMMA SameMoved ==
  ASSUME NEW m, NEW a, NEW s, NEW n PROVE Scalar!Moved(m, a, s, n) = Moved(m, a, s, n)
<1>1. Scalar!LoadAt(m, s, n) = LoadAt(m, s, n)
  BY DEF Scalar!LoadAt, LoadAt
<1> QED BY <1>1, SameStore DEF Scalar!Moved, Moved

LEMMA SameFilled ==
  ASSUME NEW m, NEW a, NEW n, NEW c PROVE Scalar!Filled(m, a, n, c) = Filled(m, a, n, c)
  BY SameStore DEF Scalar!Filled, Filled

LEMMA SameWithin ==
  ASSUME NEW m, NEW a, NEW n PROVE Scalar!Within(m, a, n) = Within(m, a, n)
  BY SameLeast DEF Scalar!Within, Within, Scalar!Nul, Nul

LEMMA WithinIs ==
  ASSUME NEW m, NEW a \in Nat, NEW n \in Nat, NEW k \in 0..n, NoNul(m, a, a + k),
         k = n \/ m[a + k] = Nul
  PROVE  Within(m, a, n) = k
<1> DEFINE S == {j \in 0..n : j = n \/ m[a + j] = Nul}
<1>1. k \in S /\ S \in SUBSET Nat
  OBVIOUS
<1>2. ASSUME NEW j \in S PROVE k <= j
  <2>1. SUFFICES ASSUME j < k PROVE FALSE
    OBVIOUS
  <2>2. j < n /\ j \in Nat
    BY <2>1
  <2>3. m[a + j] = Nul
    BY <2>2
  <2>4. a + j \in a..((a + k) - 1)
    BY <2>1, <2>2
  <2> QED BY <2>3, <2>4 DEF NoNul
<1>3. LeastOf(S) = k
  <2> HIDE DEF S
  <2> QED BY <1>1, <1>2, LeastOnly
<1> QED BY <1>3 DEF Within

LEMMA AnswerIs ==
  ASSUME NEW code, NEW told, NEW m,
         stage' = "leave", reply' = [code |-> code, told |-> told], mem' = m
  PROVE  Scalar!Answer(code, told, m)
  BY DEF Scalar!Answer, Returned

(* The outcomes of a copy behind len.                                      *)
Outcome(len, count, n) ==
  LET room  == req.size - len
      whole == Moved(was, req.dst + len, req.src, room)
  IN  \/ /\ n < room
         /\ Scalar!Answer(0, FALSE, Poke(Moved(was, req.dst + len, req.src, n), req.dst + len + n, Nul))
      \/ /\ n = room /\ count = Truncate
         /\ Scalar!Answer(STRUNCATE, FALSE, Poke(whole, req.dst + req.size - 1, Nul))
      \/ n = room /\ count # Truncate /\ Scalar!Answer(ERANGE, TRUE, Poke(whole, req.dst, Nul))

LEMMA AppendIs ==
  ASSUME ~Returned, NEW len, NEW count, NEW n,
         n = Within(was, req.src, Lesser(count, req.size - len)), Outcome(len, count, n)
  PROVE  Scalar!Append(len, count)
  BY SameLesser, SamePoke, SameMoved, SameWithin
     DEF Scalar!Append, Outcome, Scalar!Nul, Nul, Scalar!STRUNCATE, STRUNCATE, Scalar!ERANGE, ERANGE

(* The count of the functions that have none is more than any size.        *)
Count == IF req.op \in Counts THEN req.count ELSE Truncate - 1

LEMMA AppendServes ==
  ASSUME ~Returned, req \in Requests, req.op \in Copies, Sourced, FoundIs, found \in Nat,
         req.dst \in Nat, Scalar!Append(found, Count), ctx' = ctx
  PROVE  Scalar!Serve
<1>1. req.size \in Nat /\ req.count \in Nat /\ req # Idle
  BY RequestIs, ArraysAssumption
<1>2. ~NoTarget /\ req.src # Null /\ found < req.size /\ req.dst # Null /\ req.size # 0
  BY DEF Sourced, FoundIs, NoTarget
<1>3. ASSUME req.op \in Appends
      PROVE  Scalar!Within(was, req.dst, req.size) = found
  <2>1. NoNul(was, req.dst, req.dst + found) /\ was[req.dst + found] = Nul
    BY <1>3 DEF FoundIs
  <2>2. found \in 0..req.size
    BY <1>1, <1>2
  <2> QED BY <1>1, <2>1, <2>2, WithinIs, SameWithin
<1>4. CASE req.op = "strcpy_s"
  <2>1. found = 0 /\ Count = Truncate - 1
    BY <1>4 DEF FoundIs, Appends, Count, Counts
  <2>2. Scalar!StrCpy
    BY <1>2, <1>4, <2>1 DEF Scalar!StrCpy, Scalar!NoTarget, Scalar!Unbounded, Scalar!Null, Null
  <2> QED BY <1>1, <2>2 DEF Scalar!Serve, Scalar!Copying
<1>5. CASE req.op = "strcat_s"
  <2>1. Scalar!Within(was, req.dst, req.size) = found /\ Count = Truncate - 1
    BY <1>3, <1>5 DEF Appends, Count, Counts
  <2>2. Scalar!StrCat
    BY <1>2, <1>5, <2>1 DEF Scalar!StrCat, Scalar!NoTarget, Scalar!Unbounded, Scalar!Null, Null
  <2> QED BY <1>1, <2>2 DEF Scalar!Serve, Scalar!Copying
<1>6. CASE req.op = "strncpy_s"
  <2>1. found = 0 /\ Count = req.count /\ req.count > 0
    BY <1>1, <1>6 DEF FoundIs, Appends, Count, Counts
  <2>2. Scalar!StrNCpy
    BY <1>2, <1>6, <2>1 DEF Scalar!StrNCpy, Scalar!NoTarget, Scalar!Null, Null
  <2> QED BY <1>1, <2>2 DEF Scalar!Serve, Scalar!Copying
<1>7. CASE req.op = "strncat_s"
  <2>1. Scalar!Within(was, req.dst, req.size) = found /\ Count = req.count
    BY <1>3, <1>7 DEF Appends, Count, Counts
  <2>2. Scalar!StrNCat
    BY <1>2, <1>7, <2>1 DEF Scalar!StrNCat, Scalar!NoTarget, Scalar!Null, Null
  <2> QED BY <1>1, <2>2 DEF Scalar!Serve, Scalar!Copying
<1> QED BY <1>4, <1>5, <1>6, <1>7 DEF Copies
-----------------------------------------------------------------------------
LEMMA LimitLesser ==
  ASSUME CrtInv, stage # "idle", req.op \in Copies, Sourced, found \in Nat, found < req.size
  PROVE  Limit = Lesser(Count, req.size - found)
<1>1. /\ req \in Requests /\ req.dst \in Nat /\ req.size \in Nat /\ InArray(req.dst, req.size)
  BY Targeted DEF Sourced, Copies
<1>2. req.size < Truncate /\ Truncate \in Nat /\ req.count \in Nat
  BY <1>1, SmallArray, RequestIs, ArraysAssumption
<1>3. CASE req.op \in Counts
  BY <1>1, <1>2, <1>3 DEF Limit, Room, Count, Lesser
<1>4. CASE req.op \notin Counts
  <2>1. ~(Truncate - 1 < req.size - found)
    BY <1>1, <1>2
  <2> QED BY <1>4, <2>1 DEF Limit, Room, Count, Lesser
<1> QED BY <1>3, <1>4

(* What the scan of the source has found decides between the outcomes.     *)
LEMMA CopyServes ==
  ASSUME CrtInv, ~Returned, req.op \in Copies, Sourced, FoundIs, found \in Nat, ctx' = ctx,
         NEW n \in 0..Limit, NoNul(was, req.src, req.src + n), n = Limit \/ was[req.src + n] = Nul,
         Outcome(found, Count, n)
  PROVE  Scalar!Serve
<1>1. stage # "idle" /\ found < req.size
  BY DEF Returned, FoundIs
<1>2. req \in Requests /\ req.dst \in Nat /\ req.src \in Nat /\ req.size \in Nat
  BY <1>1, Targeted, SourceIs DEF Sourced, Copies
<1>3. Limit = Lesser(Count, req.size - found)
  BY <1>1, LimitLesser
<1>4. Limit \in Nat
  <2>1. req.count \in Nat
    BY <1>2, RequestIs, ArraysAssumption
  <2> QED BY <1>1, <1>2, <2>1 DEF Limit, Room
<1>5. n = Within(was, req.src, Limit)
  BY <1>2, <1>4, WithinIs
<1>6. Scalar!Append(found, Count)
  BY <1>3, <1>5, AppendIs
<1> QED BY <1>2, <1>6, AppendServes

LEMMA FitsServes ==
  ASSUME CrtInv, stage = "scan", ctx' = ctx,
         NEW n \in 0..Limit, n < Room, NoNul(was, req.src, req.src + n),
         n = Limit \/ was[req.src + n] = Nul, Fits(n)
  PROVE  Scalar!Serve
<1>1. /\ mem = was /\ req.op \in Copies /\ found \in Nat /\ InScan
  BY LimitIs
<1>2. Answer(0, Poke(Moved(was, req.dst + found, req.src, n), req.dst + found + n, Nul))
  BY <1>1 DEF Fits
<1>3. Outcome(found, Count, n)
  BY <1>2, AnswerIs DEF Answer, Outcome, Room
<1> QED BY <1>1, <1>3, CopyServes DEF Returned, InScan

LEMMA TruncatedServes ==
  ASSUME CrtInv, stage = "scan", ctx' = ctx, Limit = Room, NoNul(was, req.src, req.src + Room),
         req.op \in Counts, req.count = Truncate, Truncated
  PROVE  Scalar!Serve
<1>1. /\ mem = was /\ req.op \in Copies /\ found \in Nat /\ InScan /\ Limit \in Nat
  BY LimitIs
<1>2. Answer(STRUNCATE, Poke(Moved(was, req.dst + found, req.src, Room), req.dst + req.size - 1, Nul))
  BY <1>1 DEF Truncated, Whole
<1>3. PICK n \in 0..Limit : n = Limit
  BY <1>1
<1>4. Outcome(found, Count, n)
  BY <1>2, <1>3, AnswerIs DEF Answer, Outcome, Room, Count
<1> QED BY <1>1, <1>3, <1>4, CopyServes DEF Returned, InScan

LEMMA NoEndServes ==
  ASSUME CrtInv, stage = "scan", ctx' = ctx, NoNul(was, req.src, req.src + Limit), NoEnd,
         UNCHANGED <<req, was>>
  PROVE  Scalar!Serve \/ (stage' = "handler" /\ UNCHANGED Scalar!vars)
<1>1. CASE Limit < Room /\ Fits(Limit)
  <2>1. PICK n \in 0..Limit : n = Limit
    BY LimitIs
  <2> QED BY <1>1, <2>1, FitsServes
<1>2. CASE Limit = Room /\ req.op \in Counts /\ req.count = Truncate /\ Truncated
  BY <1>2, TruncatedServes
<1>3. CASE Limit = Room /\ TooLong
  <2>1. stage' = "handler"
    BY <1>3 DEF TooLong, Complain
  <2> QED BY <2>1 DEF Scalar!vars, Returned
<1> QED BY <1>1, <1>2, <1>3 DEF NoEnd

(* The handler has run: what was refused is what the contract refuses.     *)
LEMMA HandlerServes ==
  ASSUME CrtInv, HandlerReturns
  PROVE  Scalar!Serve
<1>1. /\ stage = "handler" /\ stage' = "leave" /\ mem' = mem /\ reply' = reply /\ ctx' = ctx
      /\ Refused /\ reply \in [code : Pointers, told : BOOLEAN] /\ reply.told /\ req.op # "strtok_s"
      /\ Args /\ found \in Nat
  BY DEF HandlerReturns, CrtInv, AtStage, Kinds
<1>2. ~Returned /\ stage # "idle"
  BY <1>1 DEF Returned
<1>3. reply' = [code |-> reply.code, told |-> TRUE]
  BY <1>1
<1>4. req \in Requests /\ req # Idle /\ req.size \in Nat /\ req.count \in Nat
  BY <1>1, RequestIs, ArraysAssumption DEF Args
<1>5. \A code, m : reply.code = code /\ mem = m => Scalar!Answer(code, TRUE, m)
  BY <1>1, <1>3, AnswerIs
<1>6. CASE reply.code = EINVAL /\ NoTarget /\ ~NoRequest /\ mem = was
  <2>1. Scalar!Answer(EINVAL, TRUE, was)
    BY <1>5, <1>6
  <2>2. req.op \in Fills => req.size = 0
    BY <1>1, <1>6 DEF Args, NoTarget, Fills
  <2>3. Scalar!Copying
    BY <1>1, <1>2, <1>4, <1>6, <2>1, <2>2, RequestIs
       DEF Scalar!Copying, Scalar!StrCpy, Scalar!StrCat, Scalar!StrNCpy, Scalar!StrNCat,
           Scalar!StrSet, Scalar!StrNSet, Scalar!Fill, Scalar!NoTarget, Scalar!NoRequest,
           NoTarget, NoRequest, Fills, Counts, Scalar!Null, Null, Scalar!EINVAL, EINVAL
  <2> QED BY <1>1, <1>2, <1>4, <2>3 DEF Scalar!Serve
<1>7. CASE /\ reply.code = EINVAL /\ req.op \in Copies /\ ~NoTarget /\ mem = Poke(was, req.dst, Nul)
           /\ \/ req.src = Null /\ ~NoCount
              \/ req.op \in Appends /\ NoNul(was, req.dst, req.dst + req.size)
  <2>1. Scalar!Answer(EINVAL, TRUE, Poke(was, req.dst, Nul))
    BY <1>5, <1>7
  <2>2. Scalar!Poke(was, req.dst, Scalar!Nul) = Poke(was, req.dst, Nul)
    BY SamePoke DEF Scalar!Nul, Nul
  <2>3. ASSUME req.op \in Appends, NoNul(was, req.dst, req.dst + req.size)
        PROVE  Scalar!Within(was, req.dst, req.size) = req.size
    <3>1. req.dst \in Nat /\ req.size \in 0..req.size
      BY <1>1, <1>2, <1>4, <1>7, Targeted
    <3> QED BY <1>4, <2>3, <3>1, WithinIs, SameWithin
  <2>4. ~(req.dst = Null \/ req.size = 0)
    BY <1>7 DEF NoTarget
  <2>5. Scalar!Copying
    <3>1. CASE req.op = "strcpy_s"
      BY <1>2, <1>7, <2>1, <2>2, <2>4, <3>1
         DEF Scalar!Copying, Scalar!StrCpy, Scalar!NoTarget, Scalar!Emptied, Appends,
             Scalar!Null, Null, Scalar!EINVAL, EINVAL
    <3>2. CASE req.op = "strcat_s"
      BY <1>2, <1>7, <2>1, <2>2, <2>3, <2>4, <3>2
         DEF Scalar!Copying, Scalar!StrCat, Scalar!NoTarget, Scalar!Emptied, Appends,
             Scalar!Null, Null, Scalar!EINVAL, EINVAL
    <3>3. CASE req.op = "strncpy_s"
      <4>1. req.src = Null /\ req.count > 0
        BY <1>4, <1>7, <3>3 DEF NoCount, Counts, Appends
      <4> QED BY <1>2, <2>1, <2>2, <2>4, <3>3, <4>1
         DEF Scalar!Copying, Scalar!StrNCpy, Scalar!NoTarget, Scalar!Emptied,
             Scalar!Null, Null, Scalar!EINVAL, EINVAL
    <3>4. CASE req.op = "strncat_s"
      <4>1. (req.src = Null /\ req.count > 0) \/ Scalar!Within(was, req.dst, req.size) = req.size
        BY <1>4, <1>7, <2>3, <3>4 DEF NoCount, Counts
      <4> QED BY <1>2, <2>1, <2>2, <2>4, <3>4, <4>1
         DEF Scalar!Copying, Scalar!StrNCat, Scalar!NoTarget, Scalar!Emptied,
             Scalar!Null, Null, Scalar!EINVAL, EINVAL
    <3> QED BY <1>7, <3>1, <3>2, <3>3, <3>4 DEF Copies
  <2> QED BY <1>1, <1>2, <1>4, <2>5 DEF Scalar!Serve
<1>8. CASE /\ reply.code = ERANGE /\ req.op \in Copies /\ Sourced /\ FoundIs /\ Limit = Room
           /\ ~(req.op \in Counts /\ req.count = Truncate) /\ NoNul(was, req.src, req.src + Room)
           /\ mem = Poke(Moved(was, req.dst + found, req.src, Room), req.dst, Nul)
  <2>1. Scalar!Answer(ERANGE, TRUE, Poke(Moved(was, req.dst + found, req.src, Room), req.dst, Nul))
    BY <1>5, <1>8
  <2>2. Limit \in Nat
    BY <1>1, <1>4, <1>8 DEF Room, FoundIs
  <2>3. PICK n \in 0..Limit : n = Limit
    BY <2>2
  <2>4. Count # Truncate
    BY <1>8, ArraysAssumption DEF Count
  <2>5. Outcome(found, Count, n)
    BY <1>8, <2>1, <2>3, <2>4 DEF Outcome, Room
  <2> QED BY <1>1, <1>2, <1>8, <2>3, <2>5, CopyServes
<1>9. CASE /\ reply.code = EINVAL /\ req.op \in Fills /\ ~NoTarget /\ NoNul(was, req.dst, req.dst + req.size)
           /\ mem = Poke(Filled(was, req.dst, Clipped(req.size - 1), req.fill), req.dst, Nul)
  <2>1. Scalar!Answer(EINVAL, TRUE, Poke(Filled(was, req.dst, Clipped(req.size - 1), req.fill), req.dst, Nul))
    BY <1>5, <1>9
  <2>2. req.dst \in Nat /\ req.size > 0 /\ req.size < Truncate /\ Truncate \in Nat
    BY <1>1, <1>2, <1>9, Targeted, SmallArray
  <2>3. Scalar!Within(was, req.dst, req.size) = req.size
    <3>1. req.size \in 0..req.size
      BY <1>4
    <3> QED BY <1>4, <1>9, <2>2, <3>1, WithinIs, SameWithin
  <2>4. Clipped(req.size - 1) = Lesser(req.size - 1, IF req.op = "_strnset_s" THEN req.count ELSE Truncate)
    BY <1>4, <2>2 DEF Clipped, Lesser
  <2>5. Scalar!Fill(IF req.op = "_strnset_s" THEN req.count ELSE Truncate)
    BY <1>2, <2>1, <2>2, <2>3, <2>4, SamePoke, SameFilled, SameLesser
       DEF Scalar!Fill, Scalar!Nul, Nul, Scalar!EINVAL, EINVAL
  <2>6. Scalar!Copying
    BY <1>2, <1>9, <2>5 DEF Scalar!Copying, Scalar!StrSet, Scalar!StrNSet, Fills
  <2> QED BY <1>1, <1>2, <1>4, <2>6 DEF Scalar!Serve
<1> QED BY <1>1, <1>6, <1>7, <1>8, <1>9 DEF Refused
-----------------------------------------------------------------------------
Served == Scalar!Ask \/ Scalar!Serve \/ UNCHANGED Scalar!vars

LEMMA Quiet ==
  ASSUME ~Returned, ~Returned', UNCHANGED <<ctx, req, was>>
  PROVE  Served
  BY DEF Served, Scalar!vars

LEMMA CallServes == ASSUME CrtInv, CrtCall PROVE Served
<1>1. /\ stage = "idle" /\ stage' = "entry" /\ req' \in Requests /\ reply' = Idle
      /\ mem' = mem /\ was' = mem /\ ctx' = ctx
  BY DEF CrtCall
<1>2. Returned /\ ~Returned' /\ req' # Idle
  BY <1>1, RequestIs DEF Returned
<1> QED BY <1>1, <1>2 DEF Served, Scalar!Ask

LEMMA LeaveServes == ASSUME Leave PROVE Served
<1>1. Returned /\ Returned' /\ mem' = mem /\ ctx' = ctx /\ reply' = reply
  BY DEF Leave, Returned
<1> QED BY <1>1 DEF Served, Scalar!vars

(* The answers that need no scan.                                          *)
LEMMA ChecksServe == ASSUME CrtInv, Checks PROVE Served
<1>1. /\ stage = "entry" /\ ctx' = ctx /\ req' = req /\ was' = was
  BY DEF Checks, AskNothing, RefuseTarget, RefuseSource, CopyNothing, KeepEmpty, Entry, input
<1>2. ~Returned /\ mem = was /\ req \in Requests /\ Args
  BY <1>1 DEF Returned, CrtInv, AtStage, Args
<1>3. req # Idle /\ req.size \in Nat /\ req.count \in Nat
  BY <1>2, RequestIs, ArraysAssumption
<1>4. CASE AskNothing
  <2>1. Scalar!Answer(0, FALSE, was) /\ NoRequest
    BY <1>2, <1>4, AnswerIs DEF AskNothing, Answer
  <2>2. Scalar!NoRequest
    BY <1>2, <2>1 DEF Scalar!NoRequest, NoRequest, Scalar!Null, Null
  <2>3. Scalar!Copying
    BY <1>2, <2>1, <2>2 DEF Scalar!Copying, Scalar!StrNCpy, Scalar!StrNCat, NoRequest, Counts
  <2> QED BY <1>1, <1>2, <1>3, <2>3 DEF Scalar!Serve, Served
<1>5. CASE RefuseTarget \/ RefuseSource
  <2>1. ~Returned'
    BY <1>5 DEF RefuseTarget, RefuseSource, Complain, Returned
  <2> QED BY <1>1, <1>2, <2>1, Quiet
<1>6. CASE CopyNothing
  <2>1. req.op = "strncpy_s" /\ ~NoTarget /\ NoCount /\ Scalar!Answer(0, FALSE, Poke(was, req.dst, Nul))
    BY <1>2, <1>6, AnswerIs DEF CopyNothing, Entry, Answer, Emptied
  <2>2. Scalar!Poke(was, req.dst, Scalar!Nul) = Poke(was, req.dst, Nul)
    BY SamePoke DEF Scalar!Nul, Nul
  <2>3. ~(req.dst = Null \/ req.size = 0) /\ req.count = 0
    BY <2>1 DEF NoTarget, NoCount
  <2>4. Scalar!Copying
    BY <1>2, <2>1, <2>2, <2>3
       DEF Scalar!Copying, Scalar!StrNCpy, Scalar!NoTarget, Scalar!Emptied, Scalar!Null, Null
  <2> QED BY <1>1, <1>2, <1>3, <2>4 DEF Scalar!Serve, Served
<1>7. CASE KeepEmpty
  <2>1. /\ req.op = "strncat_s" /\ ~NoTarget /\ NoCount /\ req.src = Null /\ was[req.dst] = Nul
        /\ Scalar!Answer(0, FALSE, was)
    BY <1>2, <1>7, AnswerIs DEF KeepEmpty, Entry, Answer
  <2>2. ~(req.dst = Null \/ req.size = 0) /\ req.count = 0 /\ req.dst \in Nat
    BY <1>1, <2>1, Targeted DEF NoTarget, NoCount
  <2>3. Scalar!Within(was, req.dst, req.size) = 0
    <3>1. req.dst + 0 = req.dst /\ 0 \in 0..req.size
      BY <1>3, <2>2
    <3>2. NoNul(was, req.dst, req.dst + 0)
      BY <2>2, <3>1, NoneYet
    <3>3. was[req.dst + 0] = Nul
      BY <2>1, <3>1
    <3> QED BY <1>3, <2>2, <3>1, <3>2, <3>3, WithinIs, SameWithin
  <2>4. 0 < req.size
    BY <1>3, <2>2
  <2>5. Scalar!Copying
    BY <1>2, <2>1, <2>2, <2>3, <2>4
       DEF Scalar!Copying, Scalar!StrNCat, Scalar!NoTarget, Scalar!Null, Null
  <2> QED BY <1>1, <1>2, <1>3, <2>5 DEF Scalar!Serve, Served
<1> QED BY <1>4, <1>5, <1>6, <1>7 DEF Checks

(* No source, and nothing to append.                                       *)
LEMMA NothingAppended ==
  ASSUME CrtInv, stage = "walk", ctx' = ctx, NEW n \in Nat, n < req.size,
         NoNul(was, req.dst, req.dst + n), was[req.dst + n] = Nul, req.src = Null, Answer(0, mem)
  PROVE  Scalar!Serve
<1>1. InWalk /\ mem = was /\ ~Returned /\ stage # "idle"
  BY DEF CrtInv, AtStage, Returned
<1>2. req.op = "strncat_s" /\ ~NoTarget /\ req.count = 0
  BY <1>1 DEF InWalk, NoCount, Counts, Appends
<1>3. req \in Requests /\ req.dst \in Nat /\ req.size \in Nat /\ req # Idle
  BY <1>1, <1>2, Targeted, RequestIs
<1>4. Scalar!Within(was, req.dst, req.size) = n
  <2>1. n \in 0..req.size
    BY <1>3
  <2> QED BY <1>3, <2>1, WithinIs, SameWithin
<1>5. Scalar!Answer(0, FALSE, was)
  BY <1>1, AnswerIs DEF Answer
<1>6. Scalar!Copying
  BY <1>1, <1>2, <1>4, <1>5
     DEF Scalar!Copying, Scalar!StrNCat, Scalar!NoTarget, NoTarget, Scalar!Null, Null
<1> QED BY <1>1, <1>3, <1>6 DEF Scalar!Serve

LEMMA WalkBlockServes == ASSUME CrtInv, WalkBlock PROVE Served
<1>1. stage = "walk" /\ ctx' = ctx /\ req' = req /\ was' = was /\ ~Returned
  BY DEF WalkBlock, input, Returned
<1>2. CASE ~Returned'
  BY <1>1, <1>2, Quiet
<1>3. CASE Returned'
  <2>1. Hits(req.dst) # {} /\ First(req.dst) < req.size /\ req.src = Null /\ Answer(0, mem)
    BY <1>1, <1>3 DEF WalkBlock, GoOn, Complain, ScanSource, Returned
  <2>2. InWalk /\ at \in Nat /\ mem = was
    BY <1>1 DEF CrtInv, AtStage, Kinds
  <2>3. req.dst \in Nat /\ NoNul(was, req.dst, at)
    BY <1>1, <2>2, Targeted DEF InWalk, Appends
  <2>4. PICK n \in Nat : /\ First(req.dst) = n /\ was[req.dst + n] = Nul
                         /\ NoNul(was, req.dst, req.dst + n)
    BY <2>1, <2>2, <2>3, FirstHit
  <2> QED BY <1>1, <2>1, <2>4, NothingAppended DEF Served
<1> QED BY <1>2, <1>3

LEMMA ScanBlockServes == ASSUME CrtInv, ScanBlock PROVE Served
<1>1. stage = "scan" /\ ctx' = ctx /\ req' = req /\ was' = was /\ ~Returned
  BY DEF ScanBlock, input, Returned
<1>2. /\ mem = was /\ at \in Nat /\ req.src \in Nat /\ Limit \in Nat /\ Limit <= Room /\ Room \in Nat
      /\ Block \in Nat \ {0} /\ NoNul(was, req.src, at)
  BY <1>1, LimitIs, SmallBlock DEF InScan
<1>3. CASE Hits(req.src) = {} /\ GoOn
  <2>1. ~Returned'
    BY <1>1, <1>3 DEF GoOn, Returned
  <2> QED BY <1>1, <2>1, Quiet
<1>4. CASE Hits(req.src) = {} /\ Covered(req.src) >= Limit /\ NoEnd
  <2>1. req.src + Limit <= at + Block /\ req.src + Limit \in Nat /\ at + Block \in Nat
    BY <1>2, <1>4 DEF Covered
  <2>2. NoNul(was, req.src, req.src + Limit)
    BY <1>2, <1>4, <2>1, NoHit, NoNulBefore
  <2> QED BY <1>1, <1>4, <2>2, NoEndServes DEF Served
<1>5. CASE Hits(req.src) # {}
  <2>1. PICK n \in Nat : /\ First(req.src) = n /\ was[req.src + n] = Nul
                         /\ NoNul(was, req.src, req.src + n)
    BY <1>2, <1>5, FirstHit
  <2>2. CASE n >= Limit /\ NoEnd
    <3>1. req.src + Limit <= req.src + n /\ req.src + Limit \in Nat /\ req.src + n \in Nat
      BY <1>2, <2>2
    <3>2. NoNul(was, req.src, req.src + Limit)
      BY <1>2, <2>1, <3>1, NoNulBefore
    <3> QED BY <1>1, <2>2, <3>2, NoEndServes DEF Served
  <2>3. CASE n < Limit /\ Fits(n)
    <3>1. n \in 0..Limit /\ n < Room
      BY <1>2, <2>3
    <3> QED BY <1>1, <2>1, <2>3, <3>1, FitsServes DEF Served
  <2> QED BY <1>5, <2>1, <2>2, <2>3 DEF ScanBlock
<1> QED BY <1>3, <1>4, <1>5 DEF ScanBlock

LEMMA FillingServes ==
  ASSUME CrtInv, stage = "fill", ctx' = ctx, NEW n \in Nat, n < req.size,
         NoNul(was, req.dst, req.dst + n), was[req.dst + n] = Nul, Filling(n)
  PROVE  Scalar!Serve
<1>1. /\ mem = was /\ req \in Requests /\ req.dst \in Nat /\ req.size \in Nat /\ req.size > 0
      /\ ~NoTarget /\ req.op # "strtok_s" /\ req.op \in Fills /\ ~Returned
  BY FillIs DEF Returned
<1>2. req.size < Truncate /\ Truncate \in Nat /\ req.count \in Nat /\ req # Idle
  BY <1>1, Targeted, SmallArray, RequestIs, ArraysAssumption
<1>3. FillCells(n) = Filled(was, req.dst, Clipped(n), req.fill)
  BY <1>1, FillCellsAre
<1>4. Scalar!Answer(0, FALSE, Filled(was, req.dst, Clipped(n), req.fill))
  BY <1>3, AnswerIs DEF Filling, Answer
<1>5. Scalar!Within(was, req.dst, req.size) = n
  <2>1. n \in 0..req.size
    BY <1>1
  <2> QED BY <1>1, <2>1, WithinIs, SameWithin
<1>6. Clipped(n) = Lesser(n, IF req.op = "_strnset_s" THEN req.count ELSE Truncate)
  BY <1>1, <1>2 DEF Clipped, Lesser
<1>7. Scalar!Fill(IF req.op = "_strnset_s" THEN req.count ELSE Truncate)
  BY <1>1, <1>4, <1>5, <1>6, SameFilled, SameLesser DEF Scalar!Fill
<1>8. Scalar!Copying
  BY <1>1, <1>7 DEF Scalar!Copying, Scalar!StrSet, Scalar!StrNSet, Fills
<1> QED BY <1>1, <1>2, <1>8 DEF Scalar!Serve

LEMMA FillerServes == ASSUME CrtInv, Filler PROVE Served
<1>1. /\ stage \in {"entry", "fill"} /\ ctx' = ctx /\ req' = req /\ was' = was /\ ~Returned
  BY DEF Filler, StartFill, FillBlock, FillByte, FillUnended, Entry, input, Returned
<1>2. CASE ~Returned'
  BY <1>1, <1>2, Quiet
<1>3. CASE FillBlock /\ Returned'
  <2>1. stage = "fill" /\ Hits(at) # {} /\ Filling(LeastOf(Hits(at)) - req.dst) /\ WholeBlock
    BY <1>1, <1>3 DEF FillBlock, GoOn, Returned
  <2>2. /\ mem = was /\ at \in Nat /\ req.dst \in Nat /\ req.size \in Nat /\ req.dst <= at
        /\ NoNul(was, req.dst, at)
    BY <2>1, FillIs
  <2>3. NoNul(was, at, at)
    BY <2>2, NoneYet
  <2>4. PICK j \in Nat : /\ LeastOf(Hits(at)) = at + j /\ at + j \in BlockAt(at)
                         /\ was[at + j] = Nul /\ NoNul(was, at, at + j)
    BY <2>1, <2>2, <2>3, FirstHit
  <2>5. PICK n \in Nat : n = (at + j) - req.dst
    BY <2>2
  <2>6. n < req.size /\ req.dst + n = at + j
    <3>1. Left >= Block /\ Block \in Nat
      BY <2>1, SmallBlock DEF WholeBlock
    <3> QED BY <2>2, <2>4, <2>5, <3>1 DEF BlockAt, Left
  <2>7. NoNul(was, req.dst, req.dst + n)
    <3>1. SUFFICES ASSUME NEW x \in req.dst..((at + j) - 1) PROVE was[x] # Nul
      BY <2>6 DEF NoNul
    <3>2. x \in req.dst..(at - 1) \/ x \in at..((at + j) - 1)
      BY <2>2
    <3> QED BY <2>2, <2>4, <3>2 DEF NoNul
  <2> QED BY <1>1, <2>1, <2>4, <2>5, <2>6, <2>7, FillingServes DEF Served
<1>4. CASE FillByte /\ Returned'
  <2>1. stage = "fill" /\ mem[at] = Nul /\ Filling(at - req.dst) /\ Left > 0
    BY <1>1, <1>4 DEF FillByte, Returned
  <2>2. /\ mem = was /\ at \in Nat /\ req.dst \in Nat /\ req.size \in Nat /\ req.dst <= at
        /\ NoNul(was, req.dst, at)
    BY <2>1, FillIs
  <2>3. PICK n \in Nat : n = at - req.dst
    BY <2>2
  <2>4. n < req.size /\ req.dst + n = at
    BY <2>1, <2>2, <2>3 DEF Left
  <2> QED BY <1>1, <2>1, <2>2, <2>3, <2>4, FillingServes DEF Served
<1>5. CASE (StartFill \/ FillUnended) /\ Returned'
  BY <1>5 DEF StartFill, FillUnended, Complain, Returned
<1> QED BY <1>2, <1>3, <1>4, <1>5 DEF Filler
-----------------------------------------------------------------------------
(* The end of the string from a on, once it is known to come at or behind  *)
(* a cell with none before.                                                *)
LEMMA EndFrom ==
  ASSUME NEW m, Memory(m), NEW a, String(m, a), NEW x \in Nat, a <= x, NoNul(m, a, x)
  PROVE  LET end == LeastOf({y \in DOMAIN m : y >= a /\ m[y] = Nul})
         IN  end \in Nat /\ x <= end /\ m[end] = Nul
<1>1. PICK e \in Nat : a <= e /\ e < EndOf(a) /\ m[e] = Nul
  BY StringIs
<1>2. a \in Nat /\ Cell(a) /\ EndOf(a) \in Nat
  BY BehindCell DEF String
<1>3. e \in DOMAIN m
  <2>1. e \in a..(EndOf(a) - 1)
    BY <1>1, <1>2
  <2> QED BY <1>2, <2>1, BehindCell, CellMapped
<1> DEFINE S == {y \in DOMAIN m : y >= a /\ m[y] = Nul}
<1>4. S \in SUBSET Nat /\ S # {}
  BY <1>1, <1>2, <1>3 DEF Memory
<1>5. PICK end \in S : end = LeastOf(S)
  <2> HIDE DEF S
  <2> QED BY <1>4, LeastIs
<1>6. end \in Nat /\ end >= a /\ m[end] = Nul
  BY <1>4
<1>7. ~(end \in a..(x - 1))
  BY <1>6 DEF NoNul
<1>8. x <= end
  BY <1>2, <1>6, <1>7
<1> QED BY <1>5, <1>6, <1>8

LEMMA EndIs ==
  ASSUME NEW m, Memory(m), NEW a \in Nat, NEW x \in DOMAIN m, a <= x, NoNul(m, a, x), m[x] = Nul
  PROVE  LeastOf({y \in DOMAIN m : y >= a /\ m[y] = Nul}) = x
<1> DEFINE S == {y \in DOMAIN m : y >= a /\ m[y] = Nul}
<1>1. S \in SUBSET Nat /\ x \in Nat
  BY DEF Memory
<1>2. x \in S
  BY <1>1
<1>3. ASSUME NEW y \in S PROVE x <= y
  <2>1. y \in Nat /\ y >= a /\ ~(y \in a..(x - 1))
    BY <1>1 DEF NoNul
  <2> QED BY <1>1, <2>1
<1> HIDE DEF S
<1>4. LeastOf(S) = x
  BY <1>1, <1>2, <1>3, LeastOnly
<1> QED BY <1>4 DEF S

(* The first of the cells from a to b that are in S.                       *)
LEMMA FirstIn ==
  ASSUME NEW a \in Nat, NEW b \in Nat, NEW x \in a..b, NEW S, x \in S, \A y \in a..(x - 1) : y \notin S,
         NEW H, H = {y \in a..b : y \in S}
  PROVE  LeastOf(H) = x
<1>1. H \in SUBSET Nat /\ x \in H
  OBVIOUS
<1>2. ASSUME NEW y \in H PROVE x <= y
  <2>1. y \in Nat /\ y >= a /\ ~(y \in a..(x - 1))
    OBVIOUS
  <2> QED BY <2>1
<1> QED BY <1>1, <1>2, LeastOnly

(* A call of strtok_s without a token, with the last one, with another.    *)
TokEnd == LeastOf({x \in DOMAIN was : x >= From /\ was[x] = Nul})
TokFirst == LeastOf({x \in From..TokEnd : was[x] \notin req.delim})
TokLast == LeastOf({x \in TokFirst..TokEnd : was[x] \in req.delim \union {Nul}})

LEMMA StrTokIs ==
  ASSUME ~Returned, req # Idle, req.op = "strtok_s",
         \/ /\ TokFirst = TokEnd
            /\ ctx' = [ctx EXCEPT ![req.ctx] = TokEnd] /\ Scalar!Answer(Null, FALSE, was)
         \/ /\ TokFirst < TokEnd /\ TokLast = TokEnd
            /\ ctx' = [ctx EXCEPT ![req.ctx] = TokEnd] /\ Scalar!Answer(TokFirst, FALSE, was)
         \/ /\ TokLast < TokEnd
            /\ ctx' = [ctx EXCEPT ![req.ctx] = TokLast + 1]
            /\ Scalar!Answer(TokFirst, FALSE, Poke(was, TokLast, Nul))
  PROVE  Scalar!Serve
<1> DEFINE M == IF Returned THEN mem ELSE was
           R == IF Returned THEN Idle ELSE req
           from == IF R.dst = Scalar!Null THEN ctx[R.ctx] ELSE R.dst
           end == Scalar!LeastOf({x \in DOMAIN M : x >= from /\ M[x] = Scalar!Nul})
           first == Scalar!LeastOf({x \in from..end : M[x] \notin R.delim})
           last == Scalar!LeastOf({x \in first..end : M[x] \in R.delim \union {Scalar!Nul}})
<1>1. M = was /\ R = req
  OBVIOUS
<1>2. Scalar!Null = Null /\ Scalar!Nul = Nul
  BY DEF Scalar!Null, Null, Scalar!Nul, Nul
<1> HIDE DEF M, R
<1>3. from = From
  BY <1>1, <1>2 DEF From
<1> HIDE DEF from
<1>4. end = TokEnd
  BY <1>1, <1>2, <1>3, SameLeast DEF TokEnd
<1> HIDE DEF end
<1>5. first = TokFirst
  BY <1>1, <1>3, <1>4, SameLeast DEF TokFirst
<1> HIDE DEF first
<1>6. last = TokLast
  BY <1>1, <1>2, <1>4, <1>5, SameLeast DEF TokLast
<1> HIDE DEF last
<1>7. Scalar!Poke(M, last, Scalar!Nul) = Poke(was, TokLast, Nul)
  BY <1>1, <1>2, <1>6, SamePoke
<1>8. /\ R.op = "strtok_s"
      /\ \/ /\ first = end
            /\ ctx' = [ctx EXCEPT ![R.ctx] = end] /\ Scalar!Answer(Scalar!Null, FALSE, M)
         \/ /\ first < end /\ last = end
            /\ ctx' = [ctx EXCEPT ![R.ctx] = end] /\ Scalar!Answer(first, FALSE, M)
         \/ /\ last < end
            /\ ctx' = [ctx EXCEPT ![R.ctx] = last + 1]
            /\ Scalar!Answer(first, FALSE, Scalar!Poke(M, last, Scalar!Nul))
  BY <1>1, <1>2, <1>4, <1>5, <1>6, <1>7
<1>9. Scalar!StrTok
  BY <1>8 DEF Scalar!StrTok, from, end, first, last, M, R
<1>10. R # Idle
  BY <1>1
<1> QED BY <1>9, <1>10 DEF Scalar!Serve, R

LEMMA SkipBlockServes == ASSUME CrtInv, SkipBlock PROVE Served
<1> DEFINE others == {x \in BlockAt(at) : x >= found /\ mem[x] \notin req.delim}
           x == LeastOf(others)
           S == {y \in Nat : was[y] \notin req.delim}
<1>1. stage = "skip" /\ req' = req /\ was' = was /\ ~Returned /\ InSkip
  BY DEF SkipBlock, Returned, CrtInv, AtStage
<1>2. /\ mem = was /\ at \in Nat /\ found \in Nat /\ req.op = "strtok_s" /\ String(was, found)
      /\ found < at + Block /\ req.delim \subseteq Nat \ {Nul} /\ Memory(was)
      /\ req # Idle
  BY <1>1, TokenIs, RequestIs DEF CrtInv
<1>3. CASE others = {} /\ GoOn /\ UNCHANGED ctx
  <2>1. ~Returned' /\ ctx' = ctx
    BY <1>1, <1>3 DEF GoOn, Returned
  <2> QED BY <1>1, <2>1, Quiet
<1>4. CASE others # {} /\ mem[x] = Nul /\ Token(Null, x, mem)
  <2>1. others = {y \in BlockAt(at) : y >= found /\ y \in S}
    BY <1>2, SmallBlock DEF BlockAt
  <2>2. \A y \in found..(at - 1) : y \notin S
    BY <1>1 DEF InSkip
  <2>3. x \in others /\ x \in Nat /\ \A y \in found..(x - 1) : y \notin S
    <3> HIDE DEF others, S
    <3> QED BY <1>2, <1>4, <2>1, <2>2, FirstOf
  <2>4. x >= found /\ x \in S /\ was[x] = Nul
    BY <1>2, <1>4, <2>1, <2>3
  <2>5. \A y \in found..(x - 1) : was[y] \in req.delim
    BY <1>2, <2>3
  <2> HIDE DEF others, x
  <2>6. NoNul(was, found, x) /\ found <= x
    BY <1>2, <2>3, <2>4, <2>5 DEF NoNul
  <2>7. x \in DOMAIN was
    BY <1>2, <2>3, <2>6, StringFrom, CellMapped
  <2>8. found = From
    BY <1>1 DEF InSkip
  <2>9. TokEnd = x
    BY <1>2, <2>4, <2>6, <2>7, <2>8, EndIs DEF TokEnd
  <2>10. TokFirst = x
    <3>1. PICK H : H = {y \in found..x : was[y] \notin req.delim}
      OBVIOUS
    <3>2. H = {y \in found..x : y \in S}
      BY <1>2, <2>3, <3>1
    <3>3. x \in found..x
      BY <1>2, <2>3, <2>6
    <3>4. LeastOf(H) = x
      <4> HIDE DEF S
      <4> QED BY <1>2, <2>3, <2>4, <3>2, <3>3, FirstIn
    <3> QED BY <2>8, <2>9, <3>1, <3>4 DEF TokFirst
  <2>11. ctx' = [ctx EXCEPT ![req.ctx] = x] /\ Scalar!Answer(Null, FALSE, was)
    BY <1>2, <1>4, AnswerIs DEF Token, Answer
  <2> QED BY <1>1, <1>2, <2>9, <2>10, <2>11, StrTokIs DEF Served
<1>5. CASE stage' = "token" /\ UNCHANGED ctx
  <2>1. ~Returned' /\ ctx' = ctx
    BY <1>5 DEF Returned
  <2> QED BY <1>1, <2>1, Quiet
<1> HIDE DEF others, x
<1> QED BY <1>3, <1>4, <1>5 DEF SkipBlock, others, x

LEMMA TokenBlockServes == ASSUME CrtInv, TokenBlock PROVE Served
<1> DEFINE ends == {x \in BlockAt(at) : x >= found /\ mem[x] \in req.delim \union {Nul}}
           x == LeastOf(ends)
           S == {y \in Nat : was[y] \in req.delim \union {Nul}}
           O == {y \in Nat : was[y] \notin req.delim}
<1>1. stage = "token" /\ req' = req /\ was' = was /\ ~Returned /\ InToken
  BY DEF TokenBlock, Returned, CrtInv, AtStage
<1>2. /\ mem = was /\ at \in Nat /\ found \in Nat /\ req.op = "strtok_s" /\ String(was, found)
      /\ found < at + Block /\ req.delim \subseteq Nat \ {Nul} /\ Memory(was)
      /\ req # Idle /\ req.ctx \in Contexts /\ String(was, From) /\ From \in Nat
  <2>1. String(was, From)
    BY <1>1 DEF CrtInv, AtStage, Args, InToken
  <2> QED BY <1>1, <2>1, TokenIs, RequestIs DEF CrtInv, String
<1>3. CASE ends = {} /\ GoOn /\ UNCHANGED ctx
  <2>1. ~Returned' /\ ctx' = ctx
    BY <1>1, <1>3 DEF GoOn, Returned
  <2> QED BY <1>1, <2>1, Quiet
<1>4. ASSUME ends # {}
      PROVE  /\ x \in Nat /\ found <= x /\ x \in S /\ NoNul(was, From, x) /\ From <= x
             /\ x \in DOMAIN was /\ \A y \in found..(x - 1) : y \notin S
  <2>1. ends = {y \in BlockAt(at) : y >= found /\ y \in S}
    BY <1>2, SmallBlock DEF BlockAt
  <2>2. \A y \in found..(at - 1) : y \notin S
    BY <1>1 DEF InToken
  <2>3. x \in ends /\ x \in Nat /\ \A y \in found..(x - 1) : y \notin S
    <3> HIDE DEF ends, S
    <3> QED BY <1>2, <1>4, <2>1, <2>2, FirstOf
  <2>4. x >= found /\ x \in S
    BY <2>1, <2>3
  <2>5. \A y \in found..(x - 1) : was[y] # Nul
    BY <1>2, <2>3
  <2> HIDE DEF ends, x
  <2>6. From <= found /\ \A y \in From..(found - 1) : was[y] \in req.delim
    BY <1>1 DEF InToken
  <2>7. NoNul(was, From, x) /\ From <= x /\ found <= x
    <3>1. SUFFICES ASSUME NEW y \in From..(x - 1) PROVE was[y] # Nul
      BY <1>2, <2>3, <2>4, <2>6 DEF NoNul
    <3>2. y \in From..(found - 1) \/ y \in found..(x - 1)
      BY <1>2, <2>3
    <3> QED BY <1>2, <2>5, <2>6, <3>2
  <2>8. x \in DOMAIN was
    BY <1>2, <2>3, <2>7, StringFrom, CellMapped
  <2> QED BY <2>3, <2>4, <2>7, <2>8
(* The token begins where the contract finds it.                           *)
<1>5. ASSUME ends # {}, x <= TokEnd, TokEnd \in Nat
      PROVE  TokFirst = found
  <2>1. x \in Nat /\ found <= x
    BY <1>4, <1>5
  <2> HIDE DEF x, ends
  <2>2. PICK H : H = {y \in From..TokEnd : was[y] \notin req.delim}
    OBVIOUS
  <2>3. H = {y \in From..TokEnd : y \in O}
    BY <1>2, <1>5, <2>2
  <2>4. found \in From..TokEnd /\ found \in O /\ \A y \in From..(found - 1) : y \notin O
    BY <1>1, <1>2, <1>5, <2>1 DEF InToken
  <2>5. LeastOf(H) = found
    <3> HIDE DEF O
    <3> QED BY <1>2, <1>5, <2>3, <2>4, FirstIn
  <2> QED BY <2>2, <2>5 DEF TokFirst
<1>6. ASSUME ends # {}, x <= TokEnd, TokEnd \in Nat
      PROVE  TokLast = x
  <2>1. x \in Nat /\ found <= x /\ x \in S /\ \A y \in found..(x - 1) : y \notin S
    BY <1>4, <1>6
  <2>2. TokFirst = found
    BY <1>5, <1>6
  <2> HIDE DEF x, ends
  <2>3. PICK H : H = {y \in found..TokEnd : was[y] \in req.delim \union {Nul}}
    OBVIOUS
  <2>4. H = {y \in found..TokEnd : y \in S}
    BY <1>2, <1>6, <2>3
  <2>5. x \in found..TokEnd
    BY <1>2, <1>6, <2>1
  <2>6. LeastOf(H) = x
    <3> HIDE DEF S
    <3> QED BY <1>2, <1>6, <2>1, <2>4, <2>5, FirstIn
  <2> QED BY <2>2, <2>3, <2>6 DEF TokLast
<1>7. CASE ends # {} /\ mem[x] = Nul /\ Token(found, x, mem)
  <2>1. x \in Nat /\ found <= x /\ NoNul(was, From, x) /\ From <= x /\ x \in DOMAIN was /\ was[x] = Nul
    BY <1>2, <1>4, <1>7
  <2>2. TokEnd = x
    <3> HIDE DEF x
    <3> QED BY <1>2, <2>1, EndIs DEF TokEnd
  <2>3. TokFirst = found /\ TokLast = x
    <3>1. x <= TokEnd /\ TokEnd \in Nat /\ ends # {}
      BY <1>7, <2>1, <2>2
    <3> QED BY <1>5, <1>6, <3>1
  <2> HIDE DEF x, ends
  <2>4. found < x
    <3>1. was[found] # Nul
      BY <1>1 DEF InToken
    <3> QED BY <1>2, <2>1, <3>1
  <2>5. ctx' = [ctx EXCEPT ![req.ctx] = x] /\ Scalar!Answer(found, FALSE, was)
    BY <1>2, <1>7, AnswerIs DEF Token, Answer
  <2> QED BY <1>1, <1>2, <2>2, <2>3, <2>4, <2>5, StrTokIs DEF Served
<1>8. CASE ends # {} /\ mem[x] # Nul /\ Token(found, x + 1, Poke(mem, x, Nul))
  <2>1. x \in Nat /\ found <= x /\ NoNul(was, From, x) /\ From <= x /\ x \in DOMAIN was /\ was[x] # Nul
    BY <1>2, <1>4, <1>8
  <2>2. TokEnd \in Nat /\ x <= TokEnd /\ was[TokEnd] = Nul
    <3> HIDE DEF x
    <3> QED BY <1>2, <2>1, EndFrom DEF TokEnd
  <2>3. TokFirst = found /\ TokLast = x
    BY <1>5, <1>6, <1>8, <2>2
  <2> HIDE DEF x, ends
  <2>4. x < TokEnd
    BY <2>1, <2>2
  <2>5. ctx' = [ctx EXCEPT ![req.ctx] = x + 1] /\ Scalar!Answer(found, FALSE, Poke(was, x, Nul))
    BY <1>2, <1>8, AnswerIs DEF Token, Answer
  <2> QED BY <1>1, <1>2, <2>3, <2>4, <2>5, StrTokIs DEF Served
<1> HIDE DEF ends, x
<1> QED BY <1>3, <1>7, <1>8 DEF TokenBlock, ends, x

LEMMA StepServes == CrtInv /\ [CrtNext]_crtVars => Served
<1> SUFFICES ASSUME CrtInv, [CrtNext]_crtVars PROVE Served
  OBVIOUS
<1>1. CASE CrtCall \/ Leave
  BY <1>1, CallServes, LeaveServes
<1>2. CASE Checks
  BY <1>2, ChecksServe
<1>3. CASE Copying
  <2>1. CASE StartCopy \/ AppendToEmpty \/ StartWalk
    <3>1. ~Returned /\ ~Returned' /\ UNCHANGED <<ctx, req, was>>
      BY <2>1 DEF StartCopy, AppendToEmpty, StartWalk, Entry, ScanSource, Returned, input
    <3> QED BY <3>1, Quiet
  <2> QED BY <1>3, <2>1, WalkBlockServes, ScanBlockServes DEF Copying
<1>4. CASE Filler
  BY <1>4, FillerServes
<1>5. CASE Tokens
  <2>1. CASE StartToken
    <3>1. ~Returned /\ ~Returned' /\ UNCHANGED <<ctx, req, was>>
      BY <2>1 DEF StartToken, Entry, Returned, input
    <3> QED BY <3>1, Quiet
  <2> QED BY <1>5, <2>1, SkipBlockServes, TokenBlockServes DEF Tokens
<1>6. CASE HandlerReturns
  BY <1>6, HandlerServes DEF Served
<1>7. CASE ClientDone \/ UNCHANGED crtVars
  BY <1>7 DEF ClientDone, Served, crtVars, Scalar!vars, Returned
<1> QED BY <1>1, <1>2, <1>3, <1>4, <1>5, <1>6, <1>7 DEF CrtNext

(* Every call of the bounded string functions and of strtok_s leaves in    *)
(* memory, in the context and in its answer what the scalar loops of       *)
(* reference.c leave.                                                      *)
THEOREM SecureImplements == CrtSpec => CrtImplements
<1>1. CrtInit => Scalar!Init
  BY DEF CrtInit, Scalar!Init, Returned
<1>2. CrtInv /\ [CrtNext]_crtVars => [Scalar!Ask \/ Scalar!Serve]_Scalar!vars
  BY StepServes DEF Served
<1> QED BY <1>1, <1>2, InvHolds, PTL DEF CrtSpec, CrtImplements, Scalar!Spec
=============================================================================
