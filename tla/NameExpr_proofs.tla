--------------------------- MODULE NameExpr_proofs ---------------------------
(***************************************************************************)
(* Proofs about the name matcher: it loses no match and makes none up,     *)
(* for expressions and names of any length and words of any width.  What   *)
(* the contract computes by recursion is a path through the name, one      *)
(* step for each character of the expression; paths are cut and joined     *)
(* below, and every action of the matcher is shown to follow one.          *)
(***************************************************************************)
EXTENDS NameExpr, TLAPS, WellFoundedInduction, FiniteSetTheorems

(* Sets are induced over: what begins in S and is kept in it as long as it *)
(* is below b.                                                             *)
LEMMA Climb ==
  ASSUME NEW a \in Nat, NEW b \in Nat, NEW S, a \in S,
         \A k \in Nat : a <= k /\ k < b /\ k \in S => k + 1 \in S
  PROVE  \A k \in a..b : k \in S
<1> DEFINE T == {k \in a..b : k \notin S}
<1>1. SUFFICES ASSUME T # {} PROVE FALSE
  OBVIOUS
<1>2. T \subseteq Nat
  OBVIOUS
<1>3. \E i \in T : \A j \in T : ~ (<<j, i>> \in OpToRel(<, Nat))
  <2> HIDE DEF T
  <2> QED BY <1>1, <1>2, WFMin, NatLessThanWellFounded
<1>4. PICK i \in T : \A j \in T : ~ (<<j, i>> \in OpToRel(<, Nat))
  BY <1>3
<1>5. \A j \in T : ~(j < i)
  <2>1. TAKE j \in T
  <2>2. <<j, i>> \in Nat \X Nat
    BY <1>2
  <2> QED BY <1>4, <2>2 DEF OpToRel
<1>6. i \in Nat /\ a <= i /\ i <= b /\ i \notin S /\ i # a
  OBVIOUS
<1>7. i - 1 \in Nat /\ a <= i - 1 /\ i - 1 < b /\ (i - 1) + 1 = i /\ i - 1 < i
  BY <1>6
<1>8. i - 1 \in T \/ i - 1 \in S
  BY <1>6, <1>7
<1> QED BY <1>5, <1>6, <1>7, <1>8

LEMMA LeastInIs ==
  ASSUME NEW S \in SUBSET Nat, S # {}
  PROVE  LeastIn(S) \in S /\ \A y \in S : LeastIn(S) <= y
<1>1. \E i \in S : \A j \in S : ~ (<<j, i>> \in OpToRel(<, Nat))
  BY WFMin, NatLessThanWellFounded
<1>2. PICK i \in S : \A j \in S : ~ (<<j, i>> \in OpToRel(<, Nat))
  BY <1>1
<1>3. \A j \in S : i <= j
  <2>1. TAKE j \in S
  <2>2. <<j, i>> \in Nat \X Nat
    OBVIOUS
  <2>3. ~ (j < i)
    BY <1>2, <2>2 DEF OpToRel
  <2> QED BY <2>3
<1> QED BY <1>3 DEF LeastIn

(* A bounded set of positions has a last one: it is the bound less the     *)
(* least distance from it.                                                 *)
LEMMA MostInIs ==
  ASSUME NEW b \in Nat, NEW S \in SUBSET (0..b), S # {}
  PROVE  MostIn(S) \in S /\ \A y \in S : y <= MostIn(S)
<1> DEFINE T == {b - y : y \in S}
<1>1. T \subseteq Nat /\ T # {}
  <2>1. ASSUME NEW y \in S PROVE b - y \in Nat
    <3>1. y \in 0..b
      OBVIOUS
    <3> QED BY <3>1
  <2>2. T # {}
    OBVIOUS
  <2> QED BY <2>1, <2>2
<1>2. PICK t \in T : \A u \in T : t <= u
  <2> HIDE DEF T
  <2> QED BY <1>1, LeastInIs
<1>3. PICK x \in S : t = b - x
  BY <1>2
<1>4. \A y \in S : x >= y
  <2>1. TAKE y \in S
  <2>2. x \in 0..b /\ y \in 0..b
    OBVIOUS
  <2>3. b - x <= b - y
    BY <1>2, <1>3
  <2> QED BY <2>2, <2>3
<1> QED BY <1>4 DEF MostIn
-----------------------------------------------------------------------------
(* Paths: a step of one for each character of e from p up to q, from       *)
(* position i of n to position j.                                          *)
Path(e, n, p, q, f) ==
  f \in [p..q -> Nat] /\ \A k \in p..(q - 1) : Takes(At(e, k), n, f[k], f[k + 1])
Goes(e, n, p, q, i, j) == \E f : Path(e, n, p, q, f) /\ f[p] = i /\ f[q] = j

LEMMA TakesBounds ==
  ASSUME NEW c, NEW n, Len(n) \in Nat, NEW i \in Nat, NEW j \in Nat, Takes(c, n, i, j)
  PROVE  i <= j /\ j <= Len(n)
BY DEF Takes, DotAt

(* A path never leads back, nor behind the end.                            *)
LEMMA PathUp ==
  ASSUME NEW e, NEW n, Len(n) \in Nat, NEW p \in Nat, NEW q \in Nat, p <= q, NEW f, Path(e, n, p, q, f)
  PROVE  \A k \in p..q : f[k] \in Nat /\ f[p] <= f[k] /\ (f[p] <= Len(n) => f[k] <= Len(n))
<1> DEFINE S == {k \in p..q : f[p] <= f[k] /\ (f[p] <= Len(n) => f[k] <= Len(n))}
<1>1. \A k \in p..q : f[k] \in Nat
  BY DEF Path
<1>2. p \in S
  BY <1>1
<1>3. ASSUME NEW k \in Nat, p <= k, k < q, k \in S PROVE k + 1 \in S
  <2>1. k \in p..(q - 1) /\ k \in p..q /\ k + 1 \in p..q /\ p \in p..q
    BY <1>3
  <2>2. f[k] \in Nat /\ f[k + 1] \in Nat /\ f[p] \in Nat
    BY <1>1, <2>1
  <2>3. f[k] <= f[k + 1] /\ f[k + 1] <= Len(n)
    BY <2>1, <2>2, TakesBounds DEF Path
  <2> QED BY <1>3, <2>1, <2>2, <2>3
<1>4. \A k \in p..q : k \in S
  <2> HIDE DEF S
  <2> QED BY <1>2, <1>3, Climb
<1> QED BY <1>1, <1>4

LEMMA GoesUp ==
  ASSUME NEW e, NEW n, Len(n) \in Nat, NEW p \in Nat, NEW q \in Nat, p <= q, NEW i, NEW j,
         Goes(e, n, p, q, i, j)
  PROVE  i \in Nat /\ j \in Nat /\ i <= j /\ (i <= Len(n) => j <= Len(n))
<1>1. PICK f : Path(e, n, p, q, f) /\ f[p] = i /\ f[q] = j
  BY DEF Goes
<1>2. p \in p..q /\ q \in p..q
  OBVIOUS
<1> QED BY <1>1, <1>2, PathUp

LEMMA GoesNowhere ==
  ASSUME NEW e, NEW n, NEW p \in Nat, NEW i \in Nat, NEW j
  PROVE  Goes(e, n, p, p, i, j) <=> i = j
<1>1. ASSUME i = j PROVE Goes(e, n, p, p, i, j)
  <2> DEFINE f == [k \in p..p |-> i]
  <2>1. f[p] = i
    OBVIOUS
  <2>2. Path(e, n, p, p, f)
    BY DEF Path
  <2> QED BY <1>1, <2>1, <2>2 DEF Goes
<1> QED BY <1>1 DEF Goes

LEMMA GoesOne ==
  ASSUME NEW e, NEW n, NEW p \in Nat, NEW i \in Nat, NEW j \in Nat
  PROVE  Goes(e, n, p, p + 1, i, j) <=> Takes(At(e, p), n, i, j)
<1>1. ASSUME Takes(At(e, p), n, i, j) PROVE Goes(e, n, p, p + 1, i, j)
  <2> DEFINE f == [k \in p..(p + 1) |-> IF k = p THEN i ELSE j]
  <2>1. f[p] = i /\ f[p + 1] = j /\ f \in [p..(p + 1) -> Nat]
    OBVIOUS
  <2>2. \A k \in p..((p + 1) - 1) : k = p
    OBVIOUS
  <2> HIDE DEF f
  <2>3. Path(e, n, p, p + 1, f)
    BY <1>1, <2>1, <2>2 DEF Path
  <2> QED BY <2>1, <2>3 DEF Goes
<1>2. ASSUME Goes(e, n, p, p + 1, i, j) PROVE Takes(At(e, p), n, i, j)
  <2>1. PICK f : Path(e, n, p, p + 1, f) /\ f[p] = i /\ f[p + 1] = j
    BY <1>2 DEF Goes
  <2>2. p \in p..((p + 1) - 1)
    OBVIOUS
  <2> QED BY <2>1, <2>2 DEF Path
<1> QED BY <1>1, <1>2

(* Two paths that meet are one, and a path can be cut anywhere.            *)
LEMMA GoesJoin ==
  ASSUME NEW e, NEW n, NEW p \in Nat, NEW q \in Nat, NEW r \in Nat, p <= r, r <= q,
         NEW i, NEW x, NEW j, Goes(e, n, p, r, i, x), Goes(e, n, r, q, x, j)
  PROVE  Goes(e, n, p, q, i, j)
<1>1. PICK f : Path(e, n, p, r, f) /\ f[p] = i /\ f[r] = x
  BY DEF Goes
<1>2. PICK g : Path(e, n, r, q, g) /\ g[r] = x /\ g[q] = j
  BY DEF Goes
<1> DEFINE h == [k \in p..q |-> IF k <= r THEN f[k] ELSE g[k]]
<1>3. \A k \in p..r : k \in p..q /\ k <= r /\ f[k] \in Nat
  BY <1>1 DEF Path
<1>4. \A k \in r..q : k \in p..q /\ (k # r => ~(k <= r)) /\ g[k] \in Nat
  BY <1>2 DEF Path
<1>5. (\A k \in p..r : h[k] = f[k]) /\ (\A k \in r..q : h[k] = g[k])
  BY <1>1, <1>2, <1>3, <1>4
<1>6. h \in [p..q -> Nat]
  BY <1>3, <1>4
<1> HIDE DEF h
<1>7. ASSUME NEW k \in p..(q - 1) PROVE Takes(At(e, k), n, h[k], h[k + 1])
  <2>1. CASE k < r
    <3>1. k \in p..(r - 1) /\ k \in p..r /\ k + 1 \in p..r
      BY <2>1
    <3> QED BY <1>1, <1>5, <3>1 DEF Path
  <2>2. CASE ~(k < r)
    <3>1. k \in r..(q - 1) /\ k \in r..q /\ k + 1 \in r..q
      BY <2>2
    <3> QED BY <1>2, <1>5, <3>1 DEF Path
  <2> QED BY <2>1, <2>2
<1>8. h[p] = i /\ h[q] = j
  BY <1>1, <1>2, <1>5
<1> QED BY <1>6, <1>7, <1>8 DEF Goes, Path

LEMMA GoesCut ==
  ASSUME NEW e, NEW n, NEW p \in Nat, NEW q \in Nat, NEW r \in Nat, p <= r, r <= q,
         NEW i, NEW j, Goes(e, n, p, q, i, j)
  PROVE  \E x \in Nat : Goes(e, n, p, r, i, x) /\ Goes(e, n, r, q, x, j)
<1>1. PICK f : Path(e, n, p, q, f) /\ f[p] = i /\ f[q] = j
  BY DEF Goes
<1> DEFINE g == [k \in p..r |-> f[k]]
           h == [k \in r..q |-> f[k]]
<1>2. \A k \in p..q : f[k] \in Nat
  BY <1>1 DEF Path
<1>3. p..r \subseteq p..q /\ r..q \subseteq p..q /\ p..(r - 1) \subseteq p..(q - 1) /\ r..(q - 1) \subseteq p..(q - 1)
  OBVIOUS
<1>4. g \in [p..r -> Nat] /\ h \in [r..q -> Nat]
  BY <1>2, <1>3
<1>5. (\A k \in p..r : g[k] = f[k]) /\ (\A k \in r..q : h[k] = f[k])
  OBVIOUS
<1> HIDE DEF g, h
<1>6. Path(e, n, p, r, g)
  <2>1. \A k \in p..(r - 1) : k \in p..r /\ k + 1 \in p..r
    OBVIOUS
  <2> QED BY <1>1, <1>3, <1>4, <1>5, <2>1 DEF Path
<1>7. Path(e, n, r, q, h)
  <2>1. \A k \in r..(q - 1) : k \in r..q /\ k + 1 \in r..q
    OBVIOUS
  <2> QED BY <1>1, <1>3, <1>4, <1>5, <2>1 DEF Path
<1>8. g[p] = i /\ g[r] = f[r] /\ h[r] = f[r] /\ h[q] = j /\ f[r] \in Nat
  BY <1>1, <1>2, <1>5
<1> QED BY <1>6, <1>7, <1>8 DEF Goes
LEMMA GoesFront ==
  ASSUME NEW e, NEW n, Len(n) \in Nat, NEW p \in Nat, NEW q \in Nat, p < q, NEW i \in Nat, NEW j \in Nat
  PROVE  Goes(e, n, p, q, i, j)
           <=> \E x \in Nat : Takes(At(e, p), n, i, x) /\ Goes(e, n, p + 1, q, x, j)
<1>1. p <= p + 1 /\ p + 1 <= q /\ p + 1 \in Nat
  OBVIOUS
<1>2. ASSUME Goes(e, n, p, q, i, j)
      PROVE  \E x \in Nat : Goes(e, n, p, p + 1, i, x) /\ Goes(e, n, p + 1, q, x, j)
  BY <1>1, <1>2, GoesCut
<1>3. ASSUME NEW x \in Nat, Goes(e, n, p, p + 1, i, x), Goes(e, n, p + 1, q, x, j)
      PROVE  Goes(e, n, p, q, i, j)
  BY <1>1, <1>3, GoesJoin
<1> QED BY <1>2, <1>3, GoesOne

LEMMA GoesBack ==
  ASSUME NEW e, NEW n, Len(n) \in Nat, NEW p \in Nat, NEW q \in Nat, p <= q, NEW i \in Nat, NEW j \in Nat
  PROVE  Goes(e, n, p, q + 1, i, j)
           <=> \E x \in Nat : Goes(e, n, p, q, i, x) /\ Takes(At(e, q), n, x, j)
<1>1. q <= q + 1 /\ q + 1 \in Nat
  OBVIOUS
<1>2. ASSUME Goes(e, n, p, q + 1, i, j)
      PROVE  \E x \in Nat : Goes(e, n, p, q, i, x) /\ Goes(e, n, q, q + 1, x, j)
  BY <1>1, <1>2, GoesCut
<1>3. ASSUME NEW x \in Nat, Goes(e, n, p, q, i, x), Goes(e, n, q, q + 1, x, j)
      PROVE  Goes(e, n, p, q + 1, i, j)
  BY <1>1, <1>3, GoesJoin
<1> QED BY <1>2, <1>3, GoesOne
-----------------------------------------------------------------------------
(* What the contract computes: the ends of the paths, and none else.       *)
LEMMA CutsGoes ==
  ASSUME NEW e, NEW n, Len(n) \in Nat, NEW p \in Nat, NEW q \in Nat, p <= q,
         NEW i \in Nat, NEW j \in Nat, i <= j
  PROVE  Cuts(e, n, p, q, i, j) <=> Goes(e, n, p, q, i, j)
<1> DEFINE Rec(f) ==
             f = [k \in p..q |->
                    IF k = p THEN {i}
                    ELSE LET before == f[k - 1]
                         IN  {y \in i..j : \E x \in before : Takes(At(e, k - 1), n, x, y)}]
           ends == CHOOSE f : Rec(f)
           G == [k \in p..q |-> {y \in i..j : Goes(e, n, p, k, i, y)}]
<1>1. G[p] = {i}
  <2>1. \A y \in i..j : Goes(e, n, p, p, i, y) <=> y = i
    BY GoesNowhere
  <2>2. i \in i..j /\ p \in p..q
    OBVIOUS
  <2> QED BY <2>1, <2>2
<1>2. ASSUME NEW k \in p..q, k # p
      PROVE  /\ k - 1 \in p..q
             /\ G[k] = {y \in i..j : \E x \in G[k - 1] : Takes(At(e, k - 1), n, x, y)}
  <2>1. k - 1 \in p..q /\ k - 1 \in Nat /\ (k - 1) + 1 = k /\ p <= k - 1 /\ k \in p..q
    BY <1>2
  <2>2. PICK k1 \in Nat : k1 = k - 1
    BY <2>1
  <2>3. ASSUME NEW y \in i..j
        PROVE  Goes(e, n, p, k, i, y) <=> \E x \in G[k1] : Takes(At(e, k1), n, x, y)
    <3>1. y \in Nat /\ k1 + 1 = k /\ p <= k1 /\ k1 \in p..q
      BY <2>1, <2>2
    <3>2. Goes(e, n, p, k, i, y) <=> \E x \in Nat : Goes(e, n, p, k1, i, x) /\ Takes(At(e, k1), n, x, y)
      BY <3>1, GoesBack
    <3>3. ASSUME NEW x \in Nat, Goes(e, n, p, k1, i, x), Takes(At(e, k1), n, x, y)
          PROVE  x \in G[k1]
      <4>1. i <= x /\ x <= y
        BY <3>1, <3>3, GoesUp, TakesBounds
      <4>2. x \in i..j
        BY <3>1, <4>1
      <4> QED BY <3>1, <3>3, <4>2
    <3>4. ASSUME NEW x \in G[k1] PROVE x \in Nat /\ Goes(e, n, p, k1, i, x)
      BY <3>1
    <3> HIDE DEF G
    <3> QED BY <3>2, <3>3, <3>4
  <2>4. G[k] = {y \in i..j : Goes(e, n, p, k, i, y)}
    BY <2>1
  <2> HIDE DEF G
  <2> QED BY <2>1, <2>2, <2>3, <2>4
<1>3. Rec(G)
  <2>1. G = [k \in p..q |-> G[k]]
    OBVIOUS
  <2>2. \A k \in p..q : G[k] = IF k = p THEN {i}
                               ELSE {y \in i..j : \E x \in G[k - 1] : Takes(At(e, k - 1), n, x, y)}
    <3> HIDE DEF G
    <3> QED BY <1>1, <1>2
  <2> HIDE DEF G
  <2> QED BY <2>1, <2>2
<1>4. Rec(ends)
  <2> HIDE DEF Rec, G
  <2> QED BY <1>3
<1>5. ASSUME NEW f, Rec(f) PROVE f[q] = G[q]
  <2> DEFINE S == {k \in p..q : f[k] = G[k]}
  <2>1. p \in S
    <3>1. p \in p..q
      OBVIOUS
    <3>2. f[p] = {i}
      BY <1>5, <3>1
    <3> HIDE DEF G
    <3> QED BY <1>1, <3>1, <3>2
  <2>2. ASSUME NEW k \in Nat, p <= k, k < q, k \in S PROVE k + 1 \in S
    <3>1. k + 1 \in p..q /\ k + 1 # p /\ (k + 1) - 1 = k
      BY <2>2
    <3>2. f[k + 1] = {y \in i..j : \E x \in f[(k + 1) - 1] : Takes(At(e, (k + 1) - 1), n, x, y)}
      BY <1>5, <3>1
    <3>3. G[k + 1] = {y \in i..j : \E x \in G[(k + 1) - 1] : Takes(At(e, (k + 1) - 1), n, x, y)}
      <4> HIDE DEF G
      <4> QED BY <1>2, <3>1
    <3>4. f[k] = G[k]
      BY <2>2
    <3> HIDE DEF G
    <3> QED BY <3>1, <3>2, <3>3, <3>4
  <2>3. \A k \in p..q : k \in S
    <3> HIDE DEF S
    <3> QED BY <2>1, <2>2, Climb
  <2> HIDE DEF G
  <2> QED BY <2>3
<1>6. ends[q] = G[q]
  <2> HIDE DEF Rec, ends, G
  <2> QED BY <1>4, <1>5
<1>7. Cuts(e, n, p, q, i, j) <=> j \in ends[q]
  BY DEF Cuts
<1>8. q \in p..q /\ j \in i..j
  OBVIOUS
<1> HIDE DEF ends
<1> QED BY <1>6, <1>7, <1>8
-----------------------------------------------------------------------------
(* A character that is no star and no DOS wildcard takes exactly one.      *)
LEMMA TakesSingle ==
  ASSUME NEW c, c # Star, c \notin Dos, NEW n, NEW i \in Nat, NEW j \in Nat
  PROVE  Takes(c, n, i, j) <=> i < Len(n) /\ j = i + 1 /\ (c = Any \/ c = At(n, i))
BY DEF Takes, Dos, Wild, Any, Star, DosStar, DosAny, DosDot

(* So a run of them goes through the name in step with it.                 *)
Single(e, p, q) == \A k \in p..(q - 1) : At(e, k) # Star /\ At(e, k) \notin Dos

Taken(e, n, p, q, i) ==
  \A k \in p..(q - 1) : i + (k - p) < Len(n) /\ (At(e, k) = Any \/ At(e, k) = At(n, i + (k - p)))

LEMMA InStep ==
  ASSUME NEW e, NEW n, Len(n) \in Nat, NEW p \in Nat, NEW q \in Nat, p <= q, Single(e, p, q),
         NEW i \in Nat, NEW j
  PROVE  Goes(e, n, p, q, i, j)
           <=> j = i + (q - p) /\ Taken(e, n, p, q, i)
<1>1. ASSUME Goes(e, n, p, q, i, j)
      PROVE  j = i + (q - p) /\ Taken(e, n, p, q, i)
  <2>1. PICK f : Path(e, n, p, q, f) /\ f[p] = i /\ f[q] = j
    BY <1>1 DEF Goes
  <2>2. \A k \in p..q : f[k] \in Nat
    BY <2>1 DEF Path
  <2>3. ASSUME NEW k \in p..(q - 1)
        PROVE  f[k + 1] = f[k] + 1 /\ f[k] < Len(n) /\ (At(e, k) = Any \/ At(e, k) = At(n, f[k]))
    <3>1. k \in p..q /\ k + 1 \in p..q
      OBVIOUS
    <3>2. Takes(At(e, k), n, f[k], f[k + 1])
      BY <2>1 DEF Path
    <3> QED BY <2>2, <3>1, <3>2, TakesSingle DEF Single
  <2> DEFINE S == {k \in p..q : f[k] = i + (k - p)}
  <2>4. p \in S
    BY <2>1
  <2>5. ASSUME NEW k \in Nat, p <= k, k < q, k \in S PROVE k + 1 \in S
    <3>1. k \in p..(q - 1) /\ k + 1 \in p..q /\ k + 1 \in Nat
      BY <2>5
    <3>2. f[k + 1] = (i + (k - p)) + 1
      BY <2>3, <2>5, <3>1
    <3> QED BY <3>1, <3>2
  <2>6. \A k \in p..q : f[k] = i + (k - p)
    <3>1. \A k \in p..q : k \in S
      <4> HIDE DEF S
      <4> QED BY <2>4, <2>5, Climb
    <3> QED BY <3>1
  <2>7. q \in p..q /\ p..(q - 1) \subseteq p..q
    OBVIOUS
  <2> QED BY <2>1, <2>3, <2>6, <2>7 DEF Taken
<1>2. ASSUME j = i + (q - p), Taken(e, n, p, q, i)
      PROVE  Goes(e, n, p, q, i, j)
  <2> DEFINE f == [k \in p..q |-> i + (k - p)]
  <2>1. f \in [p..q -> Nat] /\ f[p] = i /\ f[q] = j
    <3>1. \A k \in p..q : i + (k - p) \in Nat
      OBVIOUS
    <3>2. i + (p - p) = i /\ p \in p..q /\ q \in p..q
      OBVIOUS
    <3> QED BY <1>2, <3>1, <3>2
  <2>2. ASSUME NEW k \in p..(q - 1) PROVE Takes(At(e, k), n, f[k], f[k + 1])
    <3>1. k \in p..q /\ k + 1 \in p..q /\ i + ((k + 1) - p) = (i + (k - p)) + 1 /\ i + (k - p) \in Nat
      OBVIOUS
    <3>2. f[k] = i + (k - p) /\ f[k + 1] = (i + (k - p)) + 1
      BY <3>1
    <3>3. PICK x \in Nat : x = i + (k - p)
      BY <3>1
    <3>4. x < Len(n) /\ (At(e, k) = Any \/ At(e, k) = At(n, x)) /\ x + 1 \in Nat
      BY <1>2, <3>3 DEF Taken
    <3> HIDE DEF f
    <3>5. Takes(At(e, k), n, x, x + 1)
      BY <3>4, TakesSingle DEF Single
    <3> QED BY <3>2, <3>3, <3>5
  <2> HIDE DEF f
  <2> QED BY <2>1, <2>2 DEF Goes, Path
<1> QED BY <1>1, <1>2

(* Literals: those parts of the expression and of the name are the same.   *)
Plain(e, p, q) == \A k \in p..(q - 1) : At(e, k) \notin Wild

LEMMA Literally ==
  ASSUME NEW e \in Seq(STRING), NEW n \in Seq(STRING), NEW p \in Nat, NEW q \in Nat, p <= q, q <= Len(e),
         Plain(e, p, q), NEW i \in Nat, i <= Len(n), NEW j
  PROVE  Goes(e, n, p, q, i, j)
           <=> /\ j = i + (q - p) /\ j <= Len(n)
               /\ SubSeq(e, p + 1, q) = SubSeq(n, i + 1, j)
<1>1. Single(e, p, q) /\ \A k \in p..(q - 1) : At(e, k) # Any
  BY DEF Single, Plain, Wild
<1>2. Len(n) \in Nat /\ Len(e) \in Nat
  OBVIOUS
<1>3. ASSUME Goes(e, n, p, q, i, j)
      PROVE  j = i + (q - p) /\ j <= Len(n) /\ \A k \in p..(q - 1) : At(e, k) = At(n, i + (k - p))
  <2>1. j <= Len(n)
    BY <1>2, <1>3, GoesUp
  <2>2. j = i + (q - p) /\ Taken(e, n, p, q, i)
    BY <1>1, <1>2, <1>3, InStep
  <2> QED BY <1>1, <2>1, <2>2 DEF Taken
<1>4. ASSUME j = i + (q - p), j <= Len(n), \A k \in p..(q - 1) : At(e, k) = At(n, i + (k - p))
      PROVE  Goes(e, n, p, q, i, j)
  <2>1. \A k \in p..(q - 1) : i + (k - p) < Len(n)
    BY <1>2, <1>4
  <2>2. Taken(e, n, p, q, i)
    BY <1>4, <2>1 DEF Taken
  <2> QED BY <1>1, <1>2, <1>4, <2>2, InStep
<1>5. ASSUME j = i + (q - p), j <= Len(n)
      PROVE  SubSeq(e, p + 1, q) = SubSeq(n, i + 1, j)
               <=> \A k \in p..(q - 1) : At(e, k) = At(n, i + (k - p))
  <2>1. PICK l \in Nat : l = q - p
    OBVIOUS
  <2>2. SubSeq(e, p + 1, q) = [x \in 1..l |-> e[p + x]]
    BY <1>2, <2>1
  <2>3. SubSeq(n, i + 1, j) = [x \in 1..l |-> n[i + x]]
    BY <1>2, <1>5, <2>1
  <2>4. ASSUME \A x \in 1..l : e[p + x] = n[i + x], NEW k \in p..(q - 1)
        PROVE  At(e, k) = At(n, i + (k - p))
    <3>1. (k - p) + 1 \in 1..l /\ p + ((k - p) + 1) = k + 1 /\ i + ((k - p) + 1) = (i + (k - p)) + 1
      BY <2>1
    <3>2. PICK y \in 1..l : y = (k - p) + 1
      BY <3>1
    <3>3. e[p + y] = n[i + y]
      BY <2>4
    <3>4. e[k + 1] = n[(i + (k - p)) + 1]
      BY <3>1, <3>2, <3>3
    <3> QED BY <3>4 DEF At
  <2>5. ASSUME \A k \in p..(q - 1) : At(e, k) = At(n, i + (k - p)), NEW x \in 1..l
        PROVE  e[p + x] = n[i + x]
    <3>1. (p + x) - 1 \in p..(q - 1) /\ ((p + x) - 1) + 1 = p + x /\ (i + (((p + x) - 1) - p)) + 1 = i + x
      BY <2>1
    <3> QED BY <2>5, <3>1 DEF At
  <2> QED BY <2>2, <2>3, <2>4, <2>5
<1> QED BY <1>3, <1>4, <1>5

(* Stars go anywhere.                                                      *)
LEMMA StarsGo ==
  ASSUME NEW e, NEW n, Len(n) \in Nat, NEW p \in Nat, NEW q \in Nat, p < q,
         \A k \in p..(q - 1) : At(e, k) = Star, NEW i \in Nat, NEW j \in Nat, i <= j, j <= Len(n)
  PROVE  Goes(e, n, p, q, i, j)
<1> DEFINE f == [k \in p..q |-> IF k = p THEN i ELSE j]
<1>1. f \in [p..q -> Nat] /\ f[p] = i /\ f[q] = j
  OBVIOUS
<1>2. ASSUME NEW k \in p..(q - 1) PROVE Takes(At(e, k), n, f[k], f[k + 1])
  <2>1. f[k] <= j /\ f[k] \in Nat /\ f[k + 1] = j
    OBVIOUS
  <2> HIDE DEF f
  <2>2. f[k + 1] \in f[k]..Len(n)
    BY <2>1
  <2> QED BY <2>2 DEF Takes
<1> HIDE DEF f
<1> QED BY <1>1, <1>2 DEF Goes, Path

(* A path that ends where it begins stood still all along.                 *)
LEMMA Standing ==
  ASSUME NEW e, NEW n, Len(n) \in Nat, NEW p \in Nat, NEW q \in Nat, p <= q, NEW i \in Nat,
         Goes(e, n, p, q, i, i), NEW k \in p..(q - 1)
  PROVE  Takes(At(e, k), n, i, i)
<1>1. k \in Nat /\ k + 1 \in Nat /\ p <= k /\ k <= q /\ k < q /\ k + 1 <= q
  OBVIOUS
<1>2. PICK x \in Nat : Goes(e, n, p, k, i, x) /\ Goes(e, n, k, q, x, i)
  BY <1>1, GoesCut
<1>3. PICK y \in Nat : Takes(At(e, k), n, x, y) /\ Goes(e, n, k + 1, q, y, i)
  BY <1>1, <1>2, GoesFront
<1>4. i <= x /\ x <= y /\ y <= i
  BY <1>1, <1>2, <1>3, GoesUp, TakesBounds
<1>5. x = i /\ y = i
  BY <1>4
<1> QED BY <1>3, <1>5
-----------------------------------------------------------------------------
(* The arguments, and what is read off the expression.                     *)
LEMMA TextsIs ==
  ASSUME query \in Queries
  PROVE  /\ expr \in Seq(STRING) /\ name \in Seq(STRING) /\ query.odd \in BOOLEAN
         /\ PL \in Nat /\ NL \in Nat /\ Len(expr) = PL /\ Len(name) = NL
         /\ query.odd => NL > 0
  BY NamesAssumption DEF expr, name, PL, NL

LEMMA WildsIs ==
  ASSUME query \in Queries, Wilds # {}
  PROVE  /\ fw \in Nat /\ lw \in Nat /\ fw <= lw /\ lw < PL /\ pe \in Nat /\ pe = lw + 1
         /\ SL \in Nat /\ SL = PL - pe /\ Expr(fw) \in Wild /\ Expr(lw) \in Wild
         /\ Plain(expr, 0, fw) /\ Plain(expr, pe, PL)
<1>1. PL \in Nat
  BY TextsIs
<1>2. Wilds \subseteq 0..(PL - 1) /\ Wilds \subseteq 0..PL /\ Wilds \subseteq Nat
  BY <1>1 DEF Wilds
<1>3. fw \in Wilds /\ \A y \in Wilds : fw <= y
  BY <1>2, LeastInIs DEF fw
<1>4. lw \in Wilds /\ \A y \in Wilds : y <= lw
  BY <1>1, <1>2, MostInIs DEF lw
<1>5. fw \in 0..(PL - 1) /\ lw \in 0..(PL - 1) /\ fw <= lw
  BY <1>2, <1>3, <1>4
<1>6. ASSUME NEW k \in 0..(fw - 1) PROVE At(expr, k) \notin Wild
  <2>1. k \in 0..(PL - 1) /\ ~(fw <= k)
    BY <1>1, <1>5
  <2> QED BY <1>3, <2>1 DEF Wilds, Expr
<1>7. ASSUME NEW k \in (lw + 1)..(PL - 1) PROVE At(expr, k) \notin Wild
  <2>1. k \in 0..(PL - 1) /\ ~(k <= lw)
    BY <1>1, <1>5
  <2> QED BY <1>4, <2>1 DEF Wilds, Expr
<1>8. Expr(fw) \in Wild /\ Expr(lw) \in Wild
  BY <1>3, <1>4 DEF Wilds
<1> QED BY <1>1, <1>5, <1>6, <1>7, <1>8 DEF pe, SL, Plain
-----------------------------------------------------------------------------
(* The verdicts of the shapes.                                             *)
LEMMA StarSuffixIs ==
  ASSUME query \in Queries
  PROVE  StarSuffix(expr) <=> PL >= 2 /\ Wilds = {0} /\ Expr(0) = Star
<1>1. PL \in Nat /\ Len(expr) = PL
  BY TextsIs
<1>2. ASSUME StarSuffix(expr) PROVE PL >= 2 /\ Wilds = {0} /\ Expr(0) = Star
  <2>1. PL >= 2 /\ Expr(0) = Star /\ \A k \in 1..(PL - 1) : Expr(k) \notin Wild
    BY <1>1, <1>2 DEF StarSuffix, Expr
  <2>2. 0 \in Wilds
    BY <1>1, <2>1 DEF Wilds, Wild
  <2>3. \A k \in Wilds : k = 0
    BY <1>1, <2>1 DEF Wilds
  <2> QED BY <2>1, <2>2, <2>3
<1>3. ASSUME PL >= 2, Wilds = {0}, Expr(0) = Star PROVE StarSuffix(expr)
  <2>1. ASSUME NEW k \in 1..(PL - 1) PROVE Expr(k) \notin Wild
    <3>1. k \in 0..(PL - 1) /\ k # 0
      BY <1>1
    <3> QED BY <1>3, <3>1 DEF Wilds
  <2> QED BY <1>1, <1>3, <2>1 DEF StarSuffix, Expr
<1> QED BY <1>2, <1>3

LEMMA VerdictIs == Matches(query) \in BOOLEAN
<1> DEFINE s == SubSeq(query.name, 1, IF query.odd THEN Len(query.name) - 1 ELSE Len(query.name))
<1>1. EndsWith(s, Tail(query.expr)) \in BOOLEAN
  BY DEF EndsWith
<1>2. Cuts(query.expr, query.name, 0, Len(query.expr), 0, Len(query.name)) \in BOOLEAN
  BY DEF Cuts
<1>3. CASE StarSuffix(query.expr)
  <2>1. Matches(query) = EndsWith(s, Tail(query.expr))
    BY <1>3 DEF Matches
  <2> QED BY <1>1, <2>1
<1>4. CASE ~StarSuffix(query.expr) /\ query.name = <<>>
  <2>1. Matches(query) = (query.expr = <<>>)
    BY <1>4 DEF Matches
  <2> QED BY <2>1
<1>5. CASE ~StarSuffix(query.expr) /\ query.name # <<>>
  <2>1. Matches(query) = Cuts(query.expr, query.name, 0, Len(query.expr), 0, Len(query.name))
    BY <1>5 DEF Matches
  <2> QED BY <1>2, <2>1
<1> QED BY <1>3, <1>4, <1>5

LEMMA MatchesGoes ==
  ASSUME query \in Queries, ~StarSuffix(expr), NL > 0
  PROVE  Matches(query) <=> Goes(expr, name, 0, PL, 0, NL)
<1>1. PL \in Nat /\ NL \in Nat /\ Len(expr) = PL /\ Len(name) = NL
  BY TextsIs
<1>2. name # <<>>
  BY <1>1
<1>3. Matches(query) <=> Cuts(expr, name, 0, PL, 0, NL)
  BY <1>1, <1>2 DEF Matches, expr, name
<1> QED BY <1>1, <1>3, CutsGoes

LEMMA NothingMatches ==
  ASSUME query \in Queries, NL = 0
  PROVE  Matches(query) <=> PL = 0
<1>1. PL \in Nat /\ NL \in Nat /\ Len(expr) = PL /\ Len(name) = NL /\ ~query.odd
      /\ expr \in Seq(STRING) /\ name \in Seq(STRING)
  BY TextsIs
<1>2. name = <<>> /\ (expr = <<>> <=> PL = 0)
  BY <1>1
<1>3. CASE StarSuffix(expr)
  <2>1. PL >= 2 /\ Len(Tail(expr)) = PL - 1
    BY <1>1, <1>3, StarSuffixIs
  <2>2. Len(SubSeq(name, 1, NL)) = 0
    BY <1>1
  <2>3. Matches(query) <=> EndsWith(SubSeq(name, 1, NL), Tail(expr))
    BY <1>1, <1>3 DEF Matches, expr, name
  <2> QED BY <1>1, <2>1, <2>2, <2>3 DEF EndsWith
<1>4. CASE ~StarSuffix(expr)
  <2>1. Matches(query) <=> expr = <<>>
    BY <1>2, <1>4 DEF Matches, expr, name
  <2> QED BY <1>2, <2>1
<1> QED BY <1>3, <1>4

LEMMA SuffixMatches ==
  ASSUME query \in Queries, StarSuffix(expr)
  PROVE  Matches(query)
           <=> Floor >= PL - 1 /\ SubSeq(name, (Floor - PL) + 2, Floor) = Tail(expr)
<1>1. PL \in Nat /\ NL \in Nat /\ Len(expr) = PL /\ Len(name) = NL /\ (query.odd => NL > 0)
      /\ expr \in Seq(STRING) /\ name \in Seq(STRING) /\ query.odd \in BOOLEAN
  BY TextsIs
<1>2. PICK s : s = SubSeq(name, 1, Floor)
  OBVIOUS
<1>3. Floor \in Nat /\ Floor <= NL
  BY <1>1 DEF Floor
<1>4. s \in Seq(STRING) /\ Len(s) = Floor /\ \A k \in 1..Floor : s[k] = name[k]
  BY <1>1, <1>2, <1>3
<1>5. PL >= 2 /\ Len(Tail(expr)) = PL - 1
  BY <1>1, StarSuffixIs
<1>6. Matches(query) <=> EndsWith(s, Tail(expr))
  BY <1>1, <1>2 DEF Matches, Floor, expr, name
<1>7. ASSUME Floor >= PL - 1
      PROVE  SubSeq(s, Floor - (PL - 1) + 1, Floor) = SubSeq(name, (Floor - PL) + 2, Floor)
  <2>1. PICK a \in Nat : a = Floor - (PL - 1)
    BY <1>1, <1>3, <1>7
  <2>2. a + 1 = (Floor - PL) + 2 /\ a + 1 \in 1..(Floor + 1) /\ a <= Floor
    BY <1>1, <1>3, <1>5, <2>1
  <2>3. PICK l \in Nat : l = Floor - a
    BY <1>3, <2>2
  <2>4. SubSeq(s, a + 1, Floor) = [x \in 1..l |-> s[a + x]]
    BY <1>3, <1>4, <2>2, <2>3
  <2>5. SubSeq(name, a + 1, Floor) = [x \in 1..l |-> name[a + x]]
    BY <1>1, <1>3, <2>2, <2>3
  <2>6. \A x \in 1..l : a + x \in 1..Floor
    BY <1>3, <2>2, <2>3
  <2>7. SubSeq(s, a + 1, Floor) = SubSeq(name, a + 1, Floor)
    BY <1>4, <2>4, <2>5, <2>6
  <2> QED BY <2>1, <2>2, <2>7
<1>8. EndsWith(s, Tail(expr))
        <=> Floor >= PL - 1 /\ SubSeq(s, Floor - (PL - 1) + 1, Floor) = Tail(expr)
  BY <1>4, <1>5 DEF EndsWith
<1> QED BY <1>6, <1>7, <1>8

LEMMA ExactMatches ==
  ASSUME query \in Queries, Wilds = {}, NL > 0
  PROVE  Matches(query) <=> expr = name
<1>1. PL \in Nat /\ NL \in Nat /\ Len(expr) = PL /\ Len(name) = NL
      /\ expr \in Seq(STRING) /\ name \in Seq(STRING)
  BY TextsIs
<1>2. ~StarSuffix(expr)
  BY StarSuffixIs
<1>3. Plain(expr, 0, PL)
  BY DEF Wilds, Expr, Plain
<1>4. Goes(expr, name, 0, PL, 0, NL)
        <=> NL = 0 + (PL - 0) /\ NL <= Len(name) /\ SubSeq(expr, 0 + 1, PL) = SubSeq(name, 0 + 1, NL)
  <2>1. 0 \in Nat /\ 0 <= PL /\ PL <= Len(expr) /\ 0 <= Len(name)
    BY <1>1
  <2>2. expr \in Seq(STRING) /\ name \in Seq(STRING) /\ PL \in Nat
    BY <1>1
  <2> QED BY <1>3, <2>1, <2>2, Literally
<1>5. SubSeq(expr, 1, PL) = expr /\ SubSeq(name, 1, NL) = name
  BY <1>1
<1>6. 0 + 1 = 1 /\ NL <= Len(name) /\ (NL = 0 + (PL - 0) <=> NL = PL) /\ (expr = name => NL = PL)
  BY <1>1
<1> QED BY <1>2, <1>4, <1>5, <1>6, MatchesGoes

LEMMA FirstMatches ==
  ASSUME query \in Queries, NL > 0, PL > 0, Expr(0) \notin Wild, Expr(0) # Name(0)
  PROVE  ~Matches(query)
<1>1. PL \in Nat /\ NL \in Nat /\ Len(expr) = PL /\ Len(name) = NL
  BY TextsIs
<1>2. Star \in Wild /\ Any \in Wild /\ Dos \subseteq Wild
  BY DEF Wild
<1>3. ~StarSuffix(expr) /\ Expr(0) # Star /\ Expr(0) # Any /\ Expr(0) \notin Dos
  BY <1>2, StarSuffixIs
<1>4. ASSUME NEW x \in Nat PROVE ~Takes(At(expr, 0), name, 0, x)
  BY <1>1, <1>3, <1>4, TakesSingle DEF Expr, Name
<1>5. ~Goes(expr, name, 0, PL, 0, NL)
  BY <1>1, <1>4, GoesFront
<1> QED BY <1>3, <1>5, MatchesGoes

LEMMA StarMatches ==
  ASSUME query \in Queries, NL > 0, PL = 1, Expr(0) = Star
  PROVE  Matches(query)
<1>1. NL \in Nat /\ Len(name) = NL
  BY TextsIs
<1>2. ~StarSuffix(expr)
  BY StarSuffixIs
<1>3. \A k \in 0..(1 - 1) : At(expr, k) = Star
  BY DEF Expr
<1>4. Goes(expr, name, 0, 1, 0, NL)
  BY <1>1, <1>3, StarsGo
<1> QED BY <1>2, <1>4, MatchesGoes

LEMMA NoneMatches ==
  ASSUME query \in Queries, NL > 0, PL = 0
  PROVE  ~Matches(query)
<1>1. NL \in Nat /\ Len(name) = NL
  BY TextsIs
<1>2. ~StarSuffix(expr)
  BY StarSuffixIs
<1>3. ~Goes(expr, name, 0, 0, 0, NL)
  BY <1>1, GoesNowhere
<1> QED BY <1>2, <1>3, MatchesGoes

(* The literal ends have to be there, and a match is one of the middle.    *)
LEMMA AnchoredMatches ==
  ASSUME query \in Queries, NL > 0, ~StarSuffix(expr), Wilds # {}
  PROVE  /\ Anchored => /\ Target \in fw..NL
                        /\ Matches(query) <=> Goes(expr, name, fw, pe, fw, Target)
         /\ ~Anchored => ~Matches(query)
<1>1. PL \in Nat /\ NL \in Nat /\ Len(expr) = PL /\ Len(name) = NL
      /\ expr \in Seq(STRING) /\ name \in Seq(STRING)
  BY TextsIs
<1>2. /\ fw \in Nat /\ lw \in Nat /\ fw <= lw /\ lw < PL /\ pe \in Nat /\ pe = lw + 1
      /\ SL \in Nat /\ SL = PL - pe
  BY WildsIs
<1>3. Target = NL - SL
  BY DEF Target
<1>4. ASSUME NEW x \in Nat
      PROVE  Goes(expr, name, 0, fw, 0, x)
               <=> x = fw /\ NL >= fw /\ SubSeq(expr, 1, fw) = SubSeq(name, 1, fw)
  <2>1. Goes(expr, name, 0, fw, 0, x)
          <=> x = 0 + (fw - 0) /\ x <= Len(name) /\ SubSeq(expr, 0 + 1, fw) = SubSeq(name, 0 + 1, x)
    <3>1. 0 \in Nat /\ 0 <= fw /\ fw <= Len(expr) /\ 0 <= Len(name)
      BY <1>1, <1>2
    <3>2. Plain(expr, 0, fw)
      BY WildsIs
    <3>3. expr \in Seq(STRING) /\ name \in Seq(STRING) /\ fw \in Nat /\ pe \in Nat /\ PL \in Nat
      BY <1>1, <1>2
    <3> QED BY <3>1, <3>2, <3>3, Literally
  <2>2. 0 + 1 = 1 /\ 0 + (fw - 0) = fw /\ (fw <= Len(name) <=> NL >= fw)
    BY <1>1, <1>2
  <2> QED BY <2>1, <2>2
<1>5. ASSUME NEW x \in Nat, x <= NL
      PROVE  Goes(expr, name, pe, PL, x, NL)
               <=> x = Target /\ SubSeq(expr, lw + 2, PL) = SubSeq(name, Target + 1, NL)
  <2>1. Goes(expr, name, pe, PL, x, NL)
          <=> NL = x + (PL - pe) /\ NL <= Len(name) /\ SubSeq(expr, pe + 1, PL) = SubSeq(name, x + 1, NL)
    <3>1. pe <= PL /\ PL <= Len(expr) /\ x <= Len(name)
      BY <1>1, <1>2, <1>5
    <3>2. Plain(expr, pe, PL)
      BY WildsIs
    <3>3. expr \in Seq(STRING) /\ name \in Seq(STRING) /\ fw \in Nat /\ pe \in Nat /\ PL \in Nat
      BY <1>1, <1>2
    <3> QED BY <3>1, <3>2, <3>3, Literally
  <2>2. pe + 1 = lw + 2 /\ (NL = x + (PL - pe) <=> x = Target) /\ NL <= Len(name)
    BY <1>1, <1>2, <1>3
  <2> QED BY <2>1, <2>2
<1>6. Matches(query) <=> Goes(expr, name, 0, PL, 0, NL)
  BY MatchesGoes
<1>7. ASSUME Goes(expr, name, 0, PL, 0, NL) PROVE Anchored /\ Goes(expr, name, fw, pe, fw, Target)
  <2>1. PICK x \in Nat : Goes(expr, name, 0, fw, 0, x) /\ Goes(expr, name, fw, PL, x, NL)
    <3>1. 0 \in Nat /\ 0 <= fw /\ fw <= PL
      BY <1>1, <1>2
    <3> QED BY <1>1, <1>2, <1>7, <3>1, GoesCut, Zenon
  <2>2. PICK y \in Nat : Goes(expr, name, fw, pe, x, y) /\ Goes(expr, name, pe, PL, y, NL)
    <3>1. fw <= pe /\ pe <= PL
      BY <1>1, <1>2
    <3> QED BY <1>1, <1>2, <2>1, <3>1, GoesCut, Zenon
  <2>3. x <= y /\ y <= NL
    BY <1>1, <1>2, <2>1, <2>2, GoesUp
  <2>4. x = fw /\ y = Target /\ NL >= fw
    BY <1>4, <1>5, <2>1, <2>2, <2>3
  <2>5. NL - fw >= SL
    BY <1>1, <1>2, <1>3, <2>3, <2>4
  <2> QED BY <1>4, <1>5, <2>1, <2>2, <2>3, <2>4, <2>5 DEF Anchored
<1>8. ASSUME Anchored
      PROVE  /\ Target \in fw..NL
             /\ Goes(expr, name, fw, pe, fw, Target) => Goes(expr, name, 0, PL, 0, NL)
  <2>1. Target \in fw..NL /\ Target \in Nat /\ Target <= NL
    BY <1>1, <1>2, <1>3, <1>8 DEF Anchored
  <2>2. Goes(expr, name, 0, fw, 0, fw) /\ Goes(expr, name, pe, PL, Target, NL)
    BY <1>2, <1>4, <1>5, <1>8, <2>1 DEF Anchored
  <2>3. ASSUME Goes(expr, name, fw, pe, fw, Target) PROVE Goes(expr, name, 0, PL, 0, NL)
    <3>1. Goes(expr, name, 0, pe, 0, Target)
      BY <1>2, <2>2, <2>3, GoesJoin
    <3> QED BY <1>1, <1>2, <2>2, <3>1, GoesJoin
  <2> QED BY <2>1, <2>3
<1> QED BY <1>6, <1>7, <1>8
-----------------------------------------------------------------------------
(* Columns: the positions that are reached, and where a character leads.   *)
Reach(k) == {j \in 0..NL : Goes(expr, name, fw, k, fw, j)}

LEMMA ReachNext ==
  ASSUME query \in Queries, Wilds # {}, NEW k \in Nat, fw <= k
  PROVE  Reach(k + 1) = Led(Reach(k), Expr(k))
<1>1. NL \in Nat /\ Len(name) = NL /\ fw \in Nat
  BY TextsIs, WildsIs
<1>2. ASSUME NEW j \in 0..NL
      PROVE  Goes(expr, name, fw, k + 1, fw, j) <=> \E i \in Reach(k) : Takes(Expr(k), name, i, j)
  <2>1. j \in Nat
    BY <1>1
  <2>2. Goes(expr, name, fw, k + 1, fw, j)
          <=> \E x \in Nat : Goes(expr, name, fw, k, fw, x) /\ Takes(At(expr, k), name, x, j)
    BY <1>1, <2>1, GoesBack
  <2>3. ASSUME NEW x \in Nat, Takes(At(expr, k), name, x, j) PROVE x \in 0..NL
    <3>1. x <= j
      BY <1>1, <2>1, <2>3, TakesBounds
    <3> QED BY <1>1, <3>1
  <2>4. 0..NL \subseteq Nat
    BY <1>1
  <2> QED BY <2>2, <2>3, <2>4 DEF Reach, Expr
<1> QED BY <1>2 DEF Reach, Led

LEMMA ReachFirst ==
  ASSUME query \in Queries, Wilds # {}, fw <= NL
  PROVE  Reach(fw) = {fw}
<1>1. NL \in Nat /\ fw \in Nat
  BY TextsIs, WildsIs
<1>2. \A j : Goes(expr, name, fw, fw, fw, j) <=> fw = j
  BY <1>1, GoesNowhere
<1>3. fw \in 0..NL
  BY <1>1
<1> QED BY <1>2, <1>3 DEF Reach

LEMMA LedUnion == ASSUME NEW S, NEW T, NEW c PROVE Led(S \union T, c) = Led(S, c) \union Led(T, c)
  BY DEF Led

LEMMA LedStar ==
  ASSUME query \in Queries, NEW S, S \subseteq 0..NL, S # {}
  PROVE  S \union LeastIn(S)..NL = Led(S, Star)
<1>1. NL \in Nat /\ Len(name) = NL
  BY TextsIs
<1>2. S \subseteq Nat
  BY <1>1
<1>3. PICK l \in S : l = LeastIn(S) /\ \A y \in S : l <= y
  BY <1>2, LeastInIs
<1>4. \A i \in S, j \in 0..NL : Takes(Star, name, i, j) <=> i <= j
  <2>1. TAKE i \in S, j \in 0..NL
  <2>2. i \in Nat /\ j \in Nat /\ j <= NL
    BY <1>1, <1>2
  <2>3. j \in i..Len(name) <=> i <= j
    BY <1>1, <2>2
  <2> QED BY <2>3 DEF Takes, Star, Any, DosStar, DosAny, DosDot, Wild
<1>5. ASSUME NEW j \in 0..NL PROVE (\E i \in S : i <= j) <=> j \in S \union l..NL
  <2>1. j \in Nat /\ l \in Nat /\ j <= NL
    BY <1>1, <1>2
  <2> QED BY <1>2, <1>3, <2>1
<1>6. l..NL \subseteq 0..NL
  BY <1>1, <1>2
<1> QED BY <1>3, <1>4, <1>5, <1>6 DEF Led

LEMMA DotsIs ==
  ASSUME query \in Queries
  PROVE  /\ Dots \subseteq 0..(NL - 1) /\ Dots \subseteq 0..NL /\ \A i : DotAt(name, i) <=> i \in Dots
         /\ Dots = {} => L = -1
         /\ Dots # {} => L \in Dots /\ L \in Nat /\ L < NL /\ \A i \in Dots : i <= L
<1>1. NL \in Nat /\ Len(name) = NL
  BY TextsIs
<1>2. Dots \subseteq 0..(NL - 1) /\ Dots \subseteq 0..NL /\ \A i : DotAt(name, i) <=> i \in Dots
  BY <1>1 DEF Dots, DotAt, Name
<1>3. ASSUME Dots # {} PROVE L \in Dots /\ \A i \in Dots : i <= L
  <2>1. L = MostIn(Dots)
    BY <1>3 DEF L
  <2> QED BY <1>1, <1>2, <1>3, <2>1, MostInIs
<1>4. ASSUME L \in Dots PROVE L \in Nat /\ L < NL
  BY <1>1, <1>2, <1>4
<1> QED BY <1>2, <1>3, <1>4 DEF L

(* Where a DOS star leads depends on the last dot alone.                   *)
LEMMA TakesDosStar ==
  ASSUME query \in Queries, NEW i \in 0..NL, NEW j \in 0..NL
  PROVE  Takes(DosStar, name, i, j) <=> i <= j /\ (i <= L => j <= L + 1)
<1>1. NL \in Nat /\ Len(name) = NL /\ i \in Nat /\ j \in Nat /\ i <= NL /\ j <= NL
  BY TextsIs
<1>2. Takes(DosStar, name, i, j)
        <=> /\ j \in i..NL
            /\ (\E d \in i..NL : d \in Dots) => \E d \in i..NL : d \in Dots /\ j <= d + 1
  BY <1>1, DotsIs DEF Takes, Star, Any, DosStar, DosAny, DosDot, Wild, Dos
<1>3. j \in i..NL <=> i <= j
  BY <1>1
<1>4. CASE Dots = {}
  <2>1. ~(i <= L)
    BY <1>1, <1>4, DotsIs
  <2> QED BY <1>2, <1>3, <1>4, <2>1
<1>5. CASE Dots # {}
  <2>1. L \in Dots /\ L \in Nat /\ L < NL /\ (\A d \in Dots : d <= L) /\ Dots \subseteq 0..NL
    BY <1>5, DotsIs
  <2>2. \A d \in Dots : d \in Nat
    BY <1>1, <2>1
  <2>3. CASE i <= L
    <3>1. L \in i..NL
      BY <1>1, <2>1, <2>3
    <3>2. ASSUME NEW d \in i..NL, d \in Dots, j <= d + 1 PROVE j <= L + 1
      <4>1. d \in Nat /\ d <= L
        BY <2>1, <2>2, <3>2
      <4> QED BY <1>1, <2>1, <3>2, <4>1
    <3> QED BY <1>2, <1>3, <2>1, <2>3, <3>1, <3>2
  <2>4. CASE ~(i <= L)
    <3>1. ASSUME NEW d \in i..NL PROVE d \notin Dots
      <4>1. d \in Nat /\ ~(d <= L)
        BY <1>1, <2>1, <2>4
      <4> QED BY <2>1, <4>1
    <3> QED BY <1>2, <1>3, <2>4, <3>1
  <2> QED BY <2>3, <2>4
<1> QED BY <1>4, <1>5

LEMMA LedDosStar ==
  ASSUME query \in Queries, NEW S, S \subseteq 0..NL, S # {},
         NEW l, l = LeastIn(S), NEW above, above = {x \in S : x > L}, NEW m, m = LeastIn(above)
  PROVE  Led(S, DosStar) = IF l > L THEN S \union l..NL
                           ELSE S \union l..(L + 1) \union (IF above = {} THEN {} ELSE m..NL)
<1>1. NL \in Nat /\ S \subseteq Nat /\ above \subseteq Nat
  <2>1. NL \in Nat
    BY TextsIs
  <2>2. S \subseteq Nat
    BY <2>1
  <2> QED BY <2>1, <2>2
<1>2. l \in S /\ l \in Nat /\ \A y \in S : l <= y
  BY <1>1, LeastInIs
<1>3. L \in Int /\ L < NL
  <2>1. CASE Dots = {}
    BY <1>1, <2>1, DotsIs
  <2>2. CASE Dots # {}
    BY <2>2, DotsIs
  <2> QED BY <2>1, <2>2
<1>4. \A i \in S, j \in 0..NL : Takes(DosStar, name, i, j) <=> i <= j /\ (i <= L => j <= L + 1)
  BY TakesDosStar
<1>5. CASE l > L
  <2>1. ASSUME NEW j \in 0..NL
        PROVE  (\E i \in S : i <= j /\ (i <= L => j <= L + 1)) <=> j \in S \union l..NL
    <3>1. j \in Nat /\ l \in Nat /\ j <= NL
      BY <1>1, <1>2
    <3>2. \A i \in S : i \in Nat /\ ~(i <= L)
      BY <1>1, <1>2, <1>3, <1>5
    <3> QED BY <1>2, <1>3, <3>1, <3>2
  <2>2. l..NL \subseteq 0..NL
    BY <1>1, <1>2
  <2>3. Led(S, DosStar) = S \union l..NL
    BY <1>4, <2>1, <2>2 DEF Led
  <2> QED BY <1>2, <1>5, <2>3
<1>6. CASE ~(l > L) /\ above = {}
  <2>1. ASSUME NEW j \in 0..NL
        PROVE  (\E i \in S : i <= j /\ (i <= L => j <= L + 1)) <=> j \in S \union l..(L + 1)
    <3>1. j \in Nat /\ l \in Nat /\ j <= NL
      BY <1>1, <1>2
    <3>2. \A i \in S : i \in Nat /\ i <= L
      BY <1>1, <1>3, <1>6
    <3> QED BY <1>2, <1>3, <3>1, <3>2
  <2>2. l..(L + 1) \subseteq 0..NL
    BY <1>1, <1>2, <1>3
  <2>3. Led(S, DosStar) = S \union l..(L + 1)
    BY <1>4, <2>1, <2>2 DEF Led
  <2> QED BY <1>2, <1>6, <2>3
<1>7. CASE ~(l > L) /\ above # {}
  <2>1. m \in above /\ \A y \in above : m <= y
    BY <1>1, <1>7, LeastInIs
  <2>2. m \in S /\ m > L /\ m \in Nat /\ \A y \in S : y > L => m <= y
    BY <1>1, <2>1
  <2>3. ASSUME NEW j \in 0..NL
        PROVE  (\E i \in S : i <= j /\ (i <= L => j <= L + 1)) <=> j \in S \union l..(L + 1) \union m..NL
    <3>1. j \in Nat /\ l \in Nat /\ j <= NL
      BY <1>1, <1>2
    <3>2. \A i \in S : i \in Nat /\ (i <= L \/ i > L)
      BY <1>1, <1>3
    <3>3. ASSUME NEW i \in S, i <= j, i <= L => j <= L + 1 PROVE j \in l..(L + 1) \union m..NL
      <4>1. CASE i <= L
        <5>1. l <= i /\ i \in Nat
          BY <1>1, <1>2
        <5> QED BY <1>3, <3>1, <3>3, <4>1, <5>1
      <4>2. CASE i > L
        <5>1. m <= i /\ i \in Nat
          BY <1>1, <2>2, <4>2
        <5> QED BY <2>2, <3>1, <3>3, <5>1
      <4> QED BY <3>2, <4>1, <4>2
    <3>4. ASSUME j \in S PROVE \E i \in S : i <= j /\ (i <= L => j <= L + 1)
      <4>1. j <= j /\ (j <= L => j <= L + 1)
        BY <1>3, <3>1
      <4> QED BY <3>4, <4>1
    <3>5. ASSUME j \in l..(L + 1) PROVE \E i \in S : i <= j /\ (i <= L => j <= L + 1)
      BY <1>2, <1>3, <3>1, <3>5
    <3>6. ASSUME j \in m..NL PROVE \E i \in S : i <= j /\ (i <= L => j <= L + 1)
      <4>1. m <= j /\ ~(m <= L) /\ m \in S
        BY <1>3, <2>2, <3>1, <3>6
      <4> QED BY <4>1
    <3> QED BY <3>3, <3>4, <3>5, <3>6
  <2>4. l..(L + 1) \subseteq 0..NL /\ m..NL \subseteq 0..NL
    BY <1>1, <1>2, <1>3, <2>2
  <2>5. Led(S, DosStar) = S \union l..(L + 1) \union m..NL
    BY <1>4, <2>3, <2>4 DEF Led
  <2> QED BY <1>7, <2>5
<1> QED BY <1>5, <1>6, <1>7

(* Any other character leads one on, or nowhere.                           *)
LEMMA TakesOther ==
  ASSUME query \in Queries, NEW c, c # Star, c # DosStar, NEW i \in 0..NL, NEW j \in 0..NL
  PROVE  Takes(c, name, i, j) <=> (i \in Shifted(c) /\ j = i + 1) \/ (i \in Kept(c) /\ j = i)
<1>1. NL \in Nat /\ Len(name) = NL /\ i \in Nat /\ j \in Nat /\ i <= NL /\ j <= NL
  BY TextsIs
<1>2. (i < NL <=> i \in 0..(NL - 1)) /\ ((i < NL /\ j = i + 1 /\ j = NL) <=> (j = i + 1 /\ i = NL - 1))
  BY <1>1
<1>3. DotAt(name, i) <=> i \in Dots
  BY DotsIs
<1>4. i \in Dots => i < NL /\ i # NL
  BY <1>1, DotsIs
<1>5. CASE c = Any
  <2>1. Takes(c, name, i, j) <=> i < NL /\ j = i + 1
    BY <1>1, <1>5 DEF Takes, Star, Any, DosStar, DosAny, DosDot, Wild, Dos
  <2>2. Shifted(c) = 0..(NL - 1) /\ Kept(c) = {}
    BY <1>5 DEF Shifted, Kept, Any, DosAny, DosDot
  <2> QED BY <1>2, <2>1, <2>2
<1>6. CASE c = DosAny
  <2>1. Takes(c, name, i, j) <=> \/ i < NL /\ j = i + 1 /\ ~(i \in Dots)
                                 \/ j = i /\ (i = NL \/ i \in Dots)
                                 \/ i < NL /\ j = i + 1 /\ i \in Dots /\ j = NL
    BY <1>1, <1>3, <1>6 DEF Takes, Star, Any, DosStar, DosAny, DosDot, Wild, Dos
  <2>2. Shifted(c) = (0..(NL - 1) \ Dots) \union (Dots \intersect {NL - 1}) /\ Kept(c) = Dots \union {NL}
    BY <1>6 DEF Shifted, Kept, Any, DosAny, DosDot
  <2> QED BY <1>2, <1>4, <2>1, <2>2
<1>7. CASE c = DosDot
  <2>1. Takes(c, name, i, j) <=> (i < NL /\ j = i + 1 /\ i \in Dots) \/ (j = i /\ i = NL)
    BY <1>1, <1>3, <1>7 DEF Takes, Star, Any, DosStar, DosAny, DosDot, Wild, Dos
  <2>2. Shifted(c) = Dots /\ Kept(c) = {NL}
    BY <1>7 DEF Shifted, Kept, Any, DosAny, DosDot
  <2> QED BY <1>4, <2>1, <2>2
<1>8. CASE c \notin {Any, DosAny, DosDot}
  <2>1. c # Any /\ c # DosAny /\ c # DosDot /\ c \notin Dos
    BY <1>8 DEF Dos
  <2>2. Takes(c, name, i, j) <=> i < NL /\ j = i + 1 /\ c = At(name, i)
    BY <1>1, <2>1, TakesSingle
  <2>3. Shifted(c) = {x \in 0..(NL - 1) : Name(x) = c} /\ Kept(c) = {}
    BY <2>1 DEF Shifted, Kept
  <2> QED BY <1>2, <2>2, <2>3 DEF Name
<1> QED BY <1>5, <1>6, <1>7, <1>8

LEMMA LedOther ==
  ASSUME query \in Queries, NEW c, c # Star, c # DosStar, NEW S, S \subseteq 0..NL
  PROVE  Led(S, c) = {x + 1 : x \in S \intersect Shifted(c)} \union (S \intersect Kept(c))
<1>1. NL \in Nat
  BY TextsIs
<1>2. Shifted(c) \subseteq 0..(NL - 1)
  <2>1. Dots \subseteq 0..(NL - 1)
    BY DotsIs
  <2>2. CASE c = Any
    BY <2>2 DEF Shifted, Any, DosAny, DosDot
  <2>3. CASE c = DosAny
    BY <2>1, <2>3 DEF Shifted, Any, DosAny, DosDot
  <2>4. CASE c = DosDot
    BY <2>1, <2>4 DEF Shifted, Any, DosAny, DosDot
  <2>5. CASE c # Any /\ c # DosAny /\ c # DosDot
    BY <2>5 DEF Shifted
  <2> QED BY <2>2, <2>3, <2>4, <2>5
<1>3. \A x \in Shifted(c) : x + 1 \in 0..NL
  BY <1>1, <1>2
<1>4. \A i \in S, j \in 0..NL :
        Takes(c, name, i, j) <=> (i \in Shifted(c) /\ j = i + 1) \/ (i \in Kept(c) /\ j = i)
  BY TakesOther
<1> DEFINE N == {x + 1 : x \in S \intersect Shifted(c)} \union (S \intersect Kept(c))
<1>5. ASSUME NEW j \in 0..NL PROVE (\E i \in S : Takes(c, name, i, j)) <=> j \in N
  BY <1>4
<1>6. N \subseteq 0..NL
  BY <1>3
<1> HIDE DEF N
<1>7. Led(S, c) = N
  BY <1>5, <1>6 DEF Led
<1> QED BY <1>7 DEF N
-----------------------------------------------------------------------------
(***************************************************************************)
(* The invariant.  Once the literal ends are there, a match is one of what *)
(* lies between them (InMiddle).  Greedy: since the last star, expression  *)
(* and name are in step, that star can be given any number of characters   *)
(* from where its part ends on, and no match is lost.  Columns: D is what  *)
(* the expression so far can have come to; during the update of a column   *)
(* this holds word by word.                                                *)
(***************************************************************************)
InBody == NL > 0 /\ PL > 0 /\ ~(Expr(0) = Star /\ PL = 1)

InMiddle ==
  /\ NL > 0 /\ Wilds # {} /\ Target \in fw..NL
  /\ Matches(query) <=> Goes(expr, name, fw, pe, fw, Target)

SinceOf(s)   == IF s = NoStar THEN fw ELSE s
MarkOf(s, m) == IF s = NoStar THEN fw ELSE m

LastStar(s, m) ==
  /\ s \in fw..lw /\ m \in fw..Target /\ Expr(s) # Star
  /\ \A y \in m..NL : Goes(expr, name, fw, s, fw, y)

Left(e, x, s, m) ==
  \/ Goes(expr, name, e, pe, x, Target)
  \/ s # NoStar /\ \E y \in (m + 1)..Target : Goes(expr, name, s, pe, y, Target)

GreedyAt(e, x, s, m) ==
  /\ e \in SinceOf(s)..pe /\ x \in MarkOf(s, m)..Target
  /\ \A k \in SinceOf(s)..(e - 1) : Expr(k) # Star
  /\ Goes(expr, name, SinceOf(s), e, MarkOf(s, m), x)
  /\ s # NoStar => LastStar(s, m)
  /\ Matches(query) => Left(e, x, s, m)

ColumnAt(e, d, before) ==
  /\ e \in fw..pe /\ d = Reach(e)
  /\ e > fw => d = Led(before, Expr(e - 1))

Below(S, x) == {y \in S : y < x}
Above(S, x) == {y \in S : y >= x}
Carry(b, x) == IF b THEN {x} ELSE {}

ShiftAt(e, d, before, x, b, lives) ==
  /\ e \in fw..lw /\ Expr(e) \notin {Star, DosStar} /\ before = Reach(e)
  /\ Above(d, x) = Above(before, x)
  /\ Below(d, x) \union Carry(b, x) = Led(Below(before, x), Expr(e))
  /\ lives <=> Below(d, x) # {}

NameInv ==
  /\ NameTypeOK
  /\ place \in {"entry", "body"} => star = NoStar
  /\ verdict = IF place = "done" THEN Matches(query) ELSE Undecided
  /\ place = "body" => InBody
  /\ place \in {"greedy", "column", "shift"} => InMiddle
  /\ place = "greedy" => ~HasDos /\ GreedyAt(ep, np, star, mark)
  /\ place = "column" => HasDos /\ ColumnAt(ep, D, Dwas)
  /\ place = "shift" => HasDos /\ ShiftAt(ep, D, Dwas, w * Bits, bit, alive)

LEMMA SameText ==
  ASSUME query' = query
  PROVE  /\ expr' = expr /\ name' = name /\ PL' = PL /\ NL' = NL /\ Wilds' = Wilds /\ fw' = fw
         /\ lw' = lw /\ pe' = pe /\ Target' = Target /\ (HasDos' <=> HasDos) /\ Words' = Words
         /\ Matches(query)' = Matches(query)
<1>1. expr' = expr /\ name' = name
  BY DEF expr, name
<1>2. PL' = PL /\ NL' = NL
  BY <1>1 DEF PL, NL
<1>3. Wilds' = Wilds
  BY <1>1, <1>2 DEF Wilds, Expr
<1>4. fw' = fw /\ lw' = lw
  BY <1>3 DEF fw, lw
<1>5. pe' = pe /\ Target' = Target /\ Words' = Words
  BY <1>2, <1>4 DEF pe, Target, SL, Words
<1>6. HasDos' <=> HasDos
  BY <1>1, <1>3 DEF HasDos, Expr
<1> QED BY <1>1, <1>2, <1>3, <1>4, <1>5, <1>6

LEMMA TypeIs ==
  ASSUME NameInv
  PROVE  /\ query \in Queries /\ PL \in Nat /\ NL \in Nat /\ Len(expr) = PL /\ Len(name) = NL
         /\ ep \in 0..PL /\ np \in 0..NL /\ star \in 0..PL \union {NoStar} /\ mark \in 0..NL
         /\ D \subseteq 0..NL /\ Dwas \subseteq 0..NL /\ bit \in BOOLEAN /\ alive \in BOOLEAN
         /\ Words \in Nat /\ w \in 0..Words /\ Bits \in Nat \ {0}
<1>1. query \in Queries
  BY DEF NameInv, NameTypeOK
<1>2. Bits \in Nat \ {0}
  BY NamesAssumption
<1>3. PL \in Nat /\ NL \in Nat /\ Len(expr) = PL /\ Len(name) = NL
  BY <1>1, TextsIs
<1>4. Words \in Nat
  BY <1>2, <1>3 DEF Words
<1> QED BY <1>1, <1>2, <1>3, <1>4 DEF NameInv, NameTypeOK

LEMMA MiddleIs ==
  ASSUME NameInv, InMiddle
  PROVE  /\ fw \in Nat /\ lw \in Nat /\ pe \in Nat /\ pe = lw + 1 /\ fw <= lw /\ lw < PL
         /\ NL \in Nat /\ Len(name) = NL /\ PL \in Nat /\ Len(expr) = PL
         /\ Target \in Nat /\ fw <= Target /\ Target <= NL
<1>1. query \in Queries
  BY TypeIs
<1>2. Wilds # {} /\ Target \in fw..NL
  BY DEF InMiddle
<1> QED BY <1>1, <1>2, WildsIs, TypeIs

(* A verdict ends the call.                                                *)
LEMMA SaysKeeps ==
  ASSUME NameInv, query' = query, NEW b \in BOOLEAN, b <=> Matches(query), Says(b),
         UNCHANGED <<ep, np, star, mark, D, Dwas, w, bit, alive>>
  PROVE  NameInv'
<1>1. b = Matches(query)
  BY VerdictIs
<1>2. place' = "done" /\ verdict' = b
  BY DEF Says
<1>3. NameTypeOK'
  BY <1>2, SameText DEF NameInv, NameTypeOK
<1> QED BY <1>1, <1>2, <1>3, SameText DEF NameInv

(* On to the next characters, greedily, or to the next column.             *)
LEMMA ToGreedy ==
  ASSUME NameInv, InMiddle, ~HasDos, query' = query, verdict' = Undecided, place' = "greedy",
         NEW e, NEW x, NEW s \in 0..PL \union {NoStar}, NEW m \in 0..NL, GreedyAt(e, x, s, m),
         ep' = e, np' = x, star' = s, mark' = m,
         D' \subseteq 0..NL, Dwas' \subseteq 0..NL, UNCHANGED <<w, bit, alive>>
  PROVE  NameInv'
<1>1. e \in 0..PL /\ x \in 0..NL
  BY MiddleIs DEF GreedyAt, LastStar, SinceOf, MarkOf
<1>2. NameTypeOK'
  BY <1>1, SameText DEF NameInv, NameTypeOK
<1>3. InMiddle'
  BY SameText DEF InMiddle
<1>4. GreedyAt(ep, np, star, mark)'
  BY SameText DEF GreedyAt, LastStar, Left, SinceOf, MarkOf, Expr
<1> QED BY <1>2, <1>3, <1>4, SameText DEF NameInv

LEMMA ToColumn ==
  ASSUME NameInv, InMiddle, HasDos, query' = query, verdict' = Undecided, place' = "column",
         NEW e, NEW d, NEW before, before \subseteq 0..NL, ColumnAt(e, d, before),
         ep' = e, D' = d, Dwas' = before,
         np' \in 0..NL, w' \in 0..Words, bit' \in BOOLEAN, alive' \in BOOLEAN, UNCHANGED <<star, mark>>
  PROVE  NameInv'
<1>1. e \in 0..PL /\ d \subseteq 0..NL
  BY MiddleIs DEF ColumnAt, Reach
<1>2. NameTypeOK'
  BY <1>1, SameText DEF NameInv, NameTypeOK
<1>3. InMiddle'
  BY SameText DEF InMiddle
<1>4. ColumnAt(ep, D, Dwas)'
  BY SameText DEF ColumnAt, Reach, Led, Expr
<1> QED BY <1>2, <1>3, <1>4, SameText DEF NameInv

LEMMA ToShift ==
  ASSUME NameInv, InMiddle, HasDos, query' = query, verdict' = Undecided, place' = "shift",
         NEW k \in 0..Words, NEW d, NEW before, d \subseteq 0..NL, before \subseteq 0..NL,
         NEW b \in BOOLEAN, NEW lives \in BOOLEAN, ShiftAt(ep, d, before, k * Bits, b, lives),
         D' = d, Dwas' = before, w' = k, bit' = b, alive' = lives, UNCHANGED <<ep, np, star, mark>>
  PROVE  NameInv'
<1>1. NameTypeOK'
  BY SameText DEF NameInv, NameTypeOK
<1>2. InMiddle'
  BY SameText DEF InMiddle
<1>3. ShiftAt(ep, D, Dwas, w * Bits, bit, alive)'
  BY SameText DEF ShiftAt, Reach, Led, Expr, Below, Above, Carry
<1> QED BY <1>1, <1>2, <1>3, SameText DEF NameInv
-----------------------------------------------------------------------------
(* The shapes.                                                             *)
LEMMA InitHolds == ASSUME NameInit PROVE NameInv
<1>1. query \in Queries /\ star = NoStar
  BY DEF NameInit
<1>2. PL \in Nat /\ NL \in Nat /\ Words \in Nat
  <2>1. PL \in Nat /\ NL \in Nat
    BY <1>1, TextsIs
  <2>2. Bits \in Nat \ {0}
    BY NamesAssumption
  <2> QED BY <2>1, <2>2 DEF Words
<1>3. 0 \in 0..PL /\ 0 \in 0..NL /\ 0 \in 0..Words
  BY <1>2
<1>4. NameTypeOK
  BY <1>1, <1>3 DEF NameInit, NameTypeOK
<1> QED BY <1>4 DEF NameInit, NameInv

LEMMA DispatchKeeps == ASSUME NameInv, Dispatch PROVE NameInv'
<1>1. query \in Queries /\ PL \in Nat /\ NL \in Nat
  BY TypeIs
<1>2. query' = query /\ UNCHANGED <<ep, np, star, mark, D, Dwas, w, bit, alive>> /\ place = "entry"
  BY DEF Dispatch, greedy, shift
<1>3. CASE NL = 0
  <2>1. Says(PL = 0) /\ (PL = 0) \in BOOLEAN
    BY <1>3 DEF Dispatch
  <2> QED BY <1>1, <1>2, <1>3, <2>1, NothingMatches, SaysKeeps
<1>4. CASE NL > 0 /\ PL = 0
  <2>1. Says(FALSE)
    <3>1. NL # 0
      BY <1>1, <1>4
    <3> QED BY <1>4, <3>1, Zenon DEF Dispatch
  <2> QED BY <1>1, <1>2, <1>4, <2>1, NoneMatches, SaysKeeps
<1>5. CASE NL > 0 /\ PL > 0 /\ Expr(0) = Star /\ PL = 1
  <2>1. Says(TRUE)
    <3>1. NL # 0 /\ PL # 0
      BY <1>1, <1>5
    <3> QED BY <1>5, <3>1, Zenon DEF Dispatch
  <2> QED BY <1>1, <1>2, <1>5, <2>1, StarMatches, SaysKeeps
<1>6. CASE NL > 0 /\ PL > 0 /\ ~(Expr(0) = Star /\ PL = 1) /\ Expr(0) \notin Wild /\ Expr(0) # Name(0)
  <2>1. Says(FALSE)
    <3>1. NL # 0 /\ PL # 0
      BY <1>1, <1>6
    <3> QED BY <1>6, <3>1, Zenon DEF Dispatch
  <2> QED BY <1>1, <1>2, <1>6, <2>1, FirstMatches, SaysKeeps
<1>7. CASE NL > 0 /\ PL > 0 /\ ~(Expr(0) = Star /\ PL = 1) /\ ~(Expr(0) \notin Wild /\ Expr(0) # Name(0))
  <2>1. place' = "body" /\ verdict' = verdict
    <3>1. NL # 0 /\ PL # 0
      BY <1>1, <1>7
    <3> QED BY <1>7, <3>1, Zenon DEF Dispatch
  <2>2. NameTypeOK'
    BY <1>2, <2>1, SameText DEF NameInv, NameTypeOK
  <2>3. InBody'
    BY <1>2, <1>7, SameText DEF InBody, Expr
  <2> QED BY <1>2, <2>1, <2>2, <2>3 DEF NameInv
<1> QED BY <1>1, <1>3, <1>4, <1>5, <1>6, <1>7

LEMMA FastSuffixKeeps == ASSUME NameInv, FastSuffix PROVE NameInv'
<1>1. query \in Queries /\ PL \in Nat /\ NL \in Nat
  BY TypeIs
<1>2. query' = query /\ UNCHANGED <<ep, np, star, mark, D, Dwas, w, bit, alive>>
  BY DEF FastSuffix, greedy, shift
<1>3. PICK b \in BOOLEAN : /\ b = (Floor >= PL - 1 /\ SubSeq(name, (Floor - PL) + 2, Floor) = Tail(expr))
                           /\ Says(b)
  BY DEF FastSuffix
<1>4. StarSuffix(expr)
  <2>1. InBody /\ Wilds = {0} /\ Expr(0) = Star
    BY DEF FastSuffix, NameInv
  <2>2. PL >= 2
    BY <1>1, <2>1 DEF InBody
  <2> QED BY <1>1, <2>1, <2>2, StarSuffixIs
<1> QED BY <1>1, <1>2, <1>3, <1>4, SuffixMatches, SaysKeeps

LEMMA ExactCompareKeeps == ASSUME NameInv, ExactCompare PROVE NameInv'
<1>1. query \in Queries /\ InBody /\ Wilds = {} /\ Says(expr = name) /\ NL > 0
  BY TypeIs DEF ExactCompare, NameInv, InBody
<1>2. query' = query /\ UNCHANGED <<ep, np, star, mark, D, Dwas, w, bit, alive>>
  BY DEF ExactCompare, greedy, shift
<1>3. (expr = name) \in BOOLEAN
  OBVIOUS
<1> QED BY <1>1, <1>2, <1>3, ExactMatches, SaysKeeps

LEMMA AnchorKeeps == ASSUME NameInv, Anchor PROVE NameInv'
<1>1. /\ query \in Queries /\ PL \in Nat /\ NL \in Nat /\ Len(name) = NL /\ star = NoStar
      /\ mark \in 0..NL /\ place = "body" /\ verdict = Undecided /\ InBody /\ NL > 0
  BY TypeIs DEF Anchor, NameInv, InBody
<1>2. query' = query /\ UNCHANGED <<star, mark, w, bit, alive>> /\ Wilds # {}
      /\ ~(Wilds = {0} /\ Expr(0) = Star)
  BY DEF Anchor, greedy
<1>3. ~StarSuffix(expr)
  BY <1>1, <1>2, StarSuffixIs
<1>4. CASE ~Anchored
  <2>1. Says(FALSE) /\ UNCHANGED <<ep, np, D, Dwas>>
    BY <1>4 DEF Anchor
  <2> QED BY <1>1, <1>2, <1>3, <1>4, <2>1, AnchoredMatches, SaysKeeps
<1>5. CASE Anchored
  <2>1. /\ ep' = fw /\ np' = fw /\ verdict' = Undecided /\ D' = {fw} /\ Dwas' = {fw}
        /\ place' = IF HasDos THEN "column" ELSE "greedy"
    BY <1>1, <1>5 DEF Anchor
  <2>2. InMiddle
    BY <1>1, <1>2, <1>3, <1>5, AnchoredMatches DEF InMiddle
  <2>3. /\ fw \in Nat /\ fw <= Target /\ Target \in Nat /\ Target <= NL /\ fw <= lw /\ pe = lw + 1
        /\ lw \in Nat
    BY <2>2, MiddleIs
  <2>4. fw \in 0..NL /\ {fw} \subseteq 0..NL /\ fw \in fw..pe /\ fw \in fw..Target
    BY <1>1, <2>3
  <2>5. CASE HasDos
    <3>1. ColumnAt(fw, {fw}, {fw})
      <4>1. Reach(fw) = {fw}
        BY <1>1, <1>2, <2>3, ReachFirst
      <4>2. ~(fw > fw)
        BY <2>3
      <4> QED BY <2>4, <4>1, <4>2 DEF ColumnAt
    <3>2. w' \in 0..Words /\ bit' \in BOOLEAN /\ alive' \in BOOLEAN
      BY <1>2, TypeIs
    <3> QED BY <1>2, <2>1, <2>2, <2>4, <2>5, <3>1, <3>2, ToColumn
  <2>6. CASE ~HasDos
    <3>1. SinceOf(NoStar) = fw /\ MarkOf(NoStar, mark) = fw /\ \A k : k \notin fw..(fw - 1)
      BY <2>3 DEF SinceOf, MarkOf
    <3>2. Goes(expr, name, fw, fw, fw, fw)
      BY <2>3, GoesNowhere
    <3>3. Matches(query) => Left(fw, fw, NoStar, mark)
      BY <2>2 DEF InMiddle, Left
    <3>4. GreedyAt(fw, fw, NoStar, mark)
      BY <2>4, <3>1, <3>2, <3>3 DEF GreedyAt
    <3> QED BY <1>1, <1>2, <2>1, <2>2, <2>4, <2>6, <3>4, ToGreedy
  <2> QED BY <2>5, <2>6
<1> QED BY <1>4, <1>5
-----------------------------------------------------------------------------
(* Greedy.                                                                 *)
LEMMA NoDos ==
  ASSUME query \in Queries, ~HasDos, NEW k \in 0..(PL - 1)
  PROVE  At(expr, k) \notin Dos
  BY DEF HasDos, Wilds, Wild, Expr

LEMMA GreedyIs ==
  ASSUME NameInv, place = "greedy", NEW from, from = SinceOf(star), NEW m, m = MarkOf(star, mark)
  PROVE  /\ InMiddle /\ ~HasDos /\ GreedyAt(ep, np, star, mark) /\ verdict = Undecided
         /\ ep \in Nat /\ np \in Nat /\ from \in Nat /\ m \in Nat
         /\ fw <= from /\ from <= ep /\ ep <= pe /\ fw <= m /\ m <= np /\ np <= Target
         /\ Single(expr, from, ep) /\ Goes(expr, name, from, ep, m, np) /\ np = m + (ep - from)
         /\ Goes(expr, name, fw, ep, fw, np)
<1>1. query \in Queries /\ InMiddle /\ ~HasDos /\ GreedyAt(ep, np, star, mark) /\ verdict = Undecided
  BY TypeIs DEF NameInv
<1>2. /\ fw \in Nat /\ lw \in Nat /\ pe \in Nat /\ pe = lw + 1 /\ fw <= lw /\ lw < PL
      /\ NL \in Nat /\ Len(name) = NL /\ PL \in Nat /\ Target \in Nat /\ Target <= NL
  BY <1>1, MiddleIs
<1>3. from \in fw..lw /\ m \in fw..Target
  BY <1>1, <1>2, MiddleIs DEF GreedyAt, LastStar, SinceOf, MarkOf
<1>4. ep \in from..pe /\ np \in m..Target /\ Goes(expr, name, from, ep, m, np)
      /\ \A k \in from..(ep - 1) : Expr(k) # Star
  BY <1>1 DEF GreedyAt
<1>5. /\ ep \in Nat /\ np \in Nat /\ from \in Nat /\ m \in Nat
      /\ fw <= from /\ from <= ep /\ ep <= pe /\ fw <= m /\ m <= np /\ np <= Target
  BY <1>2, <1>3, <1>4
<1>6. Single(expr, from, ep)
  <2>1. \A k \in from..(ep - 1) : k \in 0..(PL - 1)
    BY <1>2, <1>5
  <2> QED BY <1>1, <1>4, <2>1, NoDos DEF Single, Expr
<1>7. np = m + (ep - from)
  BY <1>2, <1>4, <1>5, <1>6, InStep
<1>8. Goes(expr, name, fw, ep, fw, np)
  <2>1. CASE star = NoStar
    <3>1. from = fw /\ m = fw
      BY <2>1 DEF SinceOf, MarkOf
    <3> QED BY <1>4, <3>1
  <2>2. CASE star # NoStar
    <3>1. from = star /\ m = mark /\ m \in m..NL
      BY <1>2, <1>3, <2>2 DEF SinceOf, MarkOf
    <3>2. Goes(expr, name, fw, from, fw, m)
      BY <1>1, <2>2, <3>1 DEF GreedyAt, LastStar
    <3> QED BY <1>2, <1>4, <1>5, <3>2, GoesJoin
  <2> QED BY <2>1, <2>2
<1> QED BY <1>1, <1>4, <1>5, <1>6, <1>7, <1>8

(* A match with more for the last star is ahead of the name.               *)
LEMMA LaterIs ==
  ASSUME NameInv, place = "greedy", star # NoStar, NEW y \in (mark + 1)..Target,
         Goes(expr, name, star, pe, y, Target)
  PROVE  \E z \in (np + 1)..Target : Goes(expr, name, ep, pe, z, Target)
<1>1. SinceOf(star) = star /\ MarkOf(star, mark) = mark
  BY DEF SinceOf, MarkOf
<1>2. /\ InMiddle /\ ep \in Nat /\ np \in Nat /\ star \in Nat /\ mark \in Nat
      /\ star <= ep /\ ep <= pe /\ Single(expr, star, ep) /\ np = mark + (ep - star)
  BY <1>1, GreedyIs
<1>3. NL \in Nat /\ Len(name) = NL /\ pe \in Nat /\ Target \in Nat /\ y \in Nat /\ mark + 1 <= y
  BY <1>2, MiddleIs
<1>4. PICK z \in Nat : Goes(expr, name, star, ep, y, z) /\ Goes(expr, name, ep, pe, z, Target)
  BY <1>2, <1>3, GoesCut
<1>5. z = y + (ep - star)
  BY <1>2, <1>3, <1>4, InStep
<1>6. z <= Target
  BY <1>2, <1>3, <1>4, GoesUp
<1>7. z \in (np + 1)..Target
  BY <1>2, <1>3, <1>5, <1>6
<1> QED BY <1>4, <1>7

LEMMA AdvanceKeeps == ASSUME NameInv, Advance PROVE NameInv'
<1>1. PICK from, m : from = SinceOf(star) /\ m = MarkOf(star, mark)
  OBVIOUS
<1>2. place = "greedy" /\ np # Target /\ ep # pe
  BY DEF Advance
<1>3. /\ InMiddle /\ ~HasDos /\ GreedyAt(ep, np, star, mark) /\ verdict = Undecided
      /\ ep \in Nat /\ np \in Nat /\ from \in Nat /\ m \in Nat
      /\ fw <= from /\ from <= ep /\ ep <= pe /\ m <= np /\ np <= Target
      /\ Goes(expr, name, from, ep, m, np)
  BY <1>1, <1>2, GreedyIs
<1>4. /\ NL \in Nat /\ Len(name) = NL /\ pe \in Nat /\ pe = lw + 1 /\ lw < PL /\ PL \in Nat /\ lw \in Nat
      /\ Target \in Nat /\ Target <= NL /\ query \in Queries
  BY <1>3, MiddleIs, TypeIs
<1>5. ep < pe /\ np < Target /\ np < NL /\ ep + 1 \in from..pe /\ np + 1 \in m..Target /\ ep \in 0..(PL - 1)
  BY <1>2, <1>3, <1>4
<1>6. At(expr, ep) # Star /\ At(expr, ep) \notin Dos /\ (At(expr, ep) = Any \/ At(expr, ep) = At(name, np))
  <2>1. Expr(ep) = Any \/ (Expr(ep) # Star /\ Expr(ep) = Name(np))
    BY DEF Advance
  <2>2. Any # Star
    BY DEF Any, Star
  <2> QED BY <1>3, <1>4, <1>5, <2>1, <2>2, NoDos DEF Expr, Name
<1>7. \A y \in Nat : Takes(At(expr, ep), name, np, y) <=> y = np + 1
  BY <1>3, <1>4, <1>5, <1>6, TakesSingle
<1>8. Goes(expr, name, from, ep + 1, m, np + 1)
  <2>1. np + 1 \in Nat /\ Takes(At(expr, ep), name, np, np + 1)
    BY <1>3, <1>7
  <2> QED BY <1>3, <1>4, <2>1, GoesBack
<1>9. ASSUME Goes(expr, name, ep, pe, np, Target) PROVE Goes(expr, name, ep + 1, pe, np + 1, Target)
  <2>1. PICK y \in Nat : Takes(At(expr, ep), name, np, y) /\ Goes(expr, name, ep + 1, pe, y, Target)
    BY <1>3, <1>4, <1>5, <1>9, GoesFront
  <2> QED BY <1>7, <2>1
<1>10. \A k \in from..((ep + 1) - 1) : Expr(k) # Star
  <2>1. \A k \in from..((ep + 1) - 1) : k \in from..(ep - 1) \/ k = ep
    BY <1>3
  <2> QED BY <1>1, <1>3, <1>6, <2>1 DEF GreedyAt, Expr
<1>11. Matches(query) => Left(ep + 1, np + 1, star, mark)
  BY <1>3, <1>9 DEF GreedyAt, Left
<1>12. GreedyAt(ep + 1, np + 1, star, mark)
  BY <1>1, <1>3, <1>5, <1>8, <1>10, <1>11 DEF GreedyAt
<1>13. /\ ep' = ep + 1 /\ np' = np + 1 /\ query' = query /\ verdict' = Undecided /\ place' = "greedy"
       /\ UNCHANGED <<star, mark, D, Dwas, w, bit, alive>>
  BY <1>2, <1>3 DEF Advance, greedy, shift
<1>14. star \in 0..PL \union {NoStar} /\ mark \in 0..NL /\ D' \subseteq 0..NL /\ Dwas' \subseteq 0..NL
  BY <1>13, TypeIs
<1> QED BY <1>3, <1>12, <1>13, <1>14, ToGreedy

(* A jump to where the next literal is, or to the end of what is possible. *)
LEMMA JumpKeeps ==
  ASSUME NameInv, InMiddle, ~HasDos, verdict = Undecided, place = "greedy",
         NEW s \in fw..lw, Expr(s) # Star, NEW from \in fw..Target,
         \A y \in from..NL : Goes(expr, name, fw, s, fw, y),
         Matches(query) => \E y \in from..Target : Goes(expr, name, s, pe, y, Target),
         query' = query, UNCHANGED <<D, Dwas, w, bit, alive>>, Jump(s, from)
  PROVE  NameInv'
<1> DEFINE hits == {x \in from..(Target - 1) : Name(x) = Expr(s)}
<1>1. /\ NL \in Nat /\ Len(name) = NL /\ fw \in Nat /\ pe \in Nat /\ pe = lw + 1 /\ lw < PL /\ PL \in Nat
      /\ lw \in Nat /\ Target \in Nat /\ Target <= NL /\ query \in Queries /\ fw <= Target
  BY MiddleIs, TypeIs
<1>2. s \in Nat /\ from \in Nat /\ s < pe /\ s \in 0..(PL - 1) /\ s # NoStar /\ s \in s..pe
      /\ \A k : k \notin s..(s - 1)
  BY <1>1 DEF NoStar
<1>3. At(expr, s) # Star /\ At(expr, s) \notin Dos
  BY <1>1, <1>2, NoDos DEF Expr
<1>4. SinceOf(s) = s /\ \A m : MarkOf(s, m) = m
  BY <1>2 DEF SinceOf, MarkOf
<1>5. ASSUME NEW x \in from..Target,
             Matches(query) => \E y \in x..Target : Goes(expr, name, s, pe, y, Target),
             ep' = s, np' = x, star' = s, mark' = x, UNCHANGED <<verdict, place>>
      PROVE  NameInv'
  <2>1. x \in Nat /\ x \in x..Target /\ x \in fw..Target /\ x \in 0..NL /\ s \in 0..PL \union {NoStar}
    BY <1>1, <1>2
  <2>2. Goes(expr, name, s, s, x, x)
    BY <1>2, <2>1, GoesNowhere
  <2>3. LastStar(s, x)
    <3>1. \A y \in x..NL : y \in from..NL
      BY <1>1, <1>2
    <3> QED BY <2>1, <3>1 DEF LastStar
  <2>4. Matches(query) => Left(s, x, s, x)
    <3>1. \A y \in x..Target : y = x \/ y \in (x + 1)..Target
      BY <2>1
    <3> QED BY <1>2, <1>5, <3>1 DEF Left
  <2>5. GreedyAt(s, x, s, x)
    BY <1>2, <1>4, <2>1, <2>2, <2>3, <2>4 DEF GreedyAt
  <2>6. D' \subseteq 0..NL /\ Dwas' \subseteq 0..NL /\ verdict' = Undecided /\ place' = "greedy"
    BY <1>5, TypeIs
  <2> QED BY <1>5, <2>1, <2>5, <2>6, ToGreedy
<1>6. CASE Expr(s) = Any
  <2>1. ep' = s /\ np' = from /\ star' = s /\ mark' = from /\ UNCHANGED <<verdict, place>>
    BY <1>6 DEF Jump
  <2>2. from \in from..Target
    BY <1>1
  <2> QED BY <1>5, <2>1, <2>2
<1>7. CASE Expr(s) # Any
  <2>1. ASSUME NEW y \in from..Target, Goes(expr, name, s, pe, y, Target) PROVE y \in hits
    <3>1. y \in Nat
      BY <1>1
    <3>2. PICK z \in Nat : Takes(At(expr, s), name, y, z) /\ Goes(expr, name, s + 1, pe, z, Target)
      BY <1>1, <1>2, <2>1, <3>1, GoesFront
    <3>3. z = y + 1 /\ At(expr, s) = At(name, y)
      BY <1>3, <1>7, <3>1, <3>2, TakesSingle DEF Expr
    <3>4. z <= Target
      BY <1>1, <1>2, <3>2, GoesUp
    <3>5. y \in from..(Target - 1)
      BY <1>1, <3>3, <3>4
    <3> QED BY <3>3, <3>5 DEF Name, Expr
  <2>2. CASE hits # {}
    <3>1. hits \subseteq Nat
      BY <1>1, <1>2
    <3>2. PICK x \in hits : x = LeastIn(hits) /\ \A y \in hits : x <= y
      <4> HIDE DEF hits
      <4> QED BY <2>2, <3>1, LeastInIs
    <3>3. x \in from..Target
      BY <1>1
    <3>4. ep' = s /\ np' = x /\ star' = s /\ mark' = x /\ UNCHANGED <<verdict, place>>
      BY <1>7, <2>2, <3>2 DEF Jump
    <3>5. \A y \in from..Target : y \in hits => y \in x..Target
      <4>1. TAKE y \in from..Target
      <4>2. HAVE y \in hits
      <4>3. x <= y /\ y \in Nat /\ x \in Nat
        <5> HIDE DEF hits
        <5> QED BY <3>1, <3>2, <4>2
      <4> QED BY <1>1, <4>3
    <3> HIDE DEF hits
    <3> QED BY <1>5, <2>1, <3>3, <3>4, <3>5
  <2>3. CASE hits = {}
    <3>1. Says(FALSE) /\ UNCHANGED <<ep, np, star, mark>>
      BY <1>7, <2>3 DEF Jump, greedy
    <3>2. ~Matches(query)
      <4> HIDE DEF hits
      <4> QED BY <2>1, <2>3
    <3> QED BY <3>1, <3>2, SaysKeeps
  <2> QED BY <2>2, <2>3
<1> QED BY <1>6, <1>7
LEMMA StarRunKeeps == ASSUME NameInv, StarRun PROVE NameInv'
<1> DEFINE behind == {x \in ep..pe : x = pe \/ Expr(x) # Star}
<1>1. /\ place = "greedy" /\ np # Target /\ ep # pe /\ Expr(ep) = Star
      /\ query' = query /\ UNCHANGED <<D, Dwas, w, bit, alive>>
  BY DEF StarRun, shift
<1>2. /\ InMiddle /\ ~HasDos /\ GreedyAt(ep, np, star, mark) /\ verdict = Undecided
      /\ ep \in Nat /\ np \in Nat /\ fw <= ep /\ ep <= pe /\ fw <= np /\ np <= Target
      /\ Goes(expr, name, fw, ep, fw, np)
  <2>1. PICK from, m : from = SinceOf(star) /\ m = MarkOf(star, mark)
    OBVIOUS
  <2>2. /\ InMiddle /\ ~HasDos /\ GreedyAt(ep, np, star, mark) /\ verdict = Undecided
        /\ ep \in Nat /\ np \in Nat /\ from \in Nat /\ m \in Nat
        /\ fw <= from /\ from <= ep /\ ep <= pe /\ fw <= m /\ m <= np /\ np <= Target
        /\ Goes(expr, name, fw, ep, fw, np)
    BY <1>1, <2>1, GreedyIs
  <2>3. fw \in Nat /\ Target \in Nat
    BY <2>2, MiddleIs
  <2>4. fw <= ep /\ fw <= np
    BY <2>2, <2>3
  <2> QED BY <2>2, <2>4
<1>3. /\ NL \in Nat /\ Len(name) = NL /\ fw \in Nat /\ pe \in Nat /\ pe = lw + 1 /\ lw \in Nat
      /\ Target \in Nat /\ Target <= NL
  BY <1>2, MiddleIs
<1>4. PICK s \in behind : s = LeastIn(behind) /\ \A y \in behind : s <= y
  <2>1. behind \subseteq Nat /\ pe \in behind
    BY <1>2, <1>3
  <2> HIDE DEF behind
  <2> QED BY <2>1, LeastInIs
<1>5. s \in Nat /\ ep <= s /\ s <= pe /\ s # ep
  BY <1>1, <1>2, <1>3
<1>6. ASSUME NEW k \in ep..(s - 1) PROVE At(expr, k) = Star
  <2>1. k \in ep..pe /\ k # pe /\ ~(s <= k)
    BY <1>2, <1>3, <1>5
  <2>2. k \notin behind
    <3> HIDE DEF behind
    <3> QED BY <1>4, <2>1
  <2> QED BY <2>1, <2>2 DEF Expr
<1>7. ASSUME NEW y \in np..NL PROVE Goes(expr, name, fw, s, fw, y)
  <2>1. y \in Nat /\ np <= y /\ y <= NL /\ ep < s
    BY <1>2, <1>3, <1>5
  <2>2. Goes(expr, name, ep, s, np, y)
    BY <1>2, <1>3, <1>5, <1>6, <2>1, StarsGo
  <2> QED BY <1>2, <1>3, <1>5, <2>2, GoesJoin
<1>8. CASE s = pe
  <2>1. Says(TRUE) /\ UNCHANGED <<ep, np, star, mark>>
    BY <1>4, <1>8 DEF StarRun, greedy
  <2>2. Target \in np..NL
    BY <1>2, <1>3
  <2>3. Matches(query)
    BY <1>2, <1>7, <1>8, <2>2 DEF InMiddle
  <2> QED BY <1>1, <2>1, <2>3, SaysKeeps
<1>9. CASE s # pe
  <2>1. Jump(s, np)
    BY <1>4, <1>9 DEF StarRun
  <2>2. s \in fw..lw /\ Expr(s) # Star /\ np \in fw..Target
    BY <1>2, <1>3, <1>5, <1>9
  <2>3. ASSUME NEW x \in Nat, np <= x, Goes(expr, name, ep, pe, x, Target)
        PROVE  \E y \in np..Target : Goes(expr, name, s, pe, y, Target)
    <3>1. PICK y \in Nat : Goes(expr, name, ep, s, x, y) /\ Goes(expr, name, s, pe, y, Target)
      BY <1>2, <1>3, <1>5, <2>3, GoesCut
    <3>2. x <= y /\ y <= Target
      BY <1>2, <1>3, <1>5, <2>3, <3>1, GoesUp
    <3>3. y \in np..Target
      BY <1>2, <1>3, <2>3, <3>2
    <3> QED BY <3>1, <3>3
  <2>4. ASSUME Matches(query) PROVE \E y \in np..Target : Goes(expr, name, s, pe, y, Target)
    <3>1. CASE Goes(expr, name, ep, pe, np, Target)
      <4>1. np <= np
        BY <1>2
      <4> QED BY <1>2, <2>3, <3>1, <4>1
    <3>2. CASE star # NoStar /\ \E y \in (mark + 1)..Target : Goes(expr, name, star, pe, y, Target)
      <4>1. PICK z \in (np + 1)..Target : Goes(expr, name, ep, pe, z, Target)
        BY <1>1, <3>2, LaterIs
      <4>2. z \in Nat /\ np <= z
        BY <1>2, <1>3
      <4> QED BY <2>3, <4>1, <4>2
    <3> QED BY <1>2, <2>4, <3>1, <3>2 DEF GreedyAt, Left
  <2> HIDE DEF behind
  <2> QED BY <1>1, <1>2, <1>7, <2>1, <2>2, <2>4, JumpKeeps
<1> QED BY <1>8, <1>9

LEMMA BackKeeps == ASSUME NameInv, Back PROVE NameInv'
<1>1. /\ place = "greedy" /\ np # Target
      /\ ep # pe => Expr(ep) \notin {Star, Any} /\ Expr(ep) # Name(np)
      /\ query' = query /\ UNCHANGED <<D, Dwas, w, bit, alive>>
  BY DEF Back, shift
<1>2. PICK from, m : from = SinceOf(star) /\ m = MarkOf(star, mark)
  OBVIOUS
<1>3. /\ InMiddle /\ ~HasDos /\ GreedyAt(ep, np, star, mark) /\ verdict = Undecided
      /\ ep \in Nat /\ np \in Nat /\ m \in Nat /\ from \in Nat /\ fw <= from /\ from <= ep
      /\ ep <= pe /\ fw <= m /\ m <= np /\ np <= Target
  BY <1>1, <1>2, GreedyIs
<1>4. /\ NL \in Nat /\ Len(name) = NL /\ fw \in Nat /\ pe \in Nat /\ pe = lw + 1 /\ lw \in Nat
      /\ Target \in Nat /\ Target <= NL /\ PL \in Nat /\ lw < PL /\ query \in Queries
  BY <1>3, MiddleIs, TypeIs
<1>5. ~Goes(expr, name, ep, pe, np, Target)
  <2>1. CASE ep = pe
    <3>1. Goes(expr, name, ep, ep, np, Target) <=> np = Target
      BY <1>3, GoesNowhere
    <3> QED BY <1>1, <2>1, <3>1
  <2>2. CASE ep # pe
    <3>1. ep < pe /\ ep \in 0..(PL - 1)
      BY <1>3, <1>4, <2>2
    <3>2. At(expr, ep) # Star /\ At(expr, ep) # Any /\ At(expr, ep) # At(name, np) /\ At(expr, ep) \notin Dos
      BY <1>1, <1>3, <1>4, <2>2, <3>1, NoDos DEF Expr, Name
    <3>3. ASSUME NEW x \in Nat PROVE ~Takes(At(expr, ep), name, np, x)
      BY <1>3, <3>2, <3>3, TakesSingle
    <3>4. /\ Len(name) \in Nat /\ ep \in Nat /\ pe \in Nat /\ ep < pe /\ np \in Nat /\ Target \in Nat
      BY <1>3, <1>4, <3>1
    <3>5. Goes(expr, name, ep, pe, np, Target)
            <=> \E x \in Nat : Takes(At(expr, ep), name, np, x) /\ Goes(expr, name, ep + 1, pe, x, Target)
      BY <3>4, GoesFront
    <3> QED BY <3>3, <3>5
  <2> QED BY <2>1, <2>2
<1>6. CASE star = NoStar
  <2>1. Says(FALSE) /\ UNCHANGED <<ep, np, star, mark>>
    BY <1>6 DEF Back, greedy
  <2>2. ~Matches(query)
    BY <1>3, <1>5, <1>6 DEF GreedyAt, Left
  <2> QED BY <1>1, <2>1, <2>2, SaysKeeps
<1>7. CASE star # NoStar
  <2>1. Jump(star, More) /\ m = mark /\ LastStar(star, mark)
    BY <1>2, <1>3, <1>7 DEF Back, MarkOf, GreedyAt
  <2>2. More = mark + 1 /\ More \in fw..Target /\ mark \in Nat
    BY <1>1, <1>3, <1>4, <2>1 DEF More
  <2>3. star \in fw..lw /\ Expr(star) # Star
    BY <2>1 DEF LastStar
  <2>4. \A y \in More..NL : Goes(expr, name, fw, star, fw, y)
    <3>1. \A y \in More..NL : y \in mark..NL
      BY <1>4, <2>2
    <3> QED BY <2>1, <3>1 DEF LastStar
  <2>5. Matches(query) => \E y \in More..Target : Goes(expr, name, star, pe, y, Target)
    BY <1>3, <1>5, <2>2 DEF GreedyAt, Left
  <2> QED BY <1>1, <1>3, <2>1, <2>2, <2>3, <2>4, <2>5, JumpKeeps
<1> QED BY <1>6, <1>7

LEMMA GreedyTailKeeps == ASSUME NameInv, GreedyTail PROVE NameInv'
<1>1. /\ place = "greedy" /\ np = Target /\ Says(\A x \in ep..lw : Expr(x) = Star)
      /\ query' = query /\ UNCHANGED <<ep, np, star, mark, D, Dwas, w, bit, alive>>
  BY DEF GreedyTail, greedy, shift
<1>2. /\ InMiddle /\ ~HasDos /\ GreedyAt(ep, np, star, mark) /\ verdict = Undecided
      /\ ep \in Nat /\ np \in Nat /\ ep <= pe /\ Goes(expr, name, fw, ep, fw, np)
  BY <1>1, GreedyIs
<1>3. /\ NL \in Nat /\ Len(name) = NL /\ fw \in Nat /\ pe \in Nat /\ pe = lw + 1 /\ lw \in Nat
      /\ Target \in Nat /\ Target <= NL /\ PL \in Nat /\ lw < PL /\ query \in Queries /\ fw <= ep
  <2>1. fw <= ep
    <3>1. PICK from, m : from = SinceOf(star) /\ m = MarkOf(star, mark)
      OBVIOUS
    <3>2. fw <= from /\ from <= ep /\ from \in Nat
      BY <1>1, <3>1, GreedyIs
    <3> QED BY <1>2, <3>2, MiddleIs
  <2> QED BY <1>2, <2>1, MiddleIs, TypeIs
<1>4. \A y \in (np + 1)..Target : FALSE
  BY <1>1, <1>2
<1>5. Matches(query) => Goes(expr, name, ep, pe, Target, Target)
  <2>1. ASSUME star # NoStar, NEW y \in (mark + 1)..Target, Goes(expr, name, star, pe, y, Target)
        PROVE  FALSE
    BY <1>1, <1>4, <2>1, LaterIs
  <2> QED BY <1>1, <1>2, <2>1 DEF GreedyAt, Left
<1>6. ASSUME \A x \in ep..lw : Expr(x) = Star PROVE Matches(query)
  <2>1. Goes(expr, name, ep, pe, np, Target)
    <3>1. CASE ep = pe
      BY <1>1, <1>2, <3>1, GoesNowhere
    <3>2. CASE ep # pe
      <4>1. ep < pe /\ np <= Target /\ \A k \in ep..(pe - 1) : At(expr, k) = Star
        BY <1>1, <1>2, <1>3, <1>6, <3>2 DEF Expr
      <4> QED BY <1>2, <1>3, <4>1, StarsGo
    <3> QED BY <3>1, <3>2
  <2>2. Goes(expr, name, fw, pe, fw, Target)
    BY <1>2, <1>3, <2>1, GoesJoin
  <2> QED BY <1>2, <2>2 DEF InMiddle
<1>7. ASSUME Matches(query), NEW x \in ep..lw PROVE Expr(x) = Star
  <2>1. x \in ep..(pe - 1) /\ x \in 0..(PL - 1)
    BY <1>2, <1>3
  <2>2. Takes(At(expr, x), name, Target, Target)
    BY <1>2, <1>3, <1>5, <1>7, <2>1, Standing
  <2>3. At(expr, x) \notin Dos /\ Target # Target + 1
    BY <1>2, <1>3, <2>1, NoDos
  <2> QED BY <1>3, <2>2, <2>3, TakesSingle DEF Expr
<1>8. PICK b \in BOOLEAN : b = (\A x \in ep..lw : Expr(x) = Star)
  OBVIOUS
<1> QED BY <1>1, <1>6, <1>7, <1>8, SaysKeeps
-----------------------------------------------------------------------------
(* Columns.                                                                *)
LEMMA ColumnIs ==
  ASSUME NameInv, place = "column"
  PROVE  /\ InMiddle /\ HasDos /\ ColumnAt(ep, D, Dwas) /\ verdict = Undecided
         /\ ep \in Nat /\ fw <= ep /\ ep <= pe /\ D = Reach(ep)
         /\ \A i \in D : i \in Nat /\ i <= NL /\ Goes(expr, name, fw, ep, fw, i)
<1>1. InMiddle /\ HasDos /\ ColumnAt(ep, D, Dwas) /\ verdict = Undecided
  BY DEF NameInv
<1>2. ep \in fw..pe /\ D = Reach(ep) /\ fw \in Nat /\ pe \in Nat /\ NL \in Nat
  BY <1>1, MiddleIs DEF ColumnAt
<1>3. ep \in Nat /\ fw <= ep /\ ep <= pe
  BY <1>2
<1>4. \A i \in D : i \in Nat /\ i <= NL /\ Goes(expr, name, fw, ep, fw, i)
  BY <1>2 DEF Reach
<1> QED BY <1>1, <1>2, <1>3, <1>4

(* A match goes through every column.                                      *)
LEMMA ThroughColumn ==
  ASSUME NameInv, InMiddle, Matches(query), NEW k \in fw..pe
  PROVE  \E i \in Reach(k) : i <= Target /\ Goes(expr, name, k, pe, i, Target)
<1>1. /\ NL \in Nat /\ Len(name) = NL /\ fw \in Nat /\ pe \in Nat /\ Target \in Nat /\ Target <= NL
      /\ Goes(expr, name, fw, pe, fw, Target)
  BY MiddleIs DEF InMiddle
<1>2. k \in Nat /\ fw <= k /\ k <= pe
  BY <1>1
<1>3. PICK i \in Nat : Goes(expr, name, fw, k, fw, i) /\ Goes(expr, name, k, pe, i, Target)
  BY <1>1, <1>2, GoesCut
<1>4. i <= Target
  BY <1>1, <1>2, <1>3, GoesUp
<1>5. i \in 0..NL
  BY <1>1, <1>4
<1> QED BY <1>3, <1>4, <1>5 DEF Reach

LEMMA LastNonStar ==
  ASSUME query \in Queries, Wilds # {}, HasDos
  PROVE  lastns \in Nat /\ lastns <= lw /\ \A k \in (lastns + 1)..lw : At(expr, k) = Star
<1> DEFINE S == {x \in 0..lw : Expr(x) # Star}
<1>1. lw \in Nat /\ PL \in Nat
  BY TextsIs, WildsIs
<1>2. S # {}
  <2>1. PICK k \in Wilds : Expr(k) \in Dos
    BY DEF HasDos
  <2>2. k \in 0..lw
    <3>1. Wilds \subseteq 0..PL
      BY <1>1 DEF Wilds
    <3>2. k <= lw
      BY <1>1, <3>1, MostInIs DEF lw
    <3> QED BY <1>1, <3>1, <3>2
  <2>3. Expr(k) # Star
    BY <2>1 DEF Dos, Star, DosStar, DosAny, DosDot
  <2> QED BY <2>2, <2>3
<1>3. lastns \in S /\ \A y \in S : y <= lastns
  <2>1. S \subseteq 0..lw
    OBVIOUS
  <2> HIDE DEF S
  <2>2. MostIn(S) \in S /\ \A y \in S : y <= MostIn(S)
    BY <1>1, <1>2, <2>1, MostInIs
  <2> QED BY <2>2 DEF lastns, S
<1>4. lastns \in Nat /\ lastns <= lw
  BY <1>1, <1>3
<1>5. ASSUME NEW k \in (lastns + 1)..lw PROVE At(expr, k) = Star
  <2>1. k \in 0..lw /\ ~(k <= lastns)
    BY <1>1, <1>4
  <2> QED BY <1>3, <2>1 DEF Expr
<1> QED BY <1>4, <1>5

LEMMA ColumnEndKeeps == ASSUME NameInv, ColumnEnd PROVE NameInv'
<1>1. /\ place = "column" /\ ep > lw /\ Says(Target \in D)
      /\ query' = query /\ UNCHANGED <<ep, np, star, mark, D, Dwas, w, bit, alive>>
  BY DEF ColumnEnd, greedy, shift
<1>2. InMiddle /\ D = Reach(ep) /\ ep \in Nat /\ ep <= pe
  BY <1>1, ColumnIs
<1>3. /\ Target \in Nat /\ Target <= NL /\ NL \in Nat /\ lw \in Nat /\ pe = lw + 1
      /\ Matches(query) <=> Goes(expr, name, fw, pe, fw, Target)
  BY <1>2, MiddleIs DEF InMiddle
<1>4. ep = pe /\ Target \in 0..NL
  BY <1>1, <1>2, <1>3
<1>5. Target \in D <=> Matches(query)
  BY <1>2, <1>3, <1>4 DEF Reach
<1>6. (Target \in D) \in BOOLEAN
  OBVIOUS
<1> QED BY <1>1, <1>5, <1>6, SaysKeeps

LEMMA RestStarKeeps == ASSUME NameInv, RestStar PROVE NameInv'
<1>1. /\ place = "column" /\ ep <= lw /\ ep > lastns /\ Says(D # {} /\ LeastIn(D) <= Target)
      /\ query' = query /\ UNCHANGED <<ep, np, star, mark, D, Dwas, w, bit, alive>>
  BY DEF RestStar, greedy, shift
<1>2. /\ InMiddle /\ HasDos /\ D = Reach(ep) /\ ep \in Nat /\ fw <= ep /\ ep <= pe
      /\ \A i \in D : i \in Nat /\ i <= NL /\ Goes(expr, name, fw, ep, fw, i)
  BY <1>1, ColumnIs
<1>3. /\ NL \in Nat /\ Len(name) = NL /\ fw \in Nat /\ pe \in Nat /\ pe = lw + 1 /\ lw \in Nat
      /\ Target \in Nat /\ Target <= NL /\ query \in Queries /\ Wilds # {}
      /\ Matches(query) <=> Goes(expr, name, fw, pe, fw, Target)
  BY <1>2, MiddleIs, TypeIs DEF InMiddle
<1>4. \A k \in ep..(pe - 1) : At(expr, k) = Star
  <2>1. lastns \in Nat /\ \A k \in (lastns + 1)..lw : At(expr, k) = Star
    BY <1>2, <1>3, LastNonStar
  <2>2. \A k \in ep..(pe - 1) : k \in (lastns + 1)..lw
    BY <1>1, <1>2, <1>3, <2>1
  <2> QED BY <2>1, <2>2
<1>5. D \subseteq Nat
  BY <1>2
<1>6. ASSUME D # {}, LeastIn(D) <= Target PROVE Matches(query)
  <2>1. PICK i \in D : i = LeastIn(D)
    BY <1>5, <1>6, LeastInIs
  <2>2. i \in Nat /\ i <= Target /\ Goes(expr, name, fw, ep, fw, i) /\ ep < pe
    BY <1>1, <1>2, <1>3, <1>6, <2>1
  <2>3. Goes(expr, name, ep, pe, i, Target)
    BY <1>2, <1>3, <1>4, <2>2, StarsGo
  <2>4. Goes(expr, name, fw, pe, fw, Target)
    BY <1>2, <1>3, <2>2, <2>3, GoesJoin
  <2> QED BY <1>3, <2>4
<1>7. ASSUME Matches(query) PROVE D # {} /\ LeastIn(D) <= Target
  <2>1. ep \in fw..pe
    BY <1>2, <1>3
  <2>2. PICK i \in D : i <= Target
    BY <1>2, <1>7, <2>1, ThroughColumn
  <2>3. LeastIn(D) <= i /\ LeastIn(D) \in Nat /\ i \in Nat
    BY <1>5, <2>2, LeastInIs
  <2> QED BY <1>3, <2>2, <2>3
<1>8. PICK b \in BOOLEAN : b = (D # {} /\ LeastIn(D) <= Target)
  OBVIOUS
<1> QED BY <1>1, <1>6, <1>7, <1>8, SaysKeeps

LEMMA NextColumnKeeps ==
  ASSUME NameInv, place = "column", ep <= lastns, NEW S, D # {} => S = Led(D, Expr(ep)), NextColumn(S)
  PROVE  NameInv'
<1>1. query' = query /\ UNCHANGED <<np, star, mark, w, bit, alive>>
  BY DEF NextColumn, greedy
<1>2. /\ InMiddle /\ HasDos /\ D = Reach(ep) /\ ep \in Nat /\ fw <= ep /\ ep <= pe
      /\ verdict = Undecided
  BY ColumnIs
<1>3. /\ fw \in Nat /\ pe \in Nat /\ pe = lw + 1 /\ lw \in Nat /\ query \in Queries /\ Wilds # {}
      /\ lastns \in Nat /\ lastns <= lw /\ D \subseteq 0..NL
  BY <1>2, MiddleIs, TypeIs, LastNonStar DEF InMiddle
<1>4. CASE D = {}
  <2>1. Says(FALSE) /\ UNCHANGED <<ep, D, Dwas>>
    BY <1>4 DEF NextColumn
  <2>2. ep \in fw..pe
    BY <1>2, <1>3
  <2>3. ~Matches(query)
    BY <1>2, <1>4, <2>2, ThroughColumn
  <2> QED BY <1>1, <2>1, <2>3, SaysKeeps
<1>5. CASE D # {}
  <2>1. D' = S /\ Dwas' = D /\ ep' = ep + 1 /\ verdict' = Undecided /\ place' = "column"
    BY <1>2, <1>5 DEF NextColumn
  <2>2. S = Led(D, Expr(ep)) /\ S = Reach(ep + 1)
    BY <1>2, <1>3, <1>5, ReachNext
  <2>3. ep + 1 \in fw..pe /\ (ep + 1) - 1 = ep
    BY <1>2, <1>3
  <2>4. ColumnAt(ep + 1, S, D)
    BY <2>2, <2>3 DEF ColumnAt
  <2>5. np' \in 0..NL /\ w' \in 0..Words /\ bit' \in BOOLEAN /\ alive' \in BOOLEAN
    BY <1>1, TypeIs
  <2> QED BY <1>1, <1>2, <1>3, <2>1, <2>4, <2>5, ToColumn
<1> QED BY <1>4, <1>5

LEMMA ColumnStarKeeps == ASSUME NameInv, ColumnStar PROVE NameInv'
<1>1. place = "column" /\ ep <= lastns /\ Expr(ep) = Star /\ NextColumn(D \union LeastIn(D)..NL)
  BY DEF ColumnStar, Column
<1>2. D # {} => D \union LeastIn(D)..NL = Led(D, Expr(ep))
  BY <1>1, TypeIs, LedStar
<1> QED BY <1>1, <1>2, NextColumnKeeps

LEMMA ColumnDosStarKeeps == ASSUME NameInv, ColumnDosStar PROVE NameInv'
<1>1. PICK l, above, m : l = LeastIn(D) /\ above = {x \in D : x > L} /\ m = LeastIn(above)
  OBVIOUS
<1> DEFINE S == IF l > L THEN D \union l..NL
                ELSE D \union l..(L + 1) \union (IF above = {} THEN {} ELSE m..NL)
<1>2. place = "column" /\ ep <= lastns /\ Expr(ep) = DosStar /\ NextColumn(S)
  BY <1>1 DEF ColumnDosStar, Column
<1>3. D # {} => S = Led(D, Expr(ep))
  BY <1>1, <1>2, TypeIs, LedDosStar
<1> QED BY <1>2, <1>3, NextColumnKeeps

LEMMA StartShiftKeeps == ASSUME NameInv, StartShift PROVE NameInv'
<1>1. /\ place = "column" /\ ep <= lastns /\ Expr(ep) \notin {Star, DosStar}
      /\ query' = query /\ verdict' = verdict /\ UNCHANGED <<ep, np, star, mark, D>>
      /\ Dwas' = D /\ w' = 0 /\ bit' = FALSE /\ alive' = FALSE /\ place' = "shift"
  BY DEF StartShift, Column, greedy
<1>2. /\ InMiddle /\ HasDos /\ D = Reach(ep) /\ ep \in Nat /\ fw <= ep /\ verdict = Undecided
  BY <1>1, ColumnIs
<1>3. /\ fw \in Nat /\ lw \in Nat /\ query \in Queries /\ lastns \in Nat /\ lastns <= lw
      /\ D \subseteq 0..NL /\ Words \in Nat /\ Bits \in Nat /\ NL \in Nat
  BY <1>2, MiddleIs, TypeIs, LastNonStar DEF InMiddle
<1>4. ep \in fw..lw /\ 0 \in 0..Words /\ 0 * Bits = 0 /\ \A x \in D : ~(x < 0)
  BY <1>1, <1>2, <1>3
<1>5. Below(D, 0 * Bits) = {} /\ Carry(FALSE, 0 * Bits) = {}
  BY <1>4 DEF Below, Carry
<1>6. Led({}, Expr(ep)) = {}
  BY DEF Led
<1>7. ShiftAt(ep, D, D, 0 * Bits, FALSE, FALSE)
  BY <1>1, <1>2, <1>4, <1>5, <1>6 DEF ShiftAt
<1> QED BY <1>1, <1>2, <1>3, <1>4, <1>7, ToShift
-----------------------------------------------------------------------------
(* The words of a column.  The update of one: what it moves on, what it    *)
(* keeps, and the bit from the word below.                                 *)
LEMMA LedBounded == ASSUME NEW S, NEW c PROVE Led(S, c) \subseteq 0..NL
  BY DEF Led

Update(c, W, d, kept, moved, new, next) ==
  /\ moved = {x + 1 : x \in (d \intersect W) \intersect Shifted(c)}
  /\ new = (moved \intersect W) \union ((d \intersect W) \intersect Kept(c)) \union kept
  /\ next = (d \ (d \intersect W)) \union new

Word(lo, hi, W) == lo \in Nat /\ hi \in Nat /\ lo < hi /\ W = lo..(hi - 1)

Passes(lives, moved, new, hi, up, still) ==
  /\ up \in BOOLEAN /\ (up <=> hi \in moved)
  /\ still \in BOOLEAN /\ (still <=> lives \/ new # {})

LEMMA WordServes ==
  ASSUME query \in Queries, NEW lo, NEW hi, NEW W, Word(lo, hi, W),
         NEW e, NEW d, NEW before, NEW b, NEW lives, ShiftAt(e, d, before, lo, b, lives),
         d \subseteq 0..NL, before \subseteq 0..NL, b \in BOOLEAN, lives \in BOOLEAN,
         NEW moved, NEW new, NEW next, Update(Expr(e), W, d, Carry(b, lo), moved, new, next),
         NEW up, NEW still, Passes(lives, moved, new, hi, up, still)
  PROVE  next \subseteq 0..NL /\ ShiftAt(e, next, before, hi, up, still)
<1> DEFINE c == Expr(e)
           word == d \intersect W
<1>1. lo \in Nat /\ hi \in Nat /\ lo < hi /\ W = lo..(hi - 1)
  BY DEF Word
<1>2. /\ up \in BOOLEAN /\ (up <=> hi \in moved)
       /\ still \in BOOLEAN /\ (still <=> lives \/ new # {})
  BY DEF Passes
<1> USE <1>1, <1>2
<1>3. /\ moved = {x + 1 : x \in (d \intersect W) \intersect Shifted(Expr(e))}
      /\ new = (moved \intersect W) \union ((d \intersect W) \intersect Kept(Expr(e))) \union Carry(b, lo)
      /\ next = (d \ (d \intersect W)) \union new
  BY DEF Update
<1>4. NL \in Nat /\ d \subseteq Nat /\ before \subseteq Nat
  <2>1. NL \in Nat
    BY TextsIs
  <2> QED BY <2>1
<1>5. /\ c # Star /\ c # DosStar /\ Above(d, lo) = Above(before, lo)
      /\ Below(d, lo) \union Carry(b, lo) = Led(Below(before, lo), c)
      /\ lives <=> Below(d, lo) # {}
  BY DEF ShiftAt
<1>6. \A x \in Nat : (x \in W <=> lo <= x /\ x < hi)
  OBVIOUS
<1>7. \A x \in Nat : x \in d /\ lo <= x <=> x \in before /\ lo <= x
  BY <1>4, <1>5 DEF Above
<1>8. word \subseteq 0..NL /\ Below(before, hi) = Below(before, lo) \union word
  <2>1. \A x \in Nat : x < hi <=> x < lo \/ (lo <= x /\ x < hi)
    OBVIOUS
  <2> QED BY <1>4, <1>6, <1>7, <2>1 DEF Below
<1>9. Led(word, c) = moved \union (word \intersect Kept(c))
  BY <1>3, <1>5, <1>8, LedOther
<1>10. Led(Below(before, hi), c) = Below(d, lo) \union Carry(b, lo) \union moved \union (word \intersect Kept(c))
  BY <1>5, <1>8, <1>9, LedUnion
<1>11. \A x \in moved : x \in Nat /\ lo < x /\ x <= hi
  BY <1>3, <1>4, <1>6
<1>12. \A x \in new : x \in Nat /\ lo <= x /\ x < hi
  BY <1>3, <1>4, <1>6, <1>11 DEF Carry
<1>13. \A x \in moved : x \in W \/ x = hi
  BY <1>6, <1>11
<1>14. next \subseteq Nat
  BY <1>3, <1>4, <1>12
<1>15. Above(next, hi) = Above(before, hi)
  <2>1. \A x \in Nat : hi <= x => lo <= x /\ ~(x < hi) /\ x \notin W /\ x \notin new
    BY <1>6, <1>12
  <2>2. \A x \in Nat : hi <= x => (x \in next <=> x \in before)
    BY <1>3, <1>7, <2>1
  <2> HIDE DEF word
  <2> QED BY <1>4, <1>14, <2>2 DEF Above
<1>16. Below(next, hi) = Below(d, lo) \union new
  <2>1. \A x \in Nat : x \in new \/ x < lo => x < hi
    BY <1>3, <1>12
  <2>2. \A x \in Nat : x < hi => (x \in d \ (d \intersect W) <=> x \in d /\ x < lo)
    BY <1>6
  <2>3. \A x \in Nat : x \in Below(next, hi) <=> (x \in d /\ x < lo) \/ x \in new
    BY <1>3, <2>1, <2>2 DEF Below
  <2> QED BY <1>4, <1>12, <1>14, <2>3 DEF Below
<1>17. Below(next, hi) \union Carry(up, hi) = Led(Below(before, hi), c)
  <2>1. (moved \intersect W) \union Carry(up, hi) = moved
    <3>1. hi \notin W
      BY <1>6
    <3> QED BY <1>13, <3>1 DEF Carry
  <2>2. Below(next, hi) = Below(d, lo) \union (moved \intersect W) \union (word \intersect Kept(c)) \union Carry(b, lo)
    BY <1>3, <1>16
  <2> HIDE DEF word, c
  <2> QED BY <1>10, <2>1, <2>2
<1>18. still <=> Below(next, hi) # {}
  BY <1>5, <1>16
<1>19. next \subseteq 0..NL
  <2>1. \A x \in Nat : x < hi \/ hi <= x
    OBVIOUS
  <2>2. \A x \in next : x \in Below(next, hi) \/ x \in Above(next, hi)
    BY <1>14, <2>1 DEF Below, Above
  <2>3. Below(next, hi) \subseteq 0..NL
    BY <1>17, LedBounded
  <2>4. Above(next, hi) \subseteq 0..NL
    BY <1>15 DEF Above
  <2> QED BY <2>2, <2>3, <2>4
<1>20. e \in fw..lw /\ Expr(e) \notin {Star, DosStar} /\ before = Reach(e)
  BY DEF ShiftAt
<1> QED BY <1>15, <1>17, <1>18, <1>19, <1>20 DEF ShiftAt

LEMMA ShiftIs ==
  ASSUME NameInv, place = "shift", w < Words
  PROVE  /\ InMiddle /\ HasDos /\ ShiftAt(ep, D, Dwas, w * Bits, bit, alive) /\ verdict = Undecided
         /\ w \in Nat /\ w + 1 \in 0..Words /\ w * Bits \in Nat /\ (w + 1) * Bits \in Nat
         /\ w * Bits < (w + 1) * Bits /\ WordAt(w) = (w * Bits)..((w + 1) * Bits - 1)
<1>1. w \in Nat /\ Words \in Nat /\ Bits \in Nat \ {0}
  BY TypeIs
<1>2. (w + 1) * Bits = w * Bits + Bits /\ w * Bits \in Nat
  BY <1>1
<1> QED BY <1>1, <1>2 DEF NameInv, WordAt

LEMMA ShiftWordKeeps == ASSUME NameInv, ShiftWord PROVE NameInv'
<1>1. /\ place = "shift" /\ w < Words
      /\ query' = query /\ verdict' = verdict /\ place' = place /\ UNCHANGED <<ep, np, star, mark, Dwas>>
  BY DEF ShiftWord, greedy
<1>2. PICK lo \in Nat, hi \in Nat : lo = w * Bits /\ hi = (w + 1) * Bits
  BY <1>1, ShiftIs
<1>3. PICK W, moved, new, next : W = WordAt(w) /\ Update(Expr(ep), W, D, Carry(bit, lo), moved, new, next)
  BY DEF Update
<1>4. query \in Queries /\ D \subseteq 0..NL /\ Dwas \subseteq 0..NL /\ bit \in BOOLEAN /\ alive \in BOOLEAN
  BY TypeIs
<1>5. PICK up \in BOOLEAN, still \in BOOLEAN : up = (hi \in moved) /\ still = (alive \/ new # {})
  <2>1. (hi \in moved) \in BOOLEAN /\ (alive \/ new # {}) \in BOOLEAN
    BY <1>4
  <2> QED BY <2>1
<1>6. D' = next /\ alive' = still /\ bit' = up /\ w' = w + 1
  BY <1>2, <1>3, <1>5 DEF ShiftWord, Update, Carry
<1>7. /\ InMiddle /\ HasDos /\ verdict = Undecided /\ ShiftAt(ep, D, Dwas, lo, bit, alive)
      /\ lo < hi /\ W = lo..(hi - 1) /\ w + 1 \in 0..Words
  BY <1>1, <1>2, <1>3, ShiftIs
<1>8. next \subseteq 0..NL /\ ShiftAt(ep, next, Dwas, hi, up, still)
  <2>1. Word(lo, hi, W) /\ Passes(alive, moved, new, hi, up, still)
    BY <1>5, <1>7 DEF Word, Passes
  <2> QED BY <1>3, <1>4, <1>7, <2>1, WordServes
<1> QED BY <1>1, <1>2, <1>4, <1>6, <1>7, <1>8, ToShift

LEMMA EmptyWordKeeps == ASSUME NameInv, EmptyWord PROVE NameInv'
<1>1. /\ place = "shift" /\ w < Words /\ D \intersect WordAt(w) = {}
      /\ query' = query /\ verdict' = verdict /\ place' = place /\ UNCHANGED <<ep, np, star, mark, Dwas>>
  BY DEF EmptyWord, greedy
<1>2. PICK lo \in Nat, hi \in Nat : lo = w * Bits /\ hi = (w + 1) * Bits
  BY <1>1, ShiftIs
<1>3. PICK W, moved, new, next : W = WordAt(w) /\ Update(Expr(ep), W, D, Carry(bit, lo), moved, new, next)
  BY DEF Update
<1>4. query \in Queries /\ D \subseteq 0..NL /\ Dwas \subseteq 0..NL /\ bit \in BOOLEAN /\ alive \in BOOLEAN
  BY TypeIs
<1>5. moved = {} /\ new = Carry(bit, lo) /\ next = D \union Carry(bit, lo)
  BY <1>1, <1>3 DEF Update
<1>6. PICK still \in BOOLEAN : still = (alive \/ bit)
  BY <1>4
<1>7. D' = next /\ alive' = still /\ bit' = FALSE /\ w' = w + 1
  BY <1>2, <1>5, <1>6 DEF EmptyWord, Carry
<1>8. (still <=> alive \/ new # {}) /\ (FALSE <=> hi \in moved) /\ FALSE \in BOOLEAN
  BY <1>4, <1>5, <1>6 DEF Carry
<1>9. /\ InMiddle /\ HasDos /\ verdict = Undecided /\ ShiftAt(ep, D, Dwas, lo, bit, alive)
      /\ lo < hi /\ W = lo..(hi - 1) /\ w + 1 \in 0..Words
  BY <1>1, <1>2, <1>3, ShiftIs
<1>10. next \subseteq 0..NL /\ ShiftAt(ep, next, Dwas, hi, FALSE, still)
  <2>1. Word(lo, hi, W) /\ Passes(alive, moved, new, hi, FALSE, still)
    BY <1>8, <1>9 DEF Word, Passes
  <2> QED BY <1>3, <1>4, <1>9, <2>1, WordServes
<1> QED BY <1>1, <1>2, <1>4, <1>7, <1>8, <1>9, <1>10, ToShift

LEMMA EndShiftKeeps == ASSUME NameInv, EndShift PROVE NameInv'
<1>1. place = "shift" /\ w = Words /\ query' = query /\ UNCHANGED <<np, star, mark, D, Dwas, w, bit, alive>>
  BY DEF EndShift, greedy, shift
<1>2. InMiddle /\ HasDos /\ ShiftAt(ep, D, Dwas, w * Bits, bit, alive) /\ verdict = Undecided
  BY <1>1 DEF NameInv
<1>3. /\ NL \in Nat /\ fw \in Nat /\ lw \in Nat /\ pe \in Nat /\ pe = lw + 1
      /\ query \in Queries /\ Wilds # {} /\ D \subseteq 0..NL /\ Dwas \subseteq 0..NL
      /\ bit \in BOOLEAN /\ alive \in BOOLEAN /\ w \in 0..Words /\ np \in 0..NL /\ Bits \in Nat \ {0}
  BY <1>2, MiddleIs, TypeIs DEF InMiddle
<1>4. PICK end \in Nat : end = w * Bits /\ NL < end
  <2>1. PICK q \in Nat : q = NL \div Bits
    BY <1>3
  <2>2. NL < (q + 1) * Bits
    BY <1>3, <2>1
  <2>3. w = q + 1
    BY <1>1, <2>1 DEF Words
  <2> QED BY <1>3, <2>2, <2>3
<1>5. \A x \in 0..NL : x < end /\ x # end
  BY <1>3, <1>4
<1>6. Below(D, end) = D /\ Below(Dwas, end) = Dwas
  BY <1>3, <1>5 DEF Below
<1>7. /\ D \union Carry(bit, end) = Led(Dwas, Expr(ep)) /\ (alive <=> D # {})
      /\ ep \in fw..lw /\ Dwas = Reach(ep)
  BY <1>2, <1>4, <1>6 DEF ShiftAt
<1>8. Carry(bit, end) = {}
  BY <1>5, <1>7, LedBounded DEF Carry
<1>9. ep \in Nat /\ fw <= ep /\ ep + 1 \in fw..pe /\ (ep + 1) - 1 = ep
  BY <1>3, <1>7
<1>10. D = Led(Dwas, Expr(ep)) /\ D = Reach(ep + 1)
  BY <1>3, <1>7, <1>8, <1>9, ReachNext
<1>11. CASE alive
  <2>1. ep' = ep + 1 /\ place' = "column" /\ verdict' = Undecided
    BY <1>2, <1>11 DEF EndShift
  <2>2. ColumnAt(ep + 1, D, Dwas)
    BY <1>9, <1>10 DEF ColumnAt
  <2>3. D' = D /\ Dwas' = Dwas /\ np' \in 0..NL /\ w' \in 0..Words /\ bit' \in BOOLEAN /\ alive' \in BOOLEAN
    BY <1>1, <1>3
  <2> QED BY <1>1, <1>2, <1>3, <2>1, <2>2, <2>3, ToColumn
<1>12. CASE ~alive
  <2>1. Says(FALSE) /\ ep' = ep
    BY <1>12 DEF EndShift
  <2>2. ~Matches(query)
    BY <1>2, <1>7, <1>9, <1>10, <1>12, ThroughColumn
  <2> QED BY <1>1, <2>1, <2>2, SaysKeeps
<1> QED BY <1>11, <1>12
-----------------------------------------------------------------------------
(* Every step keeps the invariant, and leaves the question alone.          *)
LEMMA NameStepKeeps == ASSUME NameInv, NameStep PROVE NameInv' /\ query' = query
<1>1. CASE Shapes
  BY <1>1, DispatchKeeps, FastSuffixKeeps, ExactCompareKeeps, AnchorKeeps
     DEF Shapes, Dispatch, FastSuffix, ExactCompare, Anchor
<1>2. CASE Greedily
  BY <1>2, AdvanceKeeps, StarRunKeeps, BackKeeps, GreedyTailKeeps
     DEF Greedily, Advance, StarRun, Back, GreedyTail
<1>3. CASE ColumnEnd \/ RestStar \/ ColumnStar \/ ColumnDosStar
  BY <1>3, ColumnEndKeeps, RestStarKeeps, ColumnStarKeeps, ColumnDosStarKeeps
     DEF ColumnEnd, RestStar, ColumnStar, ColumnDosStar, NextColumn
<1>4. CASE StartShift \/ EmptyWord \/ ShiftWord \/ EndShift
  BY <1>4, StartShiftKeeps, EmptyWordKeeps, ShiftWordKeeps, EndShiftKeeps
     DEF StartShift, EmptyWord, ShiftWord, EndShift
<1> QED BY <1>1, <1>2, <1>3, <1>4 DEF NameStep, Columns

LEMMA NameStays == ASSUME NameInv, UNCHANGED nameVars PROVE NameInv' /\ query' = query
<1>1. /\ query' = query /\ verdict' = verdict /\ place' = place
      /\ UNCHANGED <<ep, np, star, mark, D, Dwas, w, bit, alive>>
  BY DEF nameVars, greedy, shift
<1>2. NameTypeOK'
  BY <1>1, SameText DEF NameInv, NameTypeOK
<1>3. InBody' <=> InBody
  BY <1>1, SameText DEF InBody, Expr
<1>4. InMiddle' <=> InMiddle
  BY <1>1, SameText DEF InMiddle
<1>5. GreedyAt(ep, np, star, mark)' <=> GreedyAt(ep, np, star, mark)
  BY <1>1, SameText DEF GreedyAt, LastStar, Left, SinceOf, MarkOf, Expr
<1>6. ColumnAt(ep, D, Dwas)' <=> ColumnAt(ep, D, Dwas)
  BY <1>1, SameText DEF ColumnAt, Reach, Led, Expr
<1>7. ShiftAt(ep, D, Dwas, w * Bits, bit, alive)' <=> ShiftAt(ep, D, Dwas, w * Bits, bit, alive)
  BY <1>1, SameText DEF ShiftAt, Reach, Led, Expr, Below, Above, Carry
<1> QED BY <1>1, <1>2, <1>3, <1>4, <1>5, <1>6, <1>7, SameText DEF NameInv

LEMMA NameInvariant == NameSpec => []NameInv
<1>1. NameInit => NameInv
  BY InitHolds
<1>2. NameInv /\ [NameNext]_nameVars => NameInv'
  BY NameStepKeeps, NameStays DEF NameNext, Decided
<1> QED BY <1>1, <1>2, PTL DEF NameSpec

(* The variables keep their ranges: neither the walk through the           *)
(* expression nor any column leaves the texts (Advance, StarRun, the       *)
(* updates of D).                                                          *)
THEOREM NameTypes == NameSpec => []NameTypeOK
<1>1. NameInv => NameTypeOK
  BY DEF NameInv
<1> QED BY <1>1, NameInvariant, PTL

(* No match is lost by giving up on every star but the last, nor by the    *)
(* jump to the next literal (StarRun, Back); and each column is, word by   *)
(* word, what its character leads to (EmptyWord, ShiftWord, ColumnDosStar).*)
THEOREM NameNothingLost == NameSpec => []NothingLost
<1>1. ASSUME NameInv PROVE GreedyKeeps
  <2>1. SUFFICES ASSUME place = "greedy", Matches(query)
                 PROVE  \/ Cuts(expr, name, ep, pe, np, Target)
                        \/ /\ star # NoStar
                           /\ \E m \in (mark + 1)..Target : Cuts(expr, name, star, pe, m, Target)
    BY DEF GreedyKeeps
  <2>2. PICK from, m : from = SinceOf(star) /\ m = MarkOf(star, mark)
    OBVIOUS
  <2>3. /\ InMiddle /\ GreedyAt(ep, np, star, mark) /\ ep \in Nat /\ np \in Nat /\ ep <= pe /\ np <= Target
        /\ from \in Nat /\ from <= ep
    BY <1>1, <2>1, <2>2, GreedyIs
  <2>4. Len(name) \in Nat /\ pe \in Nat /\ Target \in Nat /\ mark \in Nat
    BY <1>1, <2>3, MiddleIs, TypeIs
  <2>5. Left(ep, np, star, mark)
    BY <2>1, <2>3 DEF GreedyAt
  <2>6. CASE Goes(expr, name, ep, pe, np, Target)
    BY <2>3, <2>4, <2>6, CutsGoes
  <2>7. ASSUME star # NoStar, NEW y \in (mark + 1)..Target, Goes(expr, name, star, pe, y, Target)
        PROVE  Cuts(expr, name, star, pe, y, Target)
    <3>1. star = from
      BY <2>2, <2>7 DEF SinceOf
    <3>2. star \in Nat /\ star <= pe /\ y \in Nat /\ y <= Target
      BY <2>3, <2>4, <3>1
    <3> QED BY <2>4, <2>7, <3>2, CutsGoes
  <2> QED BY <2>5, <2>6, <2>7 DEF Left
<1>2. ASSUME NameInv PROVE ColumnExact
  BY <1>2 DEF NameInv, ColumnExact, ColumnAt, ShiftAt, Above, Below, Carry
<1>3. NameInv => NothingLost
  BY <1>1, <1>2 DEF NothingLost
<1> QED BY <1>3, NameInvariant, PTL
-----------------------------------------------------------------------------
(* The contract has its own copy of the reference.                         *)
LEMMA SameMatches == Verdicts!Matches(query) = Matches(query)
  BY DEF Verdicts!Matches, Verdicts!StarSuffix, Verdicts!EndsWith, Verdicts!Cuts, Verdicts!Takes,
         Verdicts!DotAt, Verdicts!At, Verdicts!Wild, Verdicts!Dos, Verdicts!Star, Verdicts!Any,
         Verdicts!DosStar, Verdicts!DosAny, Verdicts!DosDot, Verdicts!Dot,
         Matches, StarSuffix, EndsWith, Cuts, Takes, DotAt, At, Wild, Dos, Star, Any, DosStar, DosAny, DosDot, Dot

(* The verdict, once there is one, is that of the reference's recursion:   *)
(* all shapes, the greedy matcher and the columns decide alike.            *)
THEOREM NameImplements == NameSpec => Verdicts!Spec
<1>1. NameInit => Verdicts!Init
  BY DEF NameInit, Verdicts!Init
<1>2. ASSUME NameInv, [NameNext]_nameVars PROVE [Verdicts!Decide]_<<query, verdict>>
  <2>1. CASE NameStep
    <3>1. NameInv' /\ query' = query /\ place # "done"
      BY <1>2, <2>1, NameStepKeeps
         DEF NameStep, Shapes, Greedily, Columns, Dispatch, FastSuffix, ExactCompare, Anchor,
             Advance, StarRun, Back, GreedyTail, ColumnEnd, RestStar, ColumnStar, ColumnDosStar,
             StartShift, Column, EmptyWord, ShiftWord, EndShift
    <3>2. verdict = Undecided
      BY <1>2, <3>1 DEF NameInv
    <3>3. CASE place' = "done"
      <4>1. verdict' = Matches(query)
        BY <3>1, <3>3, SameText DEF NameInv
      <4> QED BY <3>1, <3>2, <4>1, SameMatches DEF Verdicts!Decide
    <3>4. CASE place' # "done"
      <4>1. verdict' = Undecided
        BY <3>1, <3>4 DEF NameInv
      <4> QED BY <3>1, <3>2, <4>1
    <3> QED BY <3>3, <3>4
  <2>2. CASE UNCHANGED nameVars
    BY <2>2 DEF nameVars
  <2> QED BY <1>2, <2>1, <2>2 DEF NameNext, Decided
<1> QED BY <1>1, <1>2, NameInvariant, PTL DEF NameSpec, Verdicts!Spec
-----------------------------------------------------------------------------
(* How far a verdict is: the stage; then the characters of the expression  *)
(* behind the last star, or behind the column; then what that star can     *)
(* still be given; then the characters of the name, or the words of D.     *)
Middle == place \in {"greedy", "column", "shift"}

Stage == IF place = "entry" THEN 3 ELSE IF place = "body" THEN 2 ELSE IF Middle THEN 1 ELSE 0

Tokens == IF place = "greedy" THEN PL - star ELSE IF Middle THEN PL - ep ELSE 0

Tries == IF place = "greedy" THEN NL - mark ELSE IF place = "column" THEN 1 ELSE 0

Letters == IF place = "greedy" THEN NL - np ELSE IF place = "shift" THEN Words - w ELSE 0

Nearer ==
  \/ Stage' < Stage
  \/ Stage' = Stage /\ Tokens' < Tokens
  \/ Stage' = Stage /\ Tokens' = Tokens /\ Tries' < Tries
  \/ Stage' = Stage /\ Tokens' = Tokens /\ Tries' = Tries /\ Letters' < Letters

Measures  == Stage \in 0..3 /\ Tokens \in Nat /\ Tries \in Nat /\ Letters \in Nat
StepsNear == [][NameStep => Nearer]_nameVars

LEMMA MeasuresAre == ASSUME NameInv PROVE Measures
<1>1. /\ PL \in Nat /\ NL \in Nat /\ ep \in 0..PL /\ np \in 0..NL /\ mark \in 0..NL
      /\ star \in 0..PL \union {NoStar} /\ Words \in Nat /\ w \in 0..Words
  BY TypeIs
<1>2. /\ PL - star \in Nat /\ PL - ep \in Nat /\ NL - mark \in Nat /\ NL - np \in Nat
      /\ Words - w \in Nat
  BY <1>1 DEF NoStar
<1> QED BY <1>2 DEF Measures, Stage, Tokens, Tries, Letters

(* Whatever gives the verdict is the last step.                            *)
LEMMA DoneNears ==
  ASSUME place \in {"entry", "body", "greedy", "column", "shift"}, place' = "done"
  PROVE  Nearer
<1>1. Stage \in 1..3 /\ Stage' = 0
  BY DEF Stage, Middle
<1> QED BY <1>1 DEF Nearer

LEMMA ShapesNear ==
  ASSUME Shapes
  PROVE  Nearer
<1>1. CASE Dispatch
  <2>1. place = "entry" /\ place' \in {"done", "body"}
    BY <1>1 DEF Dispatch, Says
  <2> QED BY <2>1 DEF Nearer, Stage, Middle
<1>2. CASE FastSuffix \/ ExactCompare
  BY <1>2, DoneNears DEF FastSuffix, ExactCompare, Says
<1>3. CASE Anchor
  <2>1. place = "body" /\ place' \in {"done", "column", "greedy"}
    BY <1>3 DEF Anchor, Says
  <2> QED BY <2>1 DEF Nearer, Stage, Middle
<1> QED BY <1>1, <1>2, <1>3 DEF Shapes

(* A jump goes to a place of the name that has not been tried, or to the   *)
(* end.                                                                    *)
LEMMA JumpIs ==
  ASSUME NEW s, NEW from \in Nat, Target \in Nat, Jump(s, from)
  PROVE  \/ /\ star' = s /\ mark' \in Nat /\ mark' >= from /\ place' = place
         \/ place' = "done"
<1> DEFINE hits == {x \in from..(Target - 1) : Name(x) = Expr(s)}
<1>1. CASE Expr(s) = Any
  BY <1>1 DEF Jump
<1>2. CASE Expr(s) # Any /\ hits # {}
  <2>1. star' = s /\ mark' = LeastIn(hits) /\ place' = place
    BY <1>2 DEF Jump
  <2>2. LeastIn(hits) \in hits
    <3>1. hits \subseteq Nat
      OBVIOUS
    <3> HIDE DEF hits
    <3> QED BY <1>2, <3>1, LeastInIs
  <2> QED BY <2>1, <2>2
<1>3. CASE Expr(s) # Any /\ hits = {}
  BY <1>3 DEF Jump, Says
<1> QED BY <1>1, <1>2, <1>3

(* The place of the greedy matcher.                                        *)
LEMMA GreedyPlace ==
  ASSUME NameInv, place = "greedy"
  PROVE  /\ InMiddle /\ ep \in Nat /\ np \in Nat /\ PL \in Nat /\ NL \in Nat /\ mark \in 0..NL
         /\ Target \in Nat /\ Target <= NL /\ np <= Target /\ ep <= pe /\ pe <= PL /\ pe \in Nat
         /\ star = NoStar \/ (star \in Nat /\ star <= ep /\ mark <= np)
<1>1. PICK from, m : from = SinceOf(star) /\ m = MarkOf(star, mark)
  OBVIOUS
<1>2. /\ InMiddle /\ ep \in Nat /\ np \in Nat /\ from \in Nat /\ m \in Nat
      /\ from <= ep /\ ep <= pe /\ m <= np /\ np <= Target
  BY <1>1, GreedyIs
<1>3. /\ PL \in Nat /\ NL \in Nat /\ mark \in 0..NL /\ Target \in Nat /\ Target <= NL
      /\ pe \in Nat /\ pe <= PL
  BY <1>2, MiddleIs, TypeIs
<1>4. star # NoStar => star = from /\ mark = m
  BY <1>1 DEF SinceOf, MarkOf
<1> QED BY <1>2, <1>3, <1>4

(* The same place, and the last star moves on, or is given more, or the    *)
(* name is read on.                                                        *)
LEMMA GreedyNears ==
  ASSUME NameInv, Greedily
  PROVE  Nearer
<1>0. place = "greedy" /\ query' = query
  BY DEF Greedily, Advance, StarRun, Back, GreedyTail
<1>1. /\ ep \in Nat /\ np \in Nat /\ PL \in Nat /\ NL \in Nat /\ mark \in 0..NL
      /\ Target \in Nat /\ Target <= NL /\ np <= Target /\ ep <= pe /\ pe <= PL /\ pe \in Nat
      /\ star = NoStar \/ (star \in Nat /\ star <= ep /\ mark <= np)
  BY <1>0, GreedyPlace
<1>2. PL' = PL /\ NL' = NL
  BY <1>0, SameText
<1>3. ASSUME place' = "greedy"
      PROVE  /\ Stage' = Stage /\ Tokens = PL - star /\ Tokens' = PL - star'
             /\ Tries = NL - mark /\ Tries' = NL - mark' /\ Letters = NL - np /\ Letters' = NL - np'
  BY <1>0, <1>2, <1>3 DEF Stage, Middle, Tokens, Tries, Letters
<1>4. CASE Advance
  <2>1. place' = "greedy" /\ star' = star /\ mark' = mark /\ np' = np + 1
    BY <1>4 DEF Advance, greedy
  <2>2. NL - np' < NL - np
    BY <1>1, <2>1
  <2> QED BY <1>3, <2>1, <2>2 DEF Nearer
<1>5. CASE StarRun
  <2> DEFINE behind == {x \in ep..pe : x = pe \/ Expr(x) # Star}
             s == LeastIn(behind)
  <2>1. /\ ep # pe /\ Expr(ep) = Star
        /\ IF s = pe THEN place' = "done" ELSE Jump(s, np)
    BY <1>5 DEF StarRun, Says
  <2>2. s \in behind
    <3>1. behind \subseteq Nat /\ pe \in behind
      BY <1>1
    <3> HIDE DEF behind
    <3> QED BY <3>1, LeastInIs
  <2>3. s \in Nat /\ ep < s /\ s <= pe
    <3>1. s \in ep..pe /\ s # ep
      BY <2>1, <2>2
    <3> QED BY <1>1, <3>1
  <2> HIDE DEF s
  <2>4. CASE place' = "done"
    BY <1>0, <2>4, DoneNears
  <2>5. CASE place' # "done"
    <3>1. star' = s /\ place' = "greedy"
      BY <1>0, <1>1, <2>1, <2>5, JumpIs
    <3>2. PL - s < PL - star
      BY <1>1, <2>3 DEF NoStar
    <3> QED BY <1>3, <3>1, <3>2 DEF Nearer
  <2> QED BY <2>4, <2>5
<1>6. CASE Back
  <2>1. IF star = NoStar THEN place' = "done" ELSE Jump(star, mark + 1)
    BY <1>6 DEF Back, Says, More
  <2>2. CASE place' = "done"
    BY <1>0, <2>2, DoneNears
  <2>3. CASE place' # "done"
    <3>1. star' = star /\ mark' \in Nat /\ mark' >= mark + 1 /\ place' = "greedy"
      BY <1>0, <1>1, <2>1, <2>3, JumpIs
    <3>2. \A a, b, c \in Nat : b >= a + 1 => c - b < c - a
      OBVIOUS
    <3>3. mark \in Nat /\ NL \in Nat /\ mark' \in Nat /\ mark' >= mark + 1
      BY <1>1, <3>1
    <3>4. NL - mark' < NL - mark
      BY <3>2, <3>3
    <3> QED BY <1>3, <3>1, <3>4 DEF Nearer
  <2> QED BY <2>2, <2>3
<1>7. CASE GreedyTail
  BY <1>7, DoneNears DEF GreedyTail, Says
<1> QED BY <1>4, <1>5, <1>6, <1>7 DEF Greedily

(* The columns, and the words of a column.                                 *)
LEMMA ColumnsNear ==
  ASSUME NameInv, Columns
  PROVE  Nearer
<1>0. place \in {"column", "shift"} /\ query' = query
  BY DEF Columns, ColumnEnd, RestStar, ColumnStar, ColumnDosStar, StartShift, Column, NextColumn,
         EmptyWord, ShiftWord, EndShift
<1>1. /\ ep \in Nat /\ PL \in Nat /\ Words \in Nat /\ w \in Nat /\ PL' = PL /\ Words' = Words
  BY <1>0, SameText, TypeIs
<1>2. CASE place' = "done"
  BY <1>0, <1>2, DoneNears
<1>3. CASE place' \in {"column", "shift"} /\ ep' = ep + 1
  <2>1. Stage' = Stage /\ Tokens = PL - ep /\ Tokens' = PL - ep'
    BY <1>0, <1>1, <1>3 DEF Stage, Middle, Tokens
  <2>2. PL - ep' < PL - ep
    BY <1>1, <1>3
  <2> QED BY <2>1, <2>2 DEF Nearer
<1>4. CASE StartShift
  <2>1. place = "column" /\ place' = "shift" /\ ep' = ep
    BY <1>4 DEF StartShift, Column
  <2>2. Stage' = Stage /\ Tokens' = Tokens /\ Tries = 1 /\ Tries' = 0
    BY <1>1, <2>1 DEF Stage, Middle, Tokens, Tries
  <2> QED BY <2>2 DEF Nearer
<1>5. CASE EmptyWord \/ ShiftWord
  <2>1. place = "shift" /\ place' = place /\ ep' = ep /\ w' = w + 1
    BY <1>5 DEF EmptyWord, ShiftWord
  <2>2. /\ Stage' = Stage /\ Tokens' = Tokens /\ Tries' = Tries
        /\ Letters = Words - w /\ Letters' = Words - w'
    BY <1>1, <2>1 DEF Stage, Middle, Tokens, Tries, Letters
  <2>3. Words - w' < Words - w
    BY <1>1, <2>1
  <2> QED BY <2>2, <2>3 DEF Nearer
<1>6. ASSUME ColumnEnd \/ RestStar \/ ColumnStar \/ ColumnDosStar \/ EndShift
      PROVE  place' = "done" \/ (place' \in {"column", "shift"} /\ ep' = ep + 1)
  BY <1>6 DEF ColumnEnd, RestStar, ColumnStar, ColumnDosStar, Column, NextColumn, EndShift, Says
<1> QED BY <1>2, <1>3, <1>4, <1>5, <1>6 DEF Columns

(* No step can be taken for ever: the last star moves on, or is given more *)
(* than it was ever given, or the name is read on; every column is left    *)
(* for the next one after as many words as the name has.  No star is ever  *)
(* given the same part of the name twice.                                  *)
THEOREM NameEnds == NameSpec => []Measures /\ StepsNear
<1>1. NameInv => Measures
  BY MeasuresAre
<1>2. NameInv /\ [NameNext]_nameVars => [NameStep => Nearer]_nameVars
  BY ShapesNear, GreedyNears, ColumnsNear DEF NameStep
<1> QED BY <1>1, <1>2, NameInvariant, PTL DEF NameSpec, StepsNear
=============================================================================
