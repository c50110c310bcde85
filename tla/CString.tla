------------------------------ MODULE CString ------------------------------
(* Zero-terminated strings in memory, a function from addresses to cells.  *)
EXTENDS Bytes

Nul  == 0      \* the character
Null == -1     \* the pointer

EINVAL    == 22
ERANGE    == 34
STRUNCATE == 80

LeastOf(S)    == CHOOSE i \in S : \A j \in S : i <= j
Lesser(a, b)  == IF a < b THEN a ELSE b

(* How many of the n cells from a on come before the first NUL.            *)
Within(m, a, n) == LeastOf({k \in 0..n : k = n \/ m[a + k] = Nul})

Poke(m, a, c)      == [m EXCEPT ![a] = c]
Filled(m, a, n, c) == StoreAt(m, a, n, [j \in 0..(n - 1) |-> c])
=============================================================================
