----------------------------- MODULE MCNameExpr -----------------------------
(***************************************************************************)
(* Every short expression on every short name with dots, in words of two   *)
(* bits; expressions with several stars on longer names; and names of an   *)
(* odd Length.                                                             *)
(***************************************************************************)
EXTENDS NameExpr

CONSTANTS MaxExpr, MaxName, MaxGreedy

UpTo(S, k) == UNION {[1..m -> S] : m \in 0..k}
Ask(E, N, odd) == [expr : E, name : N, odd : {odd}]

DosAsked    == Ask(UpTo({"a", Dot} \union Wild, MaxExpr), UpTo({"a", Dot}, MaxName), FALSE)
GreedyAsked == Ask({<<Star>> \o e : e \in UpTo({"a", "b", Star, Any}, MaxGreedy - 1)},
                   [1..MaxGreedy -> {"a", "b"}], FALSE)
OddAsked    == Ask(UpTo({"a", Star, Any}, 2), UpTo({"a", "b"}, 3) \ {<<>>}, TRUE)
MCQueries   == DosAsked \union GreedyAsked \union OddAsked
=============================================================================
