-------------------------- MODULE MCCountedString --------------------------
(***************************************************************************)
(* Words of 4 bits: the literals count up to 6 characters, and the long    *)
(* buffer takes all but the longest.  Low and high bytes all differ, so    *)
(* that a byte out of place shows.                                         *)
(***************************************************************************)
EXTENDS CountedString, TLC

CONSTANTS long, short, odd, ragged, view

a == <<1, 2>>
b == <<3, 4>>
MCLiterals == {<<>>, <<a>>, <<b, a, b>>, <<a, a, a, b, b, a>>, <<b, a, a, a, a, a, b>>,
               <<a, b, a, b, a, b, a, b>>}

MCMaxOf == (long :> 14) @@ (short :> 6) @@ (odd :> 7) @@ (ragged :> 10)
=============================================================================
