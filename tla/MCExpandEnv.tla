---------------------------- MODULE MCExpandEnv ----------------------------
(***************************************************************************)
(* One variable, a: unset, empty, of two characters, or a percent sign.    *)
(* The subjects have names that are set, are not set, share a percent sign *)
(* or are empty; literals shorter and longer than a block of four; and     *)
(* names that begin in one block and end in the next.                      *)
(***************************************************************************)
EXTENDS ExpandEnv

pct  == <<Percent>>
name_a == <<"a">>
var_a  == pct \o name_a \o pct
MCNames    == {name_a}
MCValues   == {<<>>, <<"x", "y">>, pct}
MCSubjects ==
  { <<>>, <<"b", "c">>, var_a, pct \o var_a \o pct, <<"b">> \o var_a \o <<"c">>,
    pct \o <<"u">> \o var_a, var_a \o var_a, pct \o pct \o pct,
    <<"b", "c">> \o name_a \o <<"e">> \o pct, <<"b", "c", "d", "f">> \o var_a \o <<"g">> }
=============================================================================
