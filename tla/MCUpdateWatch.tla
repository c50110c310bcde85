---------------------------- MODULE MCUpdateWatch ----------------------------
(***************************************************************************)
(* Small instances of the watch.  Two watched DLLs with two binaries each; *)
(* change 1 compares itself with one of them, change 2 with both (as       *)
(* 294-strchr does), change 3 has no build.bat, item 4 is a live harness   *)
(* and item 5 one that needs AVX-512.  The new binary may break any        *)
(* contract.                                                               *)
(***************************************************************************)
EXTENDS UpdateWatch

CONSTANTS ntdll, ucrtbase, old, new, task, person

TwoDllsOf == <<{ucrtbase}, {ucrtbase, ntdll}, {}, {ntdll}, {ntdll}>>
HardStyle == <<"or", "or", "none", "keeps", "keeps">>
Words     == <<"", "", "", "FAIL (n checks)", "n FAILURE(S)">>
NewBreaks == {c \in Contracts : c[3] = new /\ c[1] # 5}

(* One DLL, one change, one live harness, for the runs about two processes *)
(* and about fairness.                                                     *)
OneDllOf   == <<{ntdll}, {ntdll}>>
OneStyle   == <<"or", "keeps">>
OneWords   == <<"", "n FAILURE(S)">>

(* The eleven build.bat that test "if errorlevel 1".                       *)
SoftStyle  == <<"errorlevel", "keeps">>
(* live-substitution/build.bat and live_subst.c, the first live harness.   *)
DropsStyle == <<"or", "drops">>
DropsWords == <<"", "FAIL (n checks)">>
=============================================================================
