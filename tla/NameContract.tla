---------------------------- MODULE NameContract ----------------------------
(* What a caller counts on: the verdict of the reference, and that there   *)
(* will be one.                                                            *)
EXTENDS WildName

CONSTANT Undecided

VARIABLES query, verdict

Init   == verdict = Undecided
Decide == verdict = Undecided /\ verdict' = Matches(query) /\ UNCHANGED query

Spec    == Init /\ [][Decide]_<<query, verdict>>
Decides == <>(verdict # Undecided)
=============================================================================
