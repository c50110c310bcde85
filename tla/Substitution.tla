---------------------------- MODULE Substitution ----------------------------
(***************************************************************************)
(* What a live substitution promises, with no bytes in it: at any moment   *)
(* an exported function is either the shipped code or our replacement, it  *)
(* switches between the two in one step, and a call runs the one it is.    *)
(***************************************************************************)
CONSTANT Targets

VARIABLES code,   \* export -> "shipped" or "ours"
          last    \* what the latest call ran

Init == /\ code = [f \in Targets |-> "shipped"]
        /\ last = "shipped"

Install(f) == /\ code' = [code EXCEPT ![f] = "ours"]
              /\ UNCHANGED last

Remove(f) == /\ code' = [code EXCEPT ![f] = "shipped"]
             /\ UNCHANGED last

Call(f) == /\ last' = code[f]
           /\ UNCHANGED code

Next == \E f \in Targets : Install(f) \/ Remove(f) \/ Call(f)

Spec == Init /\ [][Next]_<<code, last>>
=============================================================================
