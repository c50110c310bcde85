-------------------------- MODULE BitmapContract --------------------------
(***************************************************************************)
(* What a caller of the searches counts on: one step, between the call and *)
(* the return, that answers and inverts exactly the bits it answered with. *)
(***************************************************************************)
EXTENDS Bitmap

CONSTANTS Pending    \* no answer yet

VARIABLES bits, call, reply

vars == <<bits, call, reply>>

Init == bits \subseteq Nat /\ reply = Pending

Serve ==
  /\ reply = Pending
  /\ reply' = Search(Wanted(bits, call.want, call.size), call)
  /\ bits' = After(bits, call, reply')
  /\ UNCHANGED call

Spec == Init /\ [][Serve]_vars
=============================================================================
