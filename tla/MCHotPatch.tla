----------------------------- MODULE MCHotPatch -----------------------------
(* Three exports, distinct or at one address; a jump of 2 cells, 3 saved.  *)
EXTENDS HotPatch

Starts == {a \in Cells : (a - 1) % SaveLen = 0}
AlignedLayouts == [Targets -> Starts]
=============================================================================
