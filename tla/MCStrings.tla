----------------------------- MODULE MCStrings -----------------------------
(* The counted strings and the bounded string functions share no state: a  *)
(* client uses the ones or the others.                                     *)
EXTENDS MCCountedString, MCSecureCrt

MCInit == Init /\ CrtInit

Plain == CHOOSE m \in Memories : TRUE
MCNext ==
  \/ asked = 0 /\ mem = Plain /\ Next /\ UNCHANGED crtVars
  \/ calls = 0 /\ CrtNext /\ UNCHANGED vars

MCSpec == MCInit /\ [][MCNext]_<<vars, crtVars>>
=============================================================================
