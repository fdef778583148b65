------------------------------ MODULE MCAccess ------------------------------
(***************************************************************************)
(* A small instance of Access: two drives, so that a container can be      *)
(* duplicated and the file rebound; the symmetry of the drives is used by  *)
(* the run that checks no liveness property.                               *)
(***************************************************************************)
EXTENDS AccessInv, TLC

CONSTANTS d1, d2

TwoDrives == {d1, d2}
Symmetry == Permutations(TwoDrives)
=============================================================================
