------------------------------ MODULE MCViewer ------------------------------
(***************************************************************************)
(* A small instance of Viewer: two zoom steps lead past both bounds, from  *)
(* wherever a picture that is too large is fitted.                         *)
(***************************************************************************)
EXTENDS Viewer

MCZoomMin == -3
=============================================================================
