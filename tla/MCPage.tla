------------------------------- MODULE MCPage -------------------------------
(***************************************************************************)
(* A small instance of Page: two letters for one or two sticks, so that a  *)
(* selection can move, survive and be taken over, and two files.           *)
(***************************************************************************)
EXTENDS Page, TLC

CONSTANTS e, f, a, b, x, y

TwoLetters == {e, f}
TwoSticks  == {a, b}
TwoNames   == {x, y}
=============================================================================
