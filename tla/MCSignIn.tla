------------------------------ MODULE MCSignIn ------------------------------
(***************************************************************************)
(* A small instance of SignIn: two passwords, one of which is wrong, and   *)
(* two places for a key file.                                              *)
(***************************************************************************)
EXTENDS SignIn, TLC

CONSTANTS p1, p2, f1, f2

MCPasswords == {p1, p2}
MCPaths     == {f1, f2}
Symmetry    == Permutations(MCPasswords) \cup Permutations(MCPaths)
=============================================================================
