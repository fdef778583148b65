----------------------------- MODULE MCStorage ------------------------------
(***************************************************************************)
(* A small instance of Storage: two passphrases, which nothing tells apart *)
(* but their being the same or not.                                         *)
(***************************************************************************)
EXTENDS Storage, TLC

CONSTANTS p1, p2

TwoPassphrases == {p1, p2}
Symmetry == Permutations(TwoPassphrases)
=============================================================================
