------------------------------ MODULE MCVault ------------------------------
(***************************************************************************)
(* The vault with two passwords, one key file and a lockout after two      *)
(* failures, interrupted at most twice.                                    *)
(***************************************************************************)
EXTENDS VaultInv
CONSTANTS p1, p2, k1

MCPasswords == {p1, p2}
MCKeyFiles  == {k1}
=============================================================================
