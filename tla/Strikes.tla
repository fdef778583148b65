------------------------------- MODULE Strikes -------------------------------
(***************************************************************************)
(* A lock without a clock: strikes are counted up to the threshold, the    *)
(* one that reaches it locks, every later one locks again, and only what   *)
(* finds the lock open is counted or forgiven.  Vault and Access take a    *)
(* lock like this; Gate and SignIn, which have the durations and a clock,  *)
(* are shown to implement the same one.                                    *)
(***************************************************************************)
EXTENDS Naturals

CONSTANTS
    Threshold,
    Volatile    \* strikes are forgotten when the program ends, not for a match only

VARIABLES
    strikes,    \* the strikes since the last match, as far as they matter
    locked      \* nothing is tried

Init == strikes = 0 /\ locked = FALSE

Strike ==
    /\ ~locked
    /\ strikes' = IF strikes < Threshold THEN strikes + 1 ELSE Threshold
    /\ locked' = (strikes' = Threshold)

Forgive == (Volatile \/ ~locked) /\ strikes' = 0 /\ locked' = FALSE

\* The lock runs out; its strikes stay.
Expire == locked /\ locked' = FALSE /\ UNCHANGED strikes

Spec == Init /\ [][Strike \/ Forgive \/ Expire]_<<strikes, locked>>
=============================================================================
