------------------------------- MODULE OneTime -------------------------------
(***************************************************************************)
(* What a one-time file promises, with nothing of how: its content can be  *)
(* opened until it is burned, it is shown only once it is burned, and that *)
(* is the end of it.  A file without the policy, or one with a copy out of *)
(* the burn's reach, is given no promise: that is the state "void", which  *)
(* is final.  Module Access is shown to implement this.                    *)
(***************************************************************************)
VARIABLE state

Init == state = "unburned"

Burn == state = "unburned" /\ state' = "burned"
Show == state = "burned" /\ state' = "shown"
Void == state' = "void"

Next == Burn \/ Show \/ Void

Spec == Init /\ [][Next]_state
=============================================================================
