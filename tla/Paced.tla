-------------------------------- MODULE Paced --------------------------------
(***************************************************************************)
(* What a lockout promises: misses come at a pace.  Up to the threshold    *)
(* they may come one after the other; from then on each has to wait twice  *)
(* as long as the one before it had, up to a cap, until they are forgotten *)
(* for a match, which has to wait as long, or, if they are not kept        *)
(* anywhere, because the program was started anew.                         *)
(***************************************************************************)
EXTENDS Naturals

CONSTANTS
    Threshold, Base, Cap,
    Volatile    \* misses are forgotten when the program ends, not for a match only

VARIABLES
    now,    \* the time
    misses, \* the misses since the last match
    last,   \* when the last miss was
    wait    \* how long to wait after it

\* How long to wait after so many misses, if it was before the last of them.
Longer(count, before) ==
    IF count < Threshold THEN 0
    ELSE IF count = Threshold THEN Base
    ELSE IF 2 * before < Cap THEN 2 * before ELSE Cap

Init == now = 0 /\ misses = 0 /\ last = 0 /\ wait = 0

Pass == now' = now + 1 /\ UNCHANGED <<misses, last, wait>>

\* A guess may be made, right or wrong.
Due == now >= last + wait

Miss ==
    /\ Due
    /\ misses' = misses + 1
    /\ last' = now
    /\ wait' = Longer(misses + 1, wait)
    /\ UNCHANGED now

Forget ==
    /\ Volatile \/ Due
    /\ misses' = 0 /\ wait' = 0
    /\ UNCHANGED <<now, last>>

Spec == Init /\ [][Pass \/ Miss \/ Forget]_<<now, misses, last, wait>>
=============================================================================
