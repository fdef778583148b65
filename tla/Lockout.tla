------------------------------- MODULE Lockout -------------------------------
(***************************************************************************)
(* How failures are counted and answered with a lock, the same for an      *)
(* account (LockoutPolicy) and for a file that meets the wrong devices     *)
(* (DeviceMismatchThrottle): a lock is the number of failures in a row and *)
(* the time until which nothing is tried, 0 if there is no such time.      *)
(***************************************************************************)
EXTENDS Integers

CONSTANTS
    Threshold,  \* MAX_FAILED_ATTEMPTS
    Base,       \* BASE_LOCKOUT_SECONDS
    Cap         \* MAX_LOCKOUT_SECONDS

ASSUME LockoutAssumption ==
    Threshold \in Nat \ {0} /\ Base \in Nat \ {0} /\ Cap \in Nat /\ Base <= Cap

Smaller(m, n) == IF m <= n THEN m ELSE n

\* Slip: the failures that led to the lock are not counted off.
SlipLockoutSeconds(failed) == Smaller(Base * (failed - Threshold), Cap)

LockoutSeconds(failed) == Smaller(Base * 2^(failed - Threshold), Cap)

Unlocked == [failed |-> 0, until |-> 0]

\* is_locked
IsLocked(lock, now) == now < lock.until

\* register_failure, register_mismatch
AfterFailure(lock, now) ==
    LET failed == lock.failed + 1
    IN  [failed |-> failed,
         until  |-> IF failed >= Threshold THEN now + LockoutSeconds(failed) ELSE lock.until]

\* What a lock says if the last failure was at some time: below the threshold nothing,
\* from it on the end of the seconds for so many failures.
Timed(lock, at) ==
    /\ lock \in [failed : Nat, until : Nat] /\ at \in Nat
    /\ lock.failed < Threshold => lock.until = 0
    /\ lock.failed >= Threshold => lock.until = at + LockoutSeconds(lock.failed)

\* The seconds it was set for.
Imposed(lock, at) == IF lock.until = 0 THEN 0 ELSE lock.until - at
=============================================================================
