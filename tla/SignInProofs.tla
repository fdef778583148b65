---------------------------- MODULE SignInProofs ----------------------------
(***************************************************************************)
(* Proofs about the dialogs of an account, for every set of passwords and  *)
(* of places for key files, every lockout and every countdown: the user    *)
(* knows the recovery code, the private key is on file, no account is      *)
(* deleted in haste, and guesses have to wait twice as long each time.     *)
(*                                                                         *)
(* Three invariants: one of the dialogs, which does not depend on how long *)
(* a lock lasts, one of the lock alone, and one of the types.  How long a  *)
(* lock lasts is proved here as in GateProofs: the module they both extend *)
(* has no proofs.                                                          *)
(***************************************************************************)
EXTENDS SignIn, FiniteSetTheorems, FunctionTheorems, TLAPS

(***************************************************************************)
(* The inductive invariant.                                                *)
(***************************************************************************)
OnFile(pair) == \E path \in Paths : files[path] # None /\ files[path].pair = pair

Typed ==
    /\ now \in Nat /\ asked \in Nat /\ countdown \in 0..ConfirmSeconds
    /\ next \in {"main", "signin"}
    /\ pairs \in 0..MaxPairs
    /\ passphrase \in Passwords \cup {None}
    /\ files \in [Paths -> KeyFile \cup {None}]

\* A pair that waits for its registration was saved, and nothing is saved over the
\* key file of an account, since its dialog is not the one that generates keys.
PendingOnFile == pending # NoPair /\ ~spoiled => OnFile(pending.pair)
KeyedIsPast   == account.method = "key" => screen # "register"

\* What is left of the countdown and what has passed of it make up the whole.
CountsDown == screen = "confirm" => now + countdown >= asked + ConfirmSeconds

DialogInv == Typed /\ PendingOnFile /\ KeyedIsPast /\ CountsDown /\ CodeKnown /\ KeyOnFile

-----------------------------------------------------------------------------
(***************************************************************************)
(* The steps.                                                              *)
(***************************************************************************)
LEMMA DialogInit == Init => DialogInv
<1> SUFFICES ASSUME Init PROVE DialogInv
  OBVIOUS
<1>1. Typed
  BY SignInAssumption DEF Init, Typed
<1>2. PendingOnFile /\ KeyedIsPast /\ CountsDown /\ CodeKnown /\ KeyOnFile
  BY DEF Init, PendingOnFile, KeyedIsPast, CountsDown, CodeKnown, KeyOnFile, NoAccount
<1> QED
  BY <1>1, <1>2 DEF DialogInv

\* Steps that touch no key file create no account for a key.
LEMMA FilesKept ==
    ASSUME DialogInv, UNCHANGED <<files, spoiled>>, pending' \in {pending, NoPair},
           account' = account \/ account'.method # "key"
    PROVE  PendingOnFile' /\ KeyOnFile'
BY DEF DialogInv, PendingOnFile, KeyOnFile, OnFile

\* Steps that show the same dialog with the same clock.
LEMMA ClockKept ==
    ASSUME DialogInv, UNCHANGED <<now, asked, countdown>>, screen' = "confirm" => screen = "confirm"
    PROVE  CountsDown'
BY DEF DialogInv, CountsDown

LEMMA TypesKept ==
    ASSUME DialogInv, UNCHANGED <<now, asked, countdown, pairs, files>>,
           next' \in {"main", "signin"}, passphrase' \in Passwords \cup {None}
    PROVE  Typed'
BY DEF DialogInv, Typed

\* Starting and ending the program, and closing the dialog of a recovery code.
LEMMA ProgramStep ==
    ASSUME DialogInv, Start \/ End \/ CloseReveal
    PROVE  DialogInv'
<1>1. /\ UNCHANGED <<now, next, account, pairs, files, spoiled, countdown, asked>>
      /\ pending' \in {pending, NoPair} /\ passphrase' \in {passphrase, None}
  BY DEF Start, End, CloseReveal, OpenDialog, clock, stored, code, keypair, prompt, user
<1>2. /\ screen' = "confirm" => screen = "confirm"
      /\ account'.method = "key" => screen' # "register"
      /\ account'.method = "password" => told' = account'.code \/ screen' = "reveal" \/ lost'
  <2>1. CASE Start
    BY <2>1 DEF Start, OpenDialog, DialogInv, CodeKnown, stored, code
  <2>2. CASE End
    BY <2>2 DEF End, DialogInv, CodeKnown, stored
  <2>3. CASE CloseReveal
    BY <2>3 DEF CloseReveal, DialogInv, Typed, stored
  <2> QED
    BY <2>1, <2>2, <2>3
<1>3. Typed'
  BY <1>1, TypesKept DEF DialogInv, Typed
<1> QED
  BY <1>1, <1>2, <1>3, FilesKept, ClockKept DEF DialogInv, KeyedIsPast, CodeKnown

\* Creating an account with a password, changing it and resetting it: the code that
\* is drawn is shown, or lost.
LEMMA PasswordStep ==
    ASSUME DialogInv, NEW p, NEW after \in {"main", "signin"}, screen # "confirm",
           SetPassword(p),
           UNCHANGED <<now, pairs, files, spoiled, countdown, asked, pending, passphrase>>,
           \/ Reveal(after) /\ UNCHANGED <<told, lost>>
           \/ Stopped
    PROVE  DialogInv'
<1>1. account'.method = "password" /\ account'.method # "key"
  BY DEF SetPassword
<1>2. /\ screen' = "reveal" \/ lost'
      /\ screen' = "confirm" => screen = "confirm"
      /\ next' \in {"main", "signin"}
  BY DEF Reveal, Stopped, DialogInv, Typed
<1>3. Typed'
  BY <1>2, TypesKept DEF DialogInv, Typed
<1> QED
  BY <1>1, <1>2, <1>3, FilesKept, ClockKept DEF DialogInv, KeyedIsPast, CodeKnown

LEMMA RegisterPasswordStep ==
    ASSUME DialogInv, NEW p \in Passwords, RegisterPassword(p)
    PROVE  DialogInv'
<1>1. /\ screen # "confirm" /\ SetPassword(p)
      /\ UNCHANGED <<now, pairs, files, spoiled, countdown, asked, pending, passphrase>>
      /\ \/ Reveal("main") /\ UNCHANGED <<told, lost>>
         \/ Stopped
  BY DEF RegisterPassword, Stopped, clock, code, keypair, prompt
<1> QED
  BY <1>1, PasswordStep

LEMMA GuessStep ==
    ASSUME DialogInv, NEW right \in BOOLEAN, NEW after \in {"main", "signin"}, NEW p \in Passwords,
           screen # "confirm", Guess(right, after, p)
    PROVE  DialogInv'
<1>1. CASE ~right
  <2>1. UNCHANGED <<now, account, screen, next, told, lost, pairs, files, spoiled, countdown,
                    asked, pending, passphrase>>
    BY <1>1 DEF Guess, clock, stored, code, keypair, prompt
  <2>2. Typed'
    BY <2>1, TypesKept DEF DialogInv, Typed
  <2> QED
    BY <2>1, <2>2, FilesKept, ClockKept DEF DialogInv, KeyedIsPast, CodeKnown
<1>2. CASE right
  <2>1. /\ SetPassword(p)
        /\ UNCHANGED <<now, pairs, files, spoiled, countdown, asked, pending, passphrase>>
        /\ \/ Reveal(after) /\ UNCHANGED <<told, lost>>
           \/ Stopped
    BY <1>2 DEF Guess, Stopped, clock, code, keypair, prompt
  <2> QED
    BY <2>1, PasswordStep
<1> QED
  BY <1>1, <1>2

\* Creating an account with a key pair.
LEMMA GenerateStep ==
    ASSUME DialogInv, NEW path \in Paths, NEW saved \in BOOLEAN, GenerateKey(path, saved)
    PROVE  DialogInv'
<1> DEFINE new == [pair |-> pairs + 1, pass |-> passphrase]
<1>1. /\ screen = "register" /\ passphrase # None /\ pairs < MaxPairs /\ pairs' = pairs + 1
      /\ files' = [files EXCEPT ![path] = IF saved THEN new ELSE NoPair]
      /\ pending' = IF saved THEN new ELSE pending
      /\ spoiled' = (spoiled \/ (~saved /\ files[path] # None))
      /\ UNCHANGED <<now, account, screen, next, told, lost, passphrase, countdown, asked>>
  BY DEF GenerateKey, PendingAfter, clock, stored, code, prompt
<1>2. new \in KeyFile /\ NoPair \in KeyFile /\ new # None /\ NoPair # None
  BY <1>1, SignInAssumption DEF DialogInv, Typed, KeyFile, NoPair
<1>3. Typed'
  BY <1>1, <1>2, SignInAssumption DEF DialogInv, Typed
<1>4. PendingOnFile'
  <2>1. CASE saved
    <3>1. files'[path] = new /\ pending' = new
      BY <1>1, <2>1 DEF DialogInv, Typed
    <3> QED
      BY <1>2, <3>1 DEF PendingOnFile, OnFile
  <2>2. CASE ~saved
    <3>1. ~spoiled' => files[path] = None /\ ~spoiled
      BY <1>1, <2>2
    <3>2. \A other \in Paths : files[path] = None /\ files[other] # None => files'[other] = files[other]
      BY <1>1 DEF DialogInv, Typed
    <3> QED
      BY <1>1, <2>2, <3>1, <3>2 DEF DialogInv, PendingOnFile, OnFile
  <2> QED
    BY <2>1, <2>2
<1>5. KeyOnFile' /\ KeyedIsPast'
  BY <1>1 DEF DialogInv, KeyedIsPast, KeyOnFile
<1> QED
  BY <1>1, <1>3, <1>4, <1>5, ClockKept DEF DialogInv, CodeKnown

LEMMA RegisterKeyStep ==
    ASSUME DialogInv, RegisterKey
    PROVE  DialogInv'
<1>1. /\ pending # NoPair
      /\ account' = [method |-> "key", secret |-> pending.pair, code |-> 0]
      /\ screen' = "main"
      /\ UNCHANGED <<now, next, pairs, files, spoiled, countdown, asked, pending, passphrase>>
  BY DEF RegisterKey, clock, keypair, prompt
<1>2. Typed'
  BY <1>1, TypesKept DEF DialogInv, Typed
<1>3. PendingOnFile' /\ KeyOnFile'
  BY <1>1 DEF DialogInv, PendingOnFile, KeyOnFile, OnFile
<1> QED
  BY <1>1, <1>2, <1>3, ClockKept DEF DialogInv, KeyedIsPast, CodeKnown

\* Steps from one dialog to another, and typing into one.
LEMMA DialogStep ==
    ASSUME DialogInv,
           \/ \E p \in Passwords : \/ TypePassphrase(p) \/ SignInPassword(p)
                                  \/ \E path \in Paths : SignInKey(path, p)
           \/ ForgotPassword \/ CancelReset \/ Decline
    PROVE  DialogInv'
<1>1. /\ UNCHANGED <<now, account, next, told, lost, pairs, pending, files, spoiled, countdown,
                     asked>>
      /\ passphrase' \in Passwords \cup {passphrase}
      /\ screen # "reveal"
      /\ screen' \in {"main", "reset", "signin"} \/ screen' = screen
  BY DEF TypePassphrase, SignInPassword, SignInKey, Enter, ForgotPassword, CancelReset, Decline,
         clock, stored, code, keypair, prompt
<1>2. Typed'
  BY <1>1, TypesKept DEF DialogInv, Typed
<1> QED
  BY <1>1, <1>2, FilesKept, ClockKept DEF DialogInv, KeyedIsPast, CodeKnown

\* The deletion: the countdown starts with the prompt.
LEMMA DeleteStep ==
    ASSUME DialogInv, (\E p \in Passwords : ClickDelete(p)) \/ ConfirmDelete
    PROVE  DialogInv'
<1>1. CASE ConfirmDelete
  <2>1. /\ account' = NoAccount /\ screen' = "register"
        /\ UNCHANGED <<now, next, pairs, files, spoiled, countdown, asked>>
        /\ pending' = NoPair /\ passphrase' = None
    BY <1>1 DEF ConfirmDelete, OpenDialog, clock, prompt
  <2>2. Typed'
    BY <2>1, TypesKept DEF DialogInv, Typed
  <2> QED
    BY <2>1, <2>2, FilesKept, ClockKept DEF DialogInv, KeyedIsPast, CodeKnown, NoAccount
<1>2. ASSUME NEW p \in Passwords, ClickDelete(p) PROVE DialogInv'
  <2>1. /\ screen = "main"
        /\ UNCHANGED <<now, next, account, told, lost, pairs, files, spoiled, pending, passphrase>>
        /\ \/ screen' = "confirm" /\ countdown' = ConfirmSeconds /\ asked' = now
           \/ UNCHANGED <<screen, countdown, asked>>
    BY <1>2 DEF ClickDelete, Armed, clock, stored, code, keypair
  <2>2. Typed'
    BY <2>1, SignInAssumption DEF DialogInv, Typed
  <2>3. CountsDown'
    BY <2>1, SignInAssumption DEF DialogInv, Typed, CountsDown
  <2> QED
    BY <2>1, <2>2, <2>3, FilesKept DEF DialogInv, KeyedIsPast, CodeKnown
<1> QED
  BY <1>1, <1>2

LEMMA TickStep ==
    ASSUME DialogInv, Tick
    PROVE  DialogInv'
<1>1. /\ now' = now + 1
      /\ countdown' = IF screen = "confirm" /\ countdown > 0 THEN countdown - 1 ELSE countdown
      /\ UNCHANGED <<account, screen, next, told, lost, pairs, files, spoiled, pending, passphrase,
                     asked>>
  BY DEF Tick, stored, code, keypair
<1>2. Typed' /\ CountsDown'
  BY <1>1, SignInAssumption DEF DialogInv, Typed, CountsDown
<1> QED
  BY <1>1, <1>2, FilesKept DEF DialogInv, KeyedIsPast, CodeKnown

LEMMA DialogsStep == DialogInv /\ [Next]_vars => DialogInv'
<1> SUFFICES ASSUME DialogInv, [Next]_vars PROVE DialogInv'
  OBVIOUS
<1>1. CASE Start \/ End \/ CloseReveal
  BY <1>1, ProgramStep
<1>2. ASSUME NEW p \in Passwords, RegisterPassword(p) PROVE DialogInv'
  BY <1>2, RegisterPasswordStep
<1>3. ASSUME NEW path \in Paths, NEW saved \in BOOLEAN, GenerateKey(path, saved) PROVE DialogInv'
  BY <1>3, GenerateStep
<1>4. CASE RegisterKey
  BY <1>4, RegisterKeyStep
<1>5. CASE \/ \E p \in Passwords : \/ TypePassphrase(p) \/ SignInPassword(p)
                                  \/ \E path \in Paths : SignInKey(path, p)
           \/ ForgotPassword \/ CancelReset \/ Decline
  BY <1>5, DialogStep
<1>6. ASSUME NEW c \in 1..MaxCodes, NEW p \in Passwords, ResetPassword(c, p) PROVE DialogInv'
  <2>1. screen # "confirm" /\ Guess(c = account.code, "signin", p)
    BY <1>6 DEF ResetPassword
  <2> QED
    BY <2>1, GuessStep
<1>7. ASSUME NEW p \in Passwords, NEW q \in Passwords, ChangePassword(p, q) PROVE DialogInv'
  <2>1. screen # "confirm" /\ Guess(p = account.secret, "main", q)
    BY <1>7 DEF ChangePassword
  <2> QED
    BY <2>1, GuessStep
<1>8. CASE (\E p \in Passwords : ClickDelete(p)) \/ ConfirmDelete
  BY <1>8, DeleteStep
<1>9. CASE Tick
  BY <1>9, TickStep
<1>10. CASE UNCHANGED vars
  <2>1. UNCHANGED <<now, account, screen, next, told, lost, pairs, files, spoiled, pending,
                    passphrase, countdown, asked>>
    BY <1>10 DEF vars, clock, stored, code, keypair, prompt
  <2>2. Typed'
    BY <2>1, TypesKept DEF DialogInv, Typed
  <2> QED
    BY <2>1, <2>2, FilesKept, ClockKept DEF DialogInv, KeyedIsPast, CodeKnown
<1> QED
  BY <1>1, <1>2, <1>3, <1>4, <1>5, <1>6, <1>7, <1>8, <1>9, <1>10 DEF Next

-----------------------------------------------------------------------------
(***************************************************************************)
(* The theorems.                                                           *)
(***************************************************************************)
\* The invariant that carries the others (auth_dialog.py:165-346,
\* settings_page.py:259-437).
THEOREM DialogInvariant == Spec => []DialogInv
BY DialogInit, DialogsStep, PTL DEF Spec

\* The user knows the recovery code of the account, unless the handler that drew it
\* was stopped (auth_dialog.py:202-221, recovery_dialog.py).
THEOREM CodeIsKnown == Spec => []CodeKnown
<1>1. DialogInv => CodeKnown
  BY DEF DialogInv
<1> QED
  BY <1>1, DialogInvariant, PTL

\* The private key of an account is in a file, unless a later save over it failed
\* (auth_dialog.py:165-238).
THEOREM KeyIsOnFile == Spec => []KeyOnFile
<1>1. DialogInv => KeyOnFile
  BY DEF DialogInv
<1> QED
  BY <1>1, DialogInvariant, PTL

\* No account is deleted before the whole countdown of its prompt has passed
\* (settings_page.py:64-98, 366-437).
THEOREM DeletionIsDeliberate == Spec => DeletedDeliberately
<1> DEFINE Deliberate == account.method # "none" /\ account'.method = "none"
                             => screen = "confirm" /\ now >= asked + ConfirmSeconds
<1>1. DialogInv /\ [Next]_vars => [Deliberate]_vars
  <2> SUFFICES ASSUME DialogInv, Next PROVE Deliberate
    OBVIOUS
  <2>1. CASE ConfirmDelete
    BY <2>1 DEF ConfirmDelete, DialogInv, CountsDown, Typed
  <2>2. ASSUME NEW p, SetPassword(p) PROVE Deliberate
    BY <2>2 DEF SetPassword
  <2>3. CASE RegisterKey
    BY <2>3 DEF RegisterKey
  <2>4. ASSUME NEW right, NEW after, NEW p, Guess(right, after, p) PROVE Deliberate
    <3>1. CASE right
      BY <2>2, <2>4, <3>1 DEF Guess
    <3>2. CASE ~right
      BY <2>4, <3>2 DEF Guess, stored
    <3> QED
      BY <3>1, <3>2
  <2>5. ASSUME NEW p \in Passwords, RegisterPassword(p) PROVE Deliberate
    BY <2>2, <2>5 DEF RegisterPassword
  <2>6. ASSUME NEW p \in Passwords, NEW c, ResetPassword(c, p) PROVE Deliberate
    BY <2>4, <2>6 DEF ResetPassword
  <2>7. ASSUME NEW p \in Passwords, NEW q \in Passwords, ChangePassword(p, q) PROVE Deliberate
    BY <2>4, <2>7 DEF ChangePassword
  <2>8. CASE UNCHANGED account
    BY <2>8
  <2>9. \/ Start \/ End \/ CloseReveal \/ ForgotPassword \/ CancelReset \/ Decline \/ Tick
        \/ \E p \in Passwords : \/ TypePassphrase(p) \/ SignInPassword(p) \/ ClickDelete(p)
                               \/ \E path \in Paths : SignInKey(path, p)
        \/ \E path \in Paths, saved \in BOOLEAN : GenerateKey(path, saved)
        => UNCHANGED account
    BY DEF Start, End, CloseReveal, ForgotPassword, CancelReset, Decline, Tick, TypePassphrase,
           SignInPassword, ClickDelete, SignInKey, Enter, GenerateKey, stored
  <2> QED
    BY <2>1, <2>3, <2>5, <2>6, <2>7, <2>8, <2>9 DEF Next
<1> QED
  BY <1>1, DialogInvariant, PTL DEF Spec, DeletedDeliberately

-----------------------------------------------------------------------------
(***************************************************************************)
(* How long a lock lasts.                                                  *)
(***************************************************************************)
\* A power of two is the number of subsets of a set, of which there are twice as many
\* with another element in it (2**overflow, lockout_policy.py:36-37).
LEMMA Power2 ==
    ASSUME NEW n \in Nat
    PROVE  2^n \in Nat \ {0} /\ 2^(n + 1) = 2 * 2^n
<1> DEFINE S == SUBSET (1..n)
           T == {s \cup {n + 1} : s \in S}
           add == [s \in S |-> s \cup {n + 1}]
<1>1. /\ IsFiniteSet(1..n) /\ Cardinality(1..n) = n
      /\ IsFiniteSet(1..(n + 1)) /\ Cardinality(1..(n + 1)) = n + 1
  BY FS_Interval
<1>2. IsFiniteSet(S) /\ Cardinality(S) = 2^n /\ Cardinality(SUBSET (1..(n + 1))) = 2^(n + 1)
  BY <1>1, FS_SUBSET
<1>3. SUBSET (1..(n + 1)) = S \cup T
  <2>1. 1..(n + 1) = (1..n) \cup {n + 1}
    OBVIOUS
  <2>2. ASSUME NEW s \in SUBSET (1..(n + 1)), n + 1 \in s PROVE s \in T
    <3>1. s \ {n + 1} \in S /\ s = (s \ {n + 1}) \cup {n + 1}
      BY <2>2
    <3> QED
      BY <3>1
  <2> QED
    BY <2>1, <2>2
<1>4. IsFiniteSet(T) /\ Cardinality(T) = Cardinality(S)
  <2>1. \A s, t \in S : s \cup {n + 1} = t \cup {n + 1} => s = t
    OBVIOUS
  <2>2. add \in [S -> T]
    OBVIOUS
  <2>3. \A s, t \in S : add[s] = add[t] => s = t
    BY <2>1
  <2>4. \A t \in T : \E s \in S : add[s] = t
    OBVIOUS
  <2> HIDE DEF add, S, T
  <2>5. add \in Bijection(S, T)
    BY <2>2, <2>3, <2>4, Fun_IsBij
  <2> QED
    BY <1>2, <2>5, FS_Bijection DEF ExistsBijection
<1>5. Cardinality(S) \in Nat /\ Cardinality(S) # 0
  <2>1. {} \in S
    OBVIOUS
  <2> QED
    BY <1>2, <2>1, FS_CardinalityType, FS_EmptySet
<1>6. Cardinality(S \cup T) = 2 * Cardinality(S)
  <2>1. S \cap T = {}
    OBVIOUS
  <2>2. Cardinality(S \cap T) = 0
    BY <2>1, FS_EmptySet
  <2>3. Cardinality(S \cup T) = Cardinality(S) + Cardinality(T) - Cardinality(S \cap T)
    BY <1>2, <1>4, FS_Union
  <2> HIDE DEF S, T
  <2> QED
    BY <1>4, <1>5, <2>2, <2>3
<1> HIDE DEF S, T
<1>7. 2^(n + 1) = 2 * Cardinality(S)
  BY <1>2, <1>3, <1>6
<1> QED
  BY <1>2, <1>5, <1>7

\* The seconds start with the base, and double with every failure up to the cap
\* (lockout_policy.py:33-38).
LEMMA SecondsDouble ==
    ASSUME NEW failed \in Nat, failed >= Threshold
    PROVE  /\ LockoutSeconds(failed) \in 1..Cap
           /\ failed = Threshold => LockoutSeconds(failed) = Base
           /\ LockoutSeconds(failed + 1) = Smaller(2 * LockoutSeconds(failed), Cap)
<1> DEFINE n == failed - Threshold
           m == 2^n
<1>1. n \in Nat /\ (failed + 1) - Threshold = n + 1
  BY LockoutAssumption
<1>2. m \in Nat \ {0} /\ 2^(n + 1) = 2 * m
  BY <1>1, Power2
<1>3. failed = Threshold => m = 1
  <2>1. 2^0 = 1
    OBVIOUS
  <2>2. failed = Threshold => n = 0
    BY LockoutAssumption
  <2> QED
    BY <2>1, <2>2
<1>4. LockoutSeconds(failed) = Smaller(Base * m, Cap)
      /\ LockoutSeconds(failed + 1) = Smaller(Base * (2 * m), Cap)
  BY <1>1, <1>2 DEF LockoutSeconds
<1> HIDE DEF m, n
<1>5. PICK b \in Nat \ {0} : b = Base * m
  BY <1>2, LockoutAssumption
<1>6. Base * (2 * m) = 2 * b /\ (failed = Threshold => b = Base)
  BY <1>2, <1>3, <1>5, LockoutAssumption
<1> QED
  BY <1>4, <1>5, <1>6, LockoutAssumption DEF Smaller

\* What a lock is, it remains when it is opened and after the next failure, which
\* waits twice as long.
LEMMA TimedWait ==
    ASSUME NEW k, NEW at, Timed(k, at)
    PROVE  /\ k.failed < Threshold => Imposed(k, at) = 0
           /\ k.failed >= Threshold => Imposed(k, at) = LockoutSeconds(k.failed)
           /\ k.until \in 0..(at + Cap)
           /\ \A time \in Nat : ~IsLocked(k, time) /\ time >= at => time >= at + Imposed(k, at)
<1>1. CASE k.failed < Threshold
  BY <1>1, LockoutAssumption DEF Timed, Imposed, IsLocked
<1>2. CASE k.failed >= Threshold
  <2>1. LockoutSeconds(k.failed) \in 1..Cap
    BY <1>2, SecondsDouble DEF Timed
  <2> QED
    BY <1>2, <2>1, LockoutAssumption DEF Timed, Imposed, IsLocked
<1> QED
  BY <1>1, <1>2, LockoutAssumption DEF Timed

LEMMA TimedUnlocked ==
    ASSUME NEW at \in Nat
    PROVE  Timed(Unlocked, at) /\ Unlocked.failed = 0 /\ Imposed(Unlocked, at) = 0
BY LockoutAssumption DEF Timed, Imposed, Unlocked

LEMMA TimedFailure ==
    ASSUME NEW k, NEW at, Timed(k, at), NEW time \in Nat
    PROVE  /\ Timed(AfterFailure(k, time), time)
           /\ AfterFailure(k, time).failed = k.failed + 1
           /\ Imposed(AfterFailure(k, time), time) = Lock!Longer(k.failed + 1, Imposed(k, at))
<1> DEFINE failed == k.failed + 1
           after  == AfterFailure(k, time)
<1>1. failed \in Nat /\ after.failed = failed
  BY DEF AfterFailure, Timed
<1>2. Timed(after, time)
  <2>1. after = [failed |-> failed,
                 until  |-> IF failed >= Threshold THEN time + LockoutSeconds(failed) ELSE k.until]
    BY DEF AfterFailure
  <2>2. failed >= Threshold => LockoutSeconds(failed) \in Nat
    BY <1>1, SecondsDouble
  <2> QED
    BY <1>1, <2>1, <2>2, LockoutAssumption DEF Timed
<1> HIDE DEF after
<1>3. Imposed(after, time) = IF failed < Threshold THEN 0 ELSE LockoutSeconds(failed)
  BY <1>1, <1>2, TimedWait, LockoutAssumption
<1>4. ASSUME failed > Threshold
      PROVE  LockoutSeconds(failed) = Smaller(2 * Imposed(k, at), Cap)
  BY <1>4, SecondsDouble, TimedWait, LockoutAssumption DEF Timed
<1>5. failed = Threshold => LockoutSeconds(failed) = Base
  BY <1>1, SecondsDouble
<1>6. Imposed(k, at) \in Nat
  BY TimedWait, SecondsDouble, LockoutAssumption DEF Timed
<1>7. Imposed(after, time) = Lock!Longer(failed, Imposed(k, at))
  BY <1>1, <1>3, <1>4, <1>5, <1>6, LockoutAssumption DEF Lock!Longer, Smaller
<1> QED
  BY <1>1, <1>2, <1>7 DEF after

-----------------------------------------------------------------------------
(***************************************************************************)
(* The lock.                                                               *)
(***************************************************************************)
\* The lock is what the count of wrong guesses and the time of the last one make it.
LockInv ==
    /\ now \in 0..MaxTime /\ missed <= now
    /\ Timed(lock, missed)

\* What a step does to the lock: nothing but to let time pass, or count a guess or
\* forgive them all, neither of an account that is locked.
Idles    == UNCHANGED <<now, lock, missed>>
Counts   == ~IsLocked(lock, now) /\ lock' = AfterFailure(lock, now) /\ missed' = now /\ now' = now
Forgives == ~IsLocked(lock, now) /\ lock' = Unlocked /\ UNCHANGED <<now, missed>>

\* Every place that asks for a secret goes through the lock.
LEMMA CheckMoves ==
    ASSUME NEW right \in BOOLEAN, Check(right), UNCHANGED now
    PROVE  Counts \/ Forgives
BY DEF Check, MayGuess, Right, Wrong, Counts, Forgives

LEMMA LockSteps == [Next]_vars => Idles \/ Tick \/ Counts \/ Forgives
<1> SUFFICES ASSUME [Next]_vars PROVE Idles \/ Tick \/ Counts \/ Forgives
  OBVIOUS
<1>1. ASSUME \/ Start \/ End \/ CloseReveal \/ ForgotPassword \/ CancelReset \/ Decline
             \/ UNCHANGED vars
      PROVE  Idles
  BY <1>1 DEF Start, End, CloseReveal, ForgotPassword, CancelReset, Decline, vars, clock, guesses, Idles
<1>2. ASSUME NEW p \in Passwords, RegisterPassword(p)
      PROVE  Idles \/ Forgives
  <2>1. CASE Stopped /\ UNCHANGED guesses
    BY <2>1 DEF Stopped, guesses, Idles
  <2>2. CASE Check(TRUE) /\ UNCHANGED clock
    BY <2>2 DEF Check, MayGuess, Right, clock, Forgives
  <2> QED
    BY <1>2, <2>1, <2>2 DEF RegisterPassword
<1>3. ASSUME NEW p \in Passwords, TypePassphrase(p) PROVE Idles
  BY <1>3 DEF TypePassphrase, clock, guesses, Idles
<1>4. ASSUME NEW path \in Paths, NEW saved \in BOOLEAN, GenerateKey(path, saved) PROVE Idles
  BY <1>4 DEF GenerateKey, clock, guesses, Idles
<1>5. ASSUME RegisterKey PROVE Counts \/ Forgives
  BY <1>5, CheckMoves DEF RegisterKey, clock
<1>6. ASSUME NEW right \in BOOLEAN, Enter(right) PROVE Counts \/ Forgives
  BY <1>6, CheckMoves DEF Enter, clock
<1>7. ASSUME NEW p \in Passwords, SignInPassword(p) PROVE Counts \/ Forgives
  BY <1>6, <1>7 DEF SignInPassword
<1>8. ASSUME NEW p \in Passwords, NEW path \in Paths, SignInKey(path, p) PROVE Counts \/ Forgives
  BY <1>6, <1>8 DEF SignInKey
<1>9. ASSUME NEW right \in BOOLEAN, NEW after, NEW p, Guess(right, after, p)
      PROVE  Counts \/ Forgives
  <2>1. Check(right) /\ UNCHANGED now
    BY <1>9 DEF Guess, Stopped, clock
  <2> QED
    BY <2>1, CheckMoves
<1>10. ASSUME NEW c \in 1..MaxCodes, NEW p \in Passwords, ResetPassword(c, p)
       PROVE  Counts \/ Forgives
  BY <1>9, <1>10 DEF ResetPassword
<1>11. ASSUME NEW p \in Passwords, NEW q \in Passwords, ChangePassword(p, q)
       PROVE  Counts \/ Forgives
  BY <1>9, <1>11 DEF ChangePassword
<1>12. ASSUME NEW p \in Passwords, ClickDelete(p) PROVE Counts \/ Forgives
  BY <1>12, CheckMoves DEF ClickDelete, clock
<1>13. ASSUME ConfirmDelete PROVE Counts \/ Forgives
  BY <1>13, CheckMoves DEF ConfirmDelete, clock
<1> QED
  BY <1>1, <1>2, <1>3, <1>4, <1>5, <1>7, <1>8, <1>10, <1>11, <1>12, <1>13 DEF Next

LEMMA LockInit == Init => LockInv
BY SignInAssumption, TimedUnlocked DEF Init, LockInv

LEMMA LockStep == LockInv /\ [Next]_vars => LockInv'
<1> SUFFICES ASSUME LockInv, [Next]_vars PROVE LockInv'
  OBVIOUS
<1>1. now \in Nat /\ now <= MaxTime /\ missed \in Nat /\ missed <= now /\ Timed(lock, missed)
  BY SignInAssumption DEF LockInv, Timed
<1>2. CASE Idles
  BY <1>2 DEF Idles, LockInv, Timed
<1>3. CASE Tick
  BY <1>1, <1>3, SignInAssumption DEF Tick, guesses, LockInv, Timed
<1>4. CASE Counts
  <2>1. Timed(lock', missed')
    BY <1>1, <1>4, TimedFailure DEF Counts
  <2> QED
    BY <1>1, <1>4, <2>1, SignInAssumption DEF Counts, LockInv, Timed
<1>5. CASE Forgives
  <2>1. Timed(lock', missed')
    BY <1>1, <1>5, TimedUnlocked DEF Forgives
  <2> QED
    BY <1>1, <1>5, <2>1, SignInAssumption DEF Forgives, LockInv, Timed
<1> QED
  BY <1>2, <1>3, <1>4, <1>5, LockSteps

\* The lock's invariant: below the threshold the account is not locked, from it on it
\* is until the last wrong guess and the seconds for so many (lockout_policy.py:33-38).
THEOREM LockInvariant == Spec => []LockInv
<1>1. Init => LockInv
  BY LockInit
<1>2. LockInv /\ [Next]_vars => LockInv'
  BY LockStep
<1> QED
  BY <1>1, <1>2, PTL DEF Spec

\* Each step of the dialogs is a step of a paced lock that forgets nothing for a
\* restart, or none of its business.
LEMMA PacedStep ==
    ASSUME LockInv, [Next]_vars
    PROVE  [Lock!Pass \/ Lock!Miss \/ Lock!Forget]_<<now, lock.failed, missed, Imposed(lock, missed)>>
<1>1. now \in Nat /\ missed \in Nat /\ missed <= now /\ Timed(lock, missed)
  BY SignInAssumption DEF LockInv, Timed
<1>2. Imposed(lock, missed)' = Imposed(lock', missed')
  BY DEF Imposed
<1>3. ~IsLocked(lock, now) => Lock!Due
  BY <1>1, TimedWait DEF Lock!Due
<1>4. CASE Idles
  BY <1>2, <1>4 DEF Idles
<1>5. CASE Tick
  BY <1>2, <1>5 DEF Tick, guesses, Lock!Pass
<1>6. CASE Counts
  <2>1. /\ lock'.failed = lock.failed + 1
        /\ Imposed(lock', missed') = Lock!Longer(lock.failed + 1, Imposed(lock, missed))
    BY <1>1, <1>6, TimedFailure DEF Counts
  <2> QED
    BY <1>2, <1>3, <1>6, <2>1 DEF Counts, Lock!Miss
<1>7. CASE Forgives
  <2>1. lock'.failed = 0 /\ Imposed(lock', missed') = 0
    BY <1>1, <1>7, TimedUnlocked DEF Forgives
  <2> QED
    BY <1>2, <1>3, <1>7, <2>1 DEF Forgives, Lock!Forget
<1> QED
  BY <1>4, <1>5, <1>6, <1>7, LockSteps

\* PacedGuesses: the lock of an account implements a paced lock, whatever the threshold,
\* the base and the cap, in all the dialogs and pages together and across restarts
\* (auth_dialog.py:165-346, settings_page.py:259-437, lockout_policy.py:24-43).
THEOREM GuessesArePaced == Spec => PacedGuesses
<1>1. Init => Lock!Init
  BY TimedUnlocked DEF Init, Lock!Init, Imposed, Unlocked
<1>2. LockInv /\ [Next]_vars
         => [Lock!Pass \/ Lock!Miss \/ Lock!Forget]_<<now, lock.failed, missed, Imposed(lock, missed)>>
  BY PacedStep
<1> QED
  BY <1>1, <1>2, LockInvariant, PTL DEF Spec, PacedGuesses, Lock!Spec
-----------------------------------------------------------------------------
(***************************************************************************)
(* The lock without its durations.                                         *)
(***************************************************************************)
\* The failure that reaches the threshold, and every one after it, locks at once and for
\* some time; no other does.
LEMMA FailureLocks ==
    ASSUME NEW k, NEW at, Timed(k, at), NEW time \in Nat
    PROVE  IsLocked(AfterFailure(k, time), time) <=> k.failed + 1 >= Threshold
<1> DEFINE after == AfterFailure(k, time)
<1>1. /\ Timed(after, time) /\ after.failed = k.failed + 1
      /\ after.failed \in Nat
  BY TimedFailure DEF Timed
<1> SUFFICES IsLocked(after, time) <=> after.failed >= Threshold
  BY <1>1
<1> HIDE DEF after
<1>2. CASE after.failed < Threshold
  BY <1>1, <1>2, LockoutAssumption DEF Timed, IsLocked
<1>3. CASE after.failed >= Threshold
  <2>1. LockoutSeconds(after.failed) \in 1..Cap /\ after.until = time + LockoutSeconds(after.failed)
    BY <1>1, <1>3, SecondsDouble DEF Timed
  <2> QED
    BY <1>1, <1>3, <2>1, LockoutAssumption DEF IsLocked
<1> QED
  BY <1>1, <1>2, <1>3, LockoutAssumption

\* Each step of the dialogs is a step of the lock that Vault counts with, or none of its
\* business: a lock runs out when the clock reaches its end.
LEMMA StrikeStep ==
    ASSUME LockInv, [Next]_vars
    PROVE  [StrikeCount!Strike \/ StrikeCount!Forgive \/ StrikeCount!Expire]_<<Smaller(lock.failed, Threshold), IsLocked(lock, now)>>
<1> DEFINE strikes(k)    == Smaller(k.failed, Threshold)
           out(k, time) == IsLocked(k, time)
<1>1. /\ now \in Nat /\ missed \in Nat /\ missed <= now /\ Timed(lock, missed)
      /\ lock.failed \in Nat /\ lock.until \in Nat
  BY SignInAssumption DEF LockInv, Timed
<1>2. /\ Smaller(lock.failed, Threshold)' = strikes(lock')
      /\ IsLocked(lock, now)' = out(lock', now')
  BY DEF Smaller, IsLocked
<1>3. CASE Idles
  BY <1>2, <1>3 DEF Idles
<1>4. CASE Tick
  <2>1. now' = now + 1 /\ lock' = lock
    BY <1>4 DEF Tick, guesses
  <2>2. ~IsLocked(lock, now) => ~IsLocked(lock, now + 1)
    BY <1>1 DEF IsLocked
  <2>3. out(lock, now + 1) = out(lock, now) \/ (out(lock, now) /\ out(lock, now + 1) = FALSE)
    BY <2>2 DEF IsLocked
  <2> QED
    BY <1>2, <2>1, <2>3 DEF StrikeCount!Expire
<1>5. CASE Counts
  <2>1. lock' = AfterFailure(lock, now) /\ now' = now /\ ~IsLocked(lock, now)
    BY <1>5 DEF Counts
  <2>2. IsLocked(lock', now') <=> lock.failed + 1 >= Threshold
    BY <1>1, <2>1, FailureLocks
  <2>3. lock'.failed = lock.failed + 1
    BY <1>1, <2>1, TimedFailure
  <2>4. strikes(lock') = IF strikes(lock) < Threshold THEN strikes(lock) + 1 ELSE Threshold
    BY <1>1, <2>3, LockoutAssumption DEF Smaller
  <2>5. strikes(lock') = Threshold <=> lock.failed + 1 >= Threshold
    BY <1>1, <2>3, LockoutAssumption DEF Smaller
  <2>6. out(lock', now') = (strikes(lock') = Threshold)
    BY <2>2, <2>5 DEF IsLocked
  <2> QED
    BY <1>2, <2>1, <2>4, <2>6 DEF StrikeCount!Strike
<1>6. CASE Forgives
  <2>1. lock' = Unlocked /\ now' = now /\ out(lock, now) = FALSE
    BY <1>6 DEF Forgives, IsLocked
  <2>2. strikes(Unlocked) = 0 /\ out(Unlocked, now) = FALSE
    BY <1>1, LockoutAssumption DEF Unlocked, Smaller, IsLocked
  <2> QED
    BY <1>2, <2>1, <2>2 DEF StrikeCount!Forgive
<1> QED
  BY <1>3, <1>4, <1>5, <1>6, LockSteps

\* LocksOut: the account's lock with its durations, through all the dialogs and pages
\* that ask for a secret, does what the lock without them does that Vault has
\* (auth_controller.py:413-446, lockout_policy.py:24-43).
THEOREM AccountLocksOut == Spec => LocksOut
<1>1. Init => StrikeCount!Init
  BY SignInAssumption, LockoutAssumption DEF Init, StrikeCount!Init, Unlocked, Smaller, IsLocked
<1>2. LockInv /\ [Next]_vars
         => [StrikeCount!Strike \/ StrikeCount!Forgive \/ StrikeCount!Expire]_<<Smaller(lock.failed, Threshold), IsLocked(lock, now)>>
  BY StrikeStep
<1> QED
  BY <1>1, <1>2, LockInvariant, PTL DEF Spec, LocksOut, StrikeCount!Spec
-----------------------------------------------------------------------------
(***************************************************************************)
(* Types.                                                                  *)
(***************************************************************************)
RowTyped ==
    /\ codes \in 0..MaxCodes /\ told \in 0..codes /\ lost \in BOOLEAN
    /\ account \in [method : {"none", "password", "key"},
                    secret : Passwords \cup (1..MaxPairs) \cup {None}, code : 0..codes]

\* A pair that is pending was generated.
KeysTyped ==
    /\ pairs \in 0..MaxPairs
    /\ passphrase \in Passwords \cup {None}
    /\ pending \in KeyFile /\ (pending # NoPair => pending.pair # 0)
    /\ files \in [Paths -> KeyFile \cup {None}]
    /\ spoiled \in BOOLEAN

\* There is a session on the pages, and on the way to them, only.
ScreenTyped ==
    /\ screen \in Screens /\ next \in {"main", "signin"}
    /\ session \in {"none", "real", "decoy"} /\ joined \in BOOLEAN
    /\ session # "none" <=> screen \in {"main", "confirm"} \/ (screen = "reveal" /\ next = "main")
    /\ account.method = "none" => screen \in {"off", "register"}

TimeTyped ==
    /\ now \in 0..MaxTime /\ stops \in 0..MaxStops
    /\ countdown \in 0..ConfirmSeconds /\ asked \in 0..now

TypeInv == RowTyped /\ KeysTyped /\ ScreenTyped /\ TimeTyped

LEMMA TypeInit == Init => TypeInv
<1> SUFFICES ASSUME Init PROVE TypeInv
  OBVIOUS
<1>1. RowTyped
  <2>1. codes \in 0..MaxCodes /\ told \in 0..codes /\ 0 \in 0..codes
    BY SignInAssumption DEF Init
  <2>2. account = [method |-> "none", secret |-> None, code |-> 0] /\ lost \in BOOLEAN
    BY DEF Init, NoAccount
  <2> QED
    BY <2>1, <2>2 DEF RowTyped
<1>2. KeysTyped
  <2>1. pairs \in 0..MaxPairs /\ NoPair \in KeyFile /\ pending = NoPair
    BY SignInAssumption DEF Init, KeyFile, NoPair
  <2>2. spoiled \in BOOLEAN /\ files \in [Paths -> KeyFile \cup {None}]
    BY DEF Init
  <2>3. passphrase = None
    BY DEF Init
  <2> QED
    BY <2>1, <2>2, <2>3 DEF KeysTyped
<1>3. ScreenTyped
  BY DEF Init, ScreenTyped, Screens, NoAccount
<1>4. TimeTyped
  BY SignInAssumption DEF Init, TimeTyped
<1> QED
  BY <1>1, <1>2, <1>3, <1>4 DEF TypeInv

\* Steps that leave a part of the state alone.
LEMMA RowKept == ASSUME TypeInv, UNCHANGED <<codes, told, account>>, lost' \in BOOLEAN PROVE RowTyped'
BY DEF TypeInv, RowTyped

LEMMA KeysKept ==
    ASSUME TypeInv, UNCHANGED <<pairs, files, spoiled>>, passphrase' \in Passwords \cup {None},
           pending' \in {pending, NoPair}
    PROVE  KeysTyped'
<1>1. NoPair \in KeyFile
  BY SignInAssumption DEF KeyFile, NoPair
<1> QED
  BY <1>1 DEF TypeInv, KeysTyped

LEMMA TimeKept ==
    ASSUME TypeInv, UNCHANGED <<now, stops, countdown, asked>> PROVE TimeTyped'
BY DEF TypeInv, TimeTyped

\* The account is replaced by one with a password and a new code.
LEMMA SetPasswordTyped ==
    ASSUME TypeInv, NEW p \in Passwords, SetPassword(p), told' = told, lost' \in BOOLEAN
    PROVE  RowTyped' /\ account'.method = "password"
<1>1. codes \in Nat /\ MaxCodes \in Nat /\ codes < MaxCodes /\ codes' = codes + 1
  BY SignInAssumption DEF TypeInv, RowTyped, SetPassword
<1>2. account' = [method |-> "password", secret |-> p, code |-> codes']
  BY DEF SetPassword
<1> QED
  BY <1>1, <1>2 DEF TypeInv, RowTyped

LEMMA StoppedTyped ==
    ASSUME TypeInv, NEW p \in Passwords, SetPassword(p), Stopped,
           session # "none" \/ screen # "main", screen \in {"register", "reset", "main"}
    PROVE  TypeInv'
<1>1. /\ stops < MaxStops /\ stops' = stops + 1 /\ lost' = TRUE
      /\ UNCHANGED <<now, next, told, pairs, passphrase, pending, files, spoiled, countdown, asked>>
  BY DEF Stopped, keypair, prompt
<1>2. RowTyped' /\ account'.method = "password"
  BY <1>1, SetPasswordTyped
<1>3. KeysTyped'
  BY <1>1, KeysKept DEF TypeInv, KeysTyped
<1>4. TimeTyped'
  BY <1>1, SignInAssumption DEF TypeInv, TimeTyped
<1>5. ScreenTyped'
  <2>1. CASE UNCHANGED <<screen, user>>
    BY <1>1, <1>2, <2>1 DEF TypeInv, ScreenTyped, user
  <2>2. CASE screen' = "off" /\ session' = "none" /\ joined' = FALSE
    BY <1>1, <1>2, <2>2 DEF TypeInv, ScreenTyped, Screens
  <2> QED
    BY <2>1, <2>2 DEF Stopped
<1> QED
  BY <1>2, <1>3, <1>4, <1>5 DEF TypeInv

LEMMA ProgramTyped ==
    ASSUME TypeInv, Start \/ End \/ CloseReveal
    PROVE  TypeInv'
<1>1. CASE Start
  <2>1. /\ UNCHANGED <<now, stops, codes, account, next, told, lost, pairs, files, spoiled, countdown, asked>>
        /\ passphrase' = None /\ pending' = NoPair
        /\ screen' = IF account.method = "none" THEN "register" ELSE "signin"
        /\ session' = "none" /\ joined' = FALSE
    BY <1>1 DEF Start, OpenDialog, clock, stored, code, prompt
  <2>2. ScreenTyped'
    BY <2>1 DEF TypeInv, ScreenTyped, Screens
  <2>3. lost' \in BOOLEAN
    BY <2>1 DEF TypeInv, RowTyped
  <2> QED
    BY <2>1, <2>2, <2>3, RowKept, KeysKept, TimeKept DEF TypeInv
<1>2. CASE End
  <2>1. /\ UNCHANGED <<now, stops, codes, account, next, told, pairs, files, spoiled, countdown, asked>>
        /\ passphrase' = None /\ pending' = NoPair
        /\ screen' = "off" /\ session' = "none" /\ joined' = FALSE
        /\ lost' \in BOOLEAN
    BY <1>2 DEF End, clock, stored, prompt
  <2>2. ScreenTyped'
    BY <2>1 DEF TypeInv, ScreenTyped, Screens
  <2> QED
    BY <2>1, <2>2, RowKept, KeysKept, TimeKept DEF TypeInv
<1>3. CASE CloseReveal
  <2>1. /\ UNCHANGED <<now, stops, codes, account, next, session, joined, pairs, passphrase, pending,
                       files, spoiled, countdown, asked>>
        /\ screen = "reveal" /\ screen' = next /\ told' = account.code /\ lost' = FALSE
    BY <1>3 DEF CloseReveal, clock, stored, user, keypair, prompt
  <2>2. RowTyped'
    BY <2>1 DEF TypeInv, RowTyped
  <2>3. ScreenTyped'
    BY <2>1 DEF TypeInv, ScreenTyped, Screens
  <2>4. KeysTyped'
    BY <2>1, KeysKept DEF TypeInv, KeysTyped
  <2> QED
    BY <2>1, <2>2, <2>3, <2>4, TimeKept DEF TypeInv
<1> QED
  BY <1>1, <1>2, <1>3

LEMMA RegisterPasswordTyped ==
    ASSUME TypeInv, NEW p \in Passwords, RegisterPassword(p)
    PROVE  TypeInv'
<1>1. screen = "register" /\ SetPassword(p)
  BY DEF RegisterPassword
<1>2. CASE Stopped
  BY <1>1, <1>2, StoppedTyped
<1>3. CASE /\ session' = "real" /\ joined' = TRUE /\ Reveal("main")
           /\ UNCHANGED <<clock, code, keypair, prompt>>
  <2>1. /\ UNCHANGED <<now, stops, told, lost, pairs, passphrase, pending, files, spoiled, countdown, asked>>
        /\ screen' = "reveal" /\ next' = "main"
    BY <1>3 DEF Reveal, clock, code, keypair, prompt
  <2>2. RowTyped' /\ account'.method = "password"
    BY <1>1, <2>1, SetPasswordTyped DEF TypeInv, RowTyped
  <2>3. ScreenTyped'
    BY <1>3, <2>1, <2>2 DEF ScreenTyped, Screens
  <2>4. KeysTyped'
    BY <2>1, KeysKept DEF TypeInv, KeysTyped
  <2> QED
    BY <2>1, <2>2, <2>3, <2>4, TimeKept DEF TypeInv
<1> QED
  BY <1>2, <1>3 DEF RegisterPassword

LEMMA GuessTyped ==
    ASSUME TypeInv, NEW right \in BOOLEAN, NEW after, NEW p \in Passwords,
           (screen = "reset" /\ after = "signin") \/ (screen = "main" /\ after = "main"),
           Guess(right, after, p)
    PROVE  TypeInv'
<1>1. CASE ~right
  <2>1. UNCHANGED <<now, stops, codes, account, screen, next, session, joined, told, lost, pairs,
                    passphrase, pending, files, spoiled, countdown, asked>>
    BY <1>1 DEF Guess, clock, stored, user, code, keypair, prompt
  <2> QED
    BY <2>1 DEF TypeInv, RowTyped, KeysTyped, ScreenTyped, TimeTyped
<1>2. CASE right /\ Stopped
  <2>1. SetPassword(p) /\ (session # "none" \/ screen # "main")
    BY <1>2 DEF Guess, TypeInv, ScreenTyped
  <2> QED
    BY <1>2, <2>1, StoppedTyped
<1>3. CASE right /\ Reveal(after) /\ UNCHANGED <<clock, user, code, keypair, prompt>>
  <2>1. /\ UNCHANGED <<now, stops, session, joined, told, lost, pairs, passphrase, pending, files,
                       spoiled, countdown, asked>>
        /\ screen' = "reveal" /\ next' = after /\ SetPassword(p)
    BY <1>3 DEF Guess, Reveal, clock, user, code, keypair, prompt
  <2>2. RowTyped' /\ account'.method = "password"
    BY <2>1, SetPasswordTyped DEF TypeInv, RowTyped
  <2>3. ScreenTyped'
    BY <2>1, <2>2 DEF TypeInv, ScreenTyped, Screens
  <2>4. KeysTyped'
    BY <2>1, KeysKept DEF TypeInv, KeysTyped
  <2> QED
    BY <2>1, <2>2, <2>3, <2>4, TimeKept DEF TypeInv
<1> QED
  BY <1>1, <1>2, <1>3 DEF Guess

LEMMA GenerateTyped ==
    ASSUME TypeInv, NEW path \in Paths, NEW saved \in BOOLEAN, GenerateKey(path, saved)
    PROVE  TypeInv'
<1> DEFINE new == [pair |-> pairs + 1, pass |-> passphrase]
<1>1. /\ pairs < MaxPairs /\ pairs' = pairs + 1
      /\ files' = [files EXCEPT ![path] = IF saved THEN new ELSE NoPair]
      /\ pending' = IF saved THEN new ELSE pending
      /\ spoiled' = (spoiled \/ (~saved /\ files[path] # None))
      /\ UNCHANGED <<now, stops, codes, account, screen, next, session, joined, told, lost,
                     passphrase, countdown, asked>>
  BY DEF GenerateKey, PendingAfter, clock, stored, user, code, prompt
<1>2. pairs' \in 0..MaxPairs /\ new \in KeyFile /\ new.pair # 0 /\ NoPair \in KeyFile
  BY <1>1, SignInAssumption DEF TypeInv, KeysTyped, KeyFile, NoPair
<1>3. spoiled' \in BOOLEAN
  BY <1>1
<1> HIDE DEF new
<1>4. files' \in [Paths -> KeyFile \cup {None}] /\ pending' \in KeyFile
      /\ (pending' # NoPair => pending'.pair # 0)
  BY <1>1, <1>2 DEF TypeInv, KeysTyped
<1>5. KeysTyped'
  BY <1>1, <1>2, <1>3, <1>4 DEF TypeInv, KeysTyped
<1>6. RowTyped' /\ ScreenTyped' /\ TimeTyped'
  BY <1>1 DEF TypeInv, RowTyped, ScreenTyped, TimeTyped
<1> QED
  BY <1>5, <1>6 DEF TypeInv

LEMMA RegisterKeyTyped ==
    ASSUME TypeInv, RegisterKey
    PROVE  TypeInv'
<1>1. /\ pending # NoPair
      /\ account' = [method |-> "key", secret |-> pending.pair, code |-> 0]
      /\ screen' = "main" /\ session' \in {"real", "decoy"} /\ joined' = TRUE
      /\ UNCHANGED <<now, stops, codes, next, told, lost, pairs, passphrase, pending, files, spoiled,
                     countdown, asked>>
  BY DEF RegisterKey, clock, code, keypair, prompt
<1>2. pending.pair \in 1..MaxPairs
  BY <1>1, SignInAssumption DEF TypeInv, KeysTyped, KeyFile
<1>3. RowTyped'
  BY <1>1, <1>2, SignInAssumption DEF TypeInv, RowTyped
<1>4. ScreenTyped'
  BY <1>1 DEF TypeInv, ScreenTyped, Screens
<1>5. KeysTyped' /\ TimeTyped'
  BY <1>1 DEF TypeInv, KeysTyped, TimeTyped
<1> QED
  BY <1>3, <1>4, <1>5 DEF TypeInv

\* Steps from one dialog to another, and typing into one.
LEMMA DialogTyped ==
    ASSUME TypeInv,
           \/ \E p \in Passwords : \/ TypePassphrase(p) \/ SignInPassword(p)
                                  \/ \E path \in Paths : SignInKey(path, p)
           \/ ForgotPassword \/ CancelReset \/ Decline
    PROVE  TypeInv'
<1>1. /\ UNCHANGED <<now, stops, codes, account, next, told, lost, pairs, pending, files, spoiled,
                     countdown, asked>>
      /\ passphrase' \in Passwords \cup {passphrase}
  BY DEF TypePassphrase, SignInPassword, SignInKey, Enter, ForgotPassword, CancelReset, Decline,
         clock, stored, code, keypair, prompt
<1>2. \/ UNCHANGED <<screen, session, joined>>
      \/ /\ screen = "signin" /\ account.method # "none"
         /\ screen' = "main" /\ session' \in {"real", "decoy"} /\ joined' = joined
      \/ /\ UNCHANGED <<session, joined>>
         /\ \/ screen = "signin" /\ screen' = "reset"
            \/ screen = "reset" /\ screen' = "signin"
            \/ screen = "confirm" /\ screen' = "main"
  BY DEF TypePassphrase, SignInPassword, SignInKey, Enter, ForgotPassword, CancelReset, Decline, user
<1>3. ScreenTyped'
  BY <1>1, <1>2 DEF TypeInv, ScreenTyped, Screens
<1>4. KeysTyped'
  BY <1>1, KeysKept DEF TypeInv, KeysTyped
<1>5. RowTyped' /\ TimeTyped'
  BY <1>1 DEF TypeInv, RowTyped, TimeTyped
<1> QED
  BY <1>3, <1>4, <1>5 DEF TypeInv

LEMMA DeleteTyped ==
    ASSUME TypeInv, (\E p \in Passwords : ClickDelete(p)) \/ ConfirmDelete
    PROVE  TypeInv'
<1>1. CASE ConfirmDelete
  <2>1. /\ account' = NoAccount /\ lost' = FALSE
        /\ screen' = "register" /\ session' = "none" /\ joined' = FALSE
        /\ passphrase' = None /\ pending' = NoPair
        /\ UNCHANGED <<now, stops, codes, next, told, pairs, files, spoiled, countdown, asked>>
    BY <1>1 DEF ConfirmDelete, OpenDialog, clock, prompt
  <2>2. RowTyped'
    <3>1. codes \in 0..MaxCodes /\ told \in 0..codes /\ 0 \in 0..codes
      BY SignInAssumption DEF TypeInv, RowTyped
    <3>2. lost' \in BOOLEAN /\ account' = [method |-> "none", secret |-> None, code |-> 0]
      BY <2>1 DEF NoAccount
    <3> QED
      BY <2>1, <3>1, <3>2 DEF RowTyped
  <2>3. ScreenTyped'
    BY <2>1 DEF TypeInv, ScreenTyped, Screens
  <2> QED
    BY <2>1, <2>2, <2>3, KeysKept, TimeKept DEF TypeInv
<1>2. ASSUME NEW p \in Passwords, ClickDelete(p) PROVE TypeInv'
  <2>1. /\ screen = "main" /\ account.method = "password"
        /\ UNCHANGED <<now, stops, codes, account, next, session, joined, told, lost, pairs,
                       passphrase, pending, files, spoiled>>
        /\ \/ screen' = "confirm" /\ countdown' = ConfirmSeconds /\ asked' = now
           \/ UNCHANGED <<screen, countdown, asked>>
    BY <1>2 DEF ClickDelete, Armed, clock, stored, user, code, keypair
  <2>2. TimeTyped'
    BY <2>1, SignInAssumption DEF TypeInv, TimeTyped
  <2>3. ScreenTyped'
    BY <2>1 DEF TypeInv, ScreenTyped, Screens
  <2>4. RowTyped' /\ KeysTyped'
    BY <2>1 DEF TypeInv, RowTyped, KeysTyped
  <2> QED
    BY <2>2, <2>3, <2>4 DEF TypeInv
<1> QED
  BY <1>1, <1>2

LEMMA TickTyped ==
    ASSUME TypeInv, Tick
    PROVE  TypeInv'
<1>1. /\ now < MaxTime /\ now' = now + 1
      /\ countdown' = IF screen = "confirm" /\ countdown > 0 THEN countdown - 1 ELSE countdown
      /\ UNCHANGED <<stops, codes, account, screen, next, session, joined, told, lost, pairs,
                     passphrase, pending, files, spoiled, asked>>
  BY DEF Tick, stored, user, code, keypair
<1>2. TimeTyped'
  BY <1>1, SignInAssumption DEF TypeInv, TimeTyped
<1>3. RowTyped' /\ KeysTyped' /\ ScreenTyped'
  BY <1>1 DEF TypeInv, RowTyped, KeysTyped, ScreenTyped
<1> QED
  BY <1>2, <1>3 DEF TypeInv

LEMMA TypeStep == TypeInv /\ [Next]_vars => TypeInv'
<1> SUFFICES ASSUME TypeInv, [Next]_vars PROVE TypeInv'
  OBVIOUS
<1>1. CASE Start \/ End \/ CloseReveal
  BY <1>1, ProgramTyped
<1>2. ASSUME NEW p \in Passwords, RegisterPassword(p) PROVE TypeInv'
  BY <1>2, RegisterPasswordTyped
<1>3. ASSUME NEW path \in Paths, NEW saved \in BOOLEAN, GenerateKey(path, saved) PROVE TypeInv'
  BY <1>3, GenerateTyped
<1>4. CASE RegisterKey
  BY <1>4, RegisterKeyTyped
<1>5. CASE \/ \E p \in Passwords : \/ TypePassphrase(p) \/ SignInPassword(p)
                                  \/ \E path \in Paths : SignInKey(path, p)
           \/ ForgotPassword \/ CancelReset \/ Decline
  BY <1>5, DialogTyped
<1>6. ASSUME NEW c \in 1..MaxCodes, NEW p \in Passwords, ResetPassword(c, p) PROVE TypeInv'
  <2>1. screen = "reset" /\ Guess(c = account.code, "signin", p)
    BY <1>6 DEF ResetPassword
  <2> QED
    BY <2>1, GuessTyped
<1>7. ASSUME NEW p \in Passwords, NEW q \in Passwords, ChangePassword(p, q) PROVE TypeInv'
  <2>1. screen = "main" /\ Guess(p = account.secret, "main", q)
    BY <1>7 DEF ChangePassword
  <2> QED
    BY <2>1, GuessTyped
<1>8. CASE (\E p \in Passwords : ClickDelete(p)) \/ ConfirmDelete
  BY <1>8, DeleteTyped
<1>9. CASE Tick
  BY <1>9, TickTyped
<1>10. CASE UNCHANGED vars
  <2>1. UNCHANGED <<now, stops, codes, account, screen, next, session, joined, told, lost, pairs,
                    passphrase, pending, files, spoiled, countdown, asked>>
    BY <1>10 DEF vars, clock, stored, user, code, keypair, prompt
  <2> QED
    BY <2>1 DEF TypeInv, RowTyped, KeysTyped, ScreenTyped, TimeTyped
<1> QED
  BY <1>1, <1>2, <1>3, <1>4, <1>5, <1>6, <1>7, <1>8, <1>9, <1>10 DEF Next

\* TypeOK: the row, the key files, the clock and the lock are what they should be, there
\* is a session exactly on the pages and on the way to them, and no account is locked for
\* longer than the cap (auth_dialog.py:165-346, lockout_policy.py:33-38).
THEOREM TypeCorrect == Spec => []TypeOK
<1>1. Spec => []TypeInv
  BY TypeInit, TypeStep, PTL DEF Spec
<1>2. TypeInv /\ LockInv => TypeOK
  <2> SUFFICES ASSUME TypeInv, LockInv PROVE TypeOK
    OBVIOUS
  <2>1. lock.failed \in Nat /\ missed \in 0..now /\ now \in 0..MaxTime
    BY SignInAssumption DEF LockInv, Timed
  <2>2. lock.until \in 0..(missed + Cap)
    BY TimedWait DEF LockInv
  <2>3. lock.until \in 0..(now + Cap)
    BY <2>1, <2>2, LockoutAssumption, SignInAssumption
  <2> QED
    BY <2>1, <2>3 DEF TypeOK, TypeInv, RowTyped, KeysTyped, ScreenTyped, TimeTyped
<1> QED
  BY <1>1, <1>2, LockInvariant, PTL
=============================================================================
