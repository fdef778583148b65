------------------------------- MODULE SignIn -------------------------------
(***************************************************************************)
(* The dialogs around an account: creating one with a password or a key    *)
(* file, signing in, resetting a forgotten password, changing it, and      *)
(* deleting the account, with the lock that wrong guesses in any of these  *)
(* places count towards.  The account's row is a single save here; the     *)
(* keys it protects are the subject of Vault.                              *)
(*                                                                         *)
(* A handler may be stopped after it has saved the account, by an error    *)
(* that leaves the dialog open or by the end of the program; then what it  *)
(* had to tell is never told.                                              *)
(*                                                                         *)
(* An operator whose name begins with Slip is a plausible slip in the code *)
(* of the operator after it; no action uses it.                            *)
(***************************************************************************)
EXTENDS Lockout

CONSTANTS
    Passwords,      \* passwords and passphrases that are long enough
    Paths,          \* where the user saves key files
    None,           \* nothing
    ConfirmSeconds, \* _DELETE_CONFIRM_SECONDS
    MaxTime,        \* bound: how long the clock runs
    MaxCodes,       \* bound: how many recovery codes are drawn
    MaxPairs,       \* bound: how many key pairs are generated
    MaxStops        \* bound: how many handlers are stopped

ASSUME SignInAssumption ==
    /\ None \notin Passwords \cup [pair : 0..MaxPairs, pass : Passwords \cup {None}]
    /\ ConfirmSeconds \in Nat \ {0}
    /\ MaxTime \in Nat /\ MaxCodes \in Nat /\ MaxPairs \in Nat /\ MaxStops \in Nat

VARIABLES
    now,        \* the time
    stops,      \* how many handlers were stopped
    account,    \* the account's row
    lock,       \* its failed_attempts and locked_until
    missed,     \* when a guess was wrong last
    screen,     \* what the user is looking at
    next,       \* what comes after a recovery code was read
    session,    \* "none", "real" or "decoy"
    joined,     \* the session began with the creation of the account
    codes,      \* how many recovery codes were drawn: each is its number
    told,       \* the last one the user was shown
    lost,       \* the account's code was drawn by a handler that was stopped
    pairs,      \* how many key pairs were generated: likewise
    passphrase, \* _key_passphrase_edit, once it is confirmed
    pending,    \* _pending_private_key_pem: the pair and its passphrase
    files,      \* the key file at each path
    spoiled,    \* a key file was overwritten by a save that failed
    countdown,  \* the seconds until the deletion can be confirmed
    asked       \* when the user was asked to confirm it

clock   == <<now, stops>>
stored  == <<account, codes>>
guesses == <<lock, missed>>
keypair == <<pairs, passphrase, pending, files, spoiled>>
prompt  == <<countdown, asked>>
code    == <<told, lost>>
user    == <<session, joined>>
vars == <<clock, stored, guesses, screen, next, user, code, keypair, prompt>>

Screens == {"off", "register", "signin", "reset", "reveal", "main", "confirm"}
KeyFile == [pair : 0..MaxPairs, pass : Passwords \cup {None}]
NoPair  == [pair |-> 0, pass |-> None]  \* no pair is pending; a file that is not a key

NoAccount == [method |-> "none", secret |-> None, code |-> 0]

TypeOK ==
    /\ now \in 0..MaxTime /\ stops \in 0..MaxStops
    /\ account \in [method : {"none", "password", "key"},
                    secret : Passwords \cup (1..MaxPairs) \cup {None}, code : 0..codes]
    /\ lock.failed \in Nat /\ lock.until \in 0..(now + Cap)
    /\ missed \in 0..now
    /\ screen \in Screens /\ next \in {"main", "signin"}
    /\ session \in {"none", "real", "decoy"} /\ joined \in BOOLEAN
    /\ codes \in 0..MaxCodes /\ told \in 0..codes /\ lost \in BOOLEAN
    /\ pairs \in 0..MaxPairs
    /\ passphrase \in Passwords \cup {None}
    /\ pending \in KeyFile
    /\ files \in [Paths -> KeyFile \cup {None}]
    /\ spoiled \in BOOLEAN
    /\ countdown \in 0..ConfirmSeconds /\ asked \in 0..now
    /\ session # "none" <=> screen \in {"main", "confirm"} \/ (screen = "reveal" /\ next = "main")
    /\ account.method = "none" => screen \in {"off", "register"}

Init ==
    /\ now = 0 /\ stops = 0
    /\ account = NoAccount
    /\ lock = Unlocked /\ missed = 0
    /\ screen = "off" /\ next = "main"
    /\ session = "none" /\ joined = FALSE
    /\ codes = 0 /\ told = 0 /\ lost = FALSE
    /\ pairs = 0 /\ passphrase = None /\ pending = NoPair
    /\ files = [path \in Paths |-> None]
    /\ spoiled = FALSE
    /\ countdown = 0 /\ asked = 0

(***************************************************************************)
(* The program and its dialogs.                                            *)
(***************************************************************************)
\* AuthDialog: for a new account, or for the one there is.
OpenDialog(method) ==
    /\ screen' = IF method = "none" THEN "register" ELSE "signin"
    /\ session' = "none" /\ joined' = FALSE
    /\ passphrase' = None /\ pending' = NoPair

Start ==
    /\ screen = "off"
    /\ OpenDialog(account.method)
    /\ UNCHANGED <<clock, stored, guesses, next, code, pairs, files, spoiled, prompt>>

\* The program is left, or dies.  A recovery code that is on the screen may not have
\* been saved anywhere.
End ==
    /\ screen # "off"
    /\ screen' = "off"
    /\ session' = "none" /\ joined' = FALSE
    /\ lost' = (lost \/ screen = "reveal")
    /\ passphrase' = None /\ pending' = NoPair
    /\ UNCHANGED <<clock, stored, guesses, next, told, pairs, files, spoiled, prompt>>

\* The handler is stopped after its save: by an error that leaves what is on the
\* screen, or because the program dies.
Stopped ==
    /\ stops < MaxStops /\ stops' = stops + 1
    /\ lost' = TRUE
    /\ \/ UNCHANGED <<screen, user>>
       \/ screen' = "off" /\ session' = "none" /\ joined' = FALSE
    /\ UNCHANGED <<now, next, told, keypair, prompt>>

\* Slip: the new code is shown where an old one was lost only.
SlipReveal(after) == IF lost THEN screen' = "reveal" /\ next' = after
                     ELSE screen' = after /\ UNCHANGED next

\* RecoveryCodeDialog
Reveal(after) == screen' = "reveal" /\ next' = after

CloseReveal ==
    /\ screen = "reveal"
    /\ told' = account.code /\ lost' = FALSE
    /\ screen' = next
    /\ UNCHANGED <<clock, stored, guesses, next, user, keypair, prompt>>

\* Passwords and recovery codes are replaced together.
SetPassword(p) ==
    /\ codes < MaxCodes /\ codes' = codes + 1
    /\ account' = [method |-> "password", secret |-> p, code |-> codes']

(***************************************************************************)
(* Guessing.                                                               *)
(***************************************************************************)
\* _require_unlocked_account: a locked account is not looked at.
MayGuess == ~IsLocked(lock, now)

\* _succeed, and register_success elsewhere
Right == lock' = Unlocked /\ UNCHANGED missed

\* _fail
Wrong == lock' = AfterFailure(lock, now) /\ missed' = now

\* Slip: the password is looked at first.
SlipCheck(right) == IF right THEN Right ELSE MayGuess /\ Wrong

\* Every place that asks for a secret: password, key file or recovery code.
Check(right) == MayGuess /\ (IF right THEN Right ELSE Wrong)

(***************************************************************************)
(* Creating an account.                                                    *)
(***************************************************************************)
\* The account is signed in to with what it was created with, then its recovery code
\* is shown.
RegisterPassword(p) ==
    /\ screen = "register" /\ account.method = "none"
    /\ SetPassword(p)
    /\ \/ /\ Check(TRUE)
          /\ session' = "real" /\ joined' = TRUE
          /\ Reveal("main")
          /\ UNCHANGED <<clock, code, keypair, prompt>>
       \/ Stopped /\ UNCHANGED guesses

TypePassphrase(p) ==
    /\ screen = "register"
    /\ passphrase' = p
    /\ UNCHANGED <<clock, stored, guesses, screen, next, user, code, pairs, pending, files,
                   spoiled, prompt>>

\* Slip: the pair is kept before its file is written.
SlipPendingAfter(saved, new) == new

PendingAfter(saved, new) == IF saved THEN new ELSE pending

\* _on_generate_key_clicked: the file is written, or emptied by a write that fails.
GenerateKey(path, saved) ==
    LET new == [pair |-> pairs + 1, pass |-> passphrase]
    IN  /\ screen = "register" /\ passphrase # None
        /\ pairs < MaxPairs /\ pairs' = pairs + 1
        /\ files' = [files EXCEPT ![path] = IF saved THEN new ELSE NoPair]
        /\ pending' = PendingAfter(saved, new)
        /\ spoiled' = (spoiled \/ (~saved /\ files[path] # None))
        /\ UNCHANGED <<clock, stored, guesses, screen, next, user, code, passphrase, prompt>>

\* _register_private_key: the new account is signed in to with the pair that was
\* generated and the passphrase the field holds by now; a decoy session is accepted.
RegisterKey ==
    /\ screen = "register" /\ account.method = "none"
    /\ pending # NoPair
    /\ account' = [method |-> "key", secret |-> pending.pair, code |-> 0]
    /\ Check(passphrase = pending.pass)
    /\ session' = IF passphrase = pending.pass THEN "real" ELSE "decoy"
    /\ joined' = TRUE
    /\ screen' = "main"
    /\ UNCHANGED <<clock, codes, next, code, keypair, prompt>>

(***************************************************************************)
(* Signing in, and resetting the password.                                 *)
(***************************************************************************)
\* Wrong credentials are answered with a decoy session.
Enter(right) ==
    /\ Check(right)
    /\ session' = IF right THEN "real" ELSE "decoy"
    /\ screen' = "main"
    /\ UNCHANGED <<clock, stored, next, joined, code, keypair, prompt>>

SignInPassword(p) ==
    /\ screen = "signin" /\ account.method = "password"
    /\ Enter(p = account.secret)

SignInKey(path, p) ==
    /\ screen = "signin" /\ account.method = "key"
    /\ files[path] # None
    /\ Enter(files[path] = [pair |-> account.secret, pass |-> p])

ForgotPassword ==
    /\ screen = "signin" /\ account.method = "password"
    /\ screen' = "reset"
    /\ UNCHANGED <<clock, stored, guesses, next, user, code, keypair, prompt>>

CancelReset ==
    /\ screen = "reset"
    /\ screen' = "signin"
    /\ UNCHANGED <<clock, stored, guesses, next, user, code, keypair, prompt>>

\* The save of a right guess resets the lock with the password.
Guess(right, after, p) ==
    /\ Check(right)
    /\ \/ /\ ~right
          /\ UNCHANGED <<clock, stored, screen, next, user, code, keypair, prompt>>
       \/ /\ right
          /\ SetPassword(p)
          /\ \/ Reveal(after) /\ UNCHANGED <<clock, user, code, keypair, prompt>>
             \/ Stopped

\* PasswordResetDialog._on_reset_clicked
ResetPassword(c, p) ==
    /\ screen = "reset"
    /\ Guess(c = account.code, "signin", p)

(***************************************************************************)
(* The settings page.                                                      *)
(***************************************************************************)
\* _on_change_password_clicked, in a decoy session too
ChangePassword(p, q) ==
    /\ screen = "main" /\ account.method = "password"
    /\ Guess(p = account.secret, "main", q)

\* Slip: the countdown of the last prompt goes on.
SlipArmed == IF asked = 0 THEN ConfirmSeconds ELSE countdown

\* arm_countdown_button
Armed == ConfirmSeconds

\* _on_delete_account_clicked: the password is verified before the user is asked.
ClickDelete(p) ==
    /\ screen = "main" /\ account.method = "password"
    /\ Check(p = account.secret)
    /\ IF p = account.secret
       THEN screen' = "confirm" /\ countdown' = Armed /\ asked' = now
       ELSE UNCHANGED <<screen, countdown, asked>>
    /\ UNCHANGED <<clock, stored, next, user, code, keypair>>

Decline ==
    /\ screen = "confirm"
    /\ screen' = "main"
    /\ UNCHANGED <<clock, stored, guesses, next, user, code, keypair, prompt>>

\* The password is verified again and the account is gone; its page opens the dialog.
ConfirmDelete ==
    /\ screen = "confirm" /\ countdown = 0
    /\ Check(TRUE)
    /\ account' = NoAccount
    /\ lost' = FALSE
    /\ OpenDialog("none")
    /\ UNCHANGED <<clock, codes, next, told, pairs, files, spoiled, prompt>>

\* A second passes; the prompt counts it.
Tick ==
    /\ now < MaxTime
    /\ now' = now + 1
    /\ countdown' = IF screen = "confirm" /\ countdown > 0 THEN countdown - 1 ELSE countdown
    /\ UNCHANGED <<stops, stored, guesses, screen, next, user, code, keypair, asked>>

Next ==
    \/ Start \/ End \/ CloseReveal
    \/ \E p \in Passwords : RegisterPassword(p) \/ TypePassphrase(p)
    \/ \E path \in Paths, saved \in BOOLEAN : GenerateKey(path, saved)
    \/ RegisterKey
    \/ \E p \in Passwords : SignInPassword(p) \/ \E path \in Paths : SignInKey(path, p)
    \/ ForgotPassword \/ CancelReset
    \/ \E c \in 1..MaxCodes, p \in Passwords : ResetPassword(c, p)
    \/ \E p, q \in Passwords : ChangePassword(p, q)
    \/ \E p \in Passwords : ClickDelete(p)
    \/ Decline \/ ConfirmDelete
    \/ Tick

Spec == Init /\ [][Next]_vars

-----------------------------------------------------------------------------
\* The user has been shown the recovery code the account answers to, or is looking at
\* it, after every registration, change and reset: unless the handler that drew it was
\* stopped, or the program ended over it.
CodeKnown == account.method = "password" => told = account.code \/ screen = "reveal" \/ lost

\* The private key of an account is in a file, in the passphrase it was generated
\* with: an account is never created for a pair whose file was not written.  (A later
\* save over that file that fails does empty it.)
KeyOnFile ==
    account.method = "key" /\ ~spoiled =>
        \E path \in Paths : files[path] # None /\ files[path].pair = account.secret

\* An account is deleted from a prompt that has been there for the whole countdown,
\* however many were declined before it.
DeletedDeliberately ==
    [][account.method # "none" /\ account'.method = "none" =>
           screen = "confirm" /\ now >= asked + ConfirmSeconds]_vars

Lock == INSTANCE Paced WITH
    misses <- lock.failed, last <- missed, Volatile <- FALSE,
    wait <- Imposed(lock, missed)

\* Guesses come at a pace, in whichever places they are made and however often the
\* program is started anew; a right one has to wait as long as a wrong one.
PacedGuesses == Lock!Spec

\* Without its durations the lock is the one that Vault counts with, which SignInProofs
\* proves (auth_controller.py:413-454).
StrikeCount == INSTANCE Strikes WITH
    Volatile <- FALSE,
    strikes <- Smaller(lock.failed, Threshold), locked <- IsLocked(lock, now)
LocksOut == StrikeCount!Spec

(***************************************************************************)
(* What the repository says of the dialogs and the code does not do.       *)
(***************************************************************************)
\* auth_dialog: a new account's credentials are validated "before continuing, rather
\* than assuming registration implies a valid session".
NewAccountSignedIn == joined => session # "decoy"
=============================================================================
