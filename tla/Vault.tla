------------------------------- MODULE Vault -------------------------------
(***************************************************************************)
(* The local account and the keys that hang from it.                       *)
(*                                                                         *)
(* A credential (a password, or a private key file) derives a vault key;   *)
(* the vault key opens the password slot, which holds the Vault Master Key *)
(* (VMK); the VMK unwraps the protection keys of the metadata records and  *)
(* of the usage log; those keys read the records.  A recovery code opens a *)
(* second slot that holds the same VMK.  Every arrow of that chain is a    *)
(* row of one SQLite database written by a commit of its own, so the chain *)
(* is cut whenever a sequence of commits stops in the middle.  The module  *)
(* models each commit as a step, and lets the program stop between any two *)
(* of them.                                                                *)
(*                                                                         *)
(* Randomness (salts, recovery codes, VMKs, protection keys) is modelled   *)
(* by the counter fresh: a drawn value is a number never drawn before.     *)
(* 0 stands for None.  A ciphertext is the record of the plaintext and the *)
(* key it was encrypted under; decryption under another key fails.         *)
(*                                                                         *)
(* An operator whose name begins with Slip is a plausible slip in the code *)
(* of the operator after it; no action uses it.  It is there to be put in  *)
(* that operator's place, to see that a property notices.                  *)
(***************************************************************************)
EXTENDS Naturals

CONSTANTS
    Passwords,          \* the passwords a user may choose or type
    KeyFiles,           \* the private key files a user may enrol or present
    NoSecret,           \* the secret of an absent account
    MaxFailedAttempts,  \* lockout threshold (lockout_policy.MAX_FAILED_ATTEMPTS)
    MaxFresh,           \* bound: user operations draw no value beyond it
    MaxInterrupts       \* bound: how often the program may be interrupted

Secrets == Passwords \cup KeyFiles

\* The absent secret is none of the secrets, the two kinds of secret are
\* distinct, and the lockout threshold is at least one.
ASSUME VaultAssumption ==
    /\ NoSecret \notin Secrets
    /\ Passwords \cap KeyFiles = {}
    /\ MaxFailedAttempts \in Nat \ {0}
    /\ MaxFresh \in Nat
    /\ MaxInterrupts \in Nat

VARIABLES
    account,        \* the credential in the accounts row (method "none": no row)
    failed,         \* the row's failed_attempts
    locked,         \* whether the row's locked_until lies ahead
    passwordSlot,   \* app_meta: the VMK wrapped under a vault key
    recoverySlot,   \* app_meta: the VMK wrapped under a recovery key
    encWrap,        \* app_meta, per store: its encryption key wrapped under a VMK
    hmacWrap,       \* app_meta, per store: its HMAC key wrapped under a VMK
    records,        \* per store: the protection keys its rows were sealed with
    events,         \* whether table deception_events has a row
    session,        \* "none", "decoy" or "real": SessionManager.current
    held,           \* per store: the protection keys the open window holds
    viewers,        \* the tracking keys that open view windows will record with
    pc,             \* the commit the program executes next, or where it idles
    carry,          \* old_vmk: the VMK an unfinished rotation carries along
    fresh,          \* the next value a random draw returns
    revealed,       \* recovery codes the user has been shown
    used,           \* recovery codes that have paid for a reset
    retired,        \* VMKs that deleted accounts left behind in the password slot
    torn,           \* a rotation was cut off before it rewrote the password slot
    outlived,       \* the tracking keys of view windows that outlived their account
    interrupts      \* how often the program was interrupted

lockout  == <<failed, locked>>
slots    == <<passwordSlot, recoverySlot>>
wraps    == <<encWrap, hmacWrap>>
stored   == <<records, events>>
window   == <<session, held, viewers>>
ghosts   == <<revealed, used, retired, torn, outlived, interrupts>>
vars     == <<account, lockout, slots, wraps, stored, window, pc, carry, fresh,
              ghosts>>

(***************************************************************************)
(* The two stores whose rows are encrypted then authenticated with a pair  *)
(* of protection keys: file metadata, and the tamper-evident usage log.    *)
(***************************************************************************)
Stores == {"metadata", "tracking"}

NoAccount == [method |-> "none", secret |-> NoSecret, salt |-> 0, code |-> 0]
NoKeys    == [enc |-> 0, hmac |-> 0]
NoWrap    == [key |-> 0, vmk |-> 0]

Accounts  == [method : {"none", "password", "private_key"},
              secret : Secrets \cup {NoSecret}, salt : Nat, code : Nat]
KeyPairs  == [enc : Nat, hmac : Nat]
Wraps     == [key : Nat, vmk : Nat]

\* Where the program is when it waits for the user.
Idle == {"auth", "main"}
Rotating == {"password slot", "recovery slot", "reveal"}
Opening == {"open vault", "metadata", "metadata hmac", "tracking", "tracking hmac"}
Deleting == {"delete metadata", "delete tracking", "delete events", "delete account"}
Places == Idle \cup Rotating \cup Opening \cup Deleting

TypeOK ==
    /\ account \in Accounts
    /\ failed \in 0..MaxFailedAttempts
    /\ locked \in BOOLEAN
    /\ passwordSlot \in [vmk : Nat, under : (Secrets \cup {NoSecret}) \X Nat]
    /\ recoverySlot \in [vmk : Nat, under : Nat]
    /\ encWrap \in [Stores -> Wraps]
    /\ hmacWrap \in [Stores -> Wraps]
    /\ records \in [Stores -> SUBSET KeyPairs]
    /\ events \in BOOLEAN
    /\ session \in {"none", "decoy", "real"}
    /\ held \in [Stores -> KeyPairs]
    /\ viewers \subseteq KeyPairs
    /\ pc \in Places
    /\ carry \in Nat
    /\ fresh \in Nat /\ fresh > 0
    /\ revealed \subseteq Nat
    /\ used \subseteq Nat
    /\ retired \subseteq Nat
    /\ torn \in BOOLEAN
    /\ outlived \subseteq KeyPairs
    /\ interrupts \in Nat

Init ==
    /\ account = NoAccount
    /\ failed = 0
    /\ locked = FALSE
    /\ passwordSlot = [vmk |-> 0, under |-> <<NoSecret, 0>>]
    /\ recoverySlot = [vmk |-> 0, under |-> 0]
    /\ encWrap = [s \in Stores |-> NoWrap]
    /\ hmacWrap = [s \in Stores |-> NoWrap]
    /\ records = [s \in Stores |-> {}]
    /\ events = FALSE
    /\ session = "none"
    /\ held = [s \in Stores |-> NoKeys]
    /\ viewers = {}
    /\ pc = "auth"
    /\ carry = 0
    /\ fresh = 1
    /\ revealed = {}
    /\ used = {}
    /\ retired = {}
    /\ torn = FALSE
    /\ outlived = {}
    /\ interrupts = 0

-----------------------------------------------------------------------------
(***************************************************************************)
(* Opening a slot.                                                         *)
(***************************************************************************)

\* Slip: the vault key is derived from the secret alone.
SlipVaultKeyUnsalted == <<account.secret, 0>>

\* The vault key a credential derives: from the secret and its wrap salt.
VaultKey == <<account.secret, account.salt>>

\* What _load_wrapped returns from the password slot: the VMK, or None when
\* the slot is absent or was written under another vault key.
VmkViaPassword ==
    IF account.salt # 0 /\ passwordSlot.under = VaultKey
    THEN passwordSlot.vmk ELSE 0

\* What _load_wrapped returns from the recovery slot under a recovery code.
VmkViaRecovery(code) ==
    IF recoverySlot.under = code THEN recoverySlot.vmk ELSE 0

\* A protection key as unwrapped under a VMK, None when it does not unwrap.
Unwrap(w, vmk) == IF w.vmk = vmk THEN w.key ELSE 0

(***************************************************************************)
(* Lockout accounting.  Durations are abstracted: a lock lasts until       *)
(* LockExpires, and failures beyond the threshold all count as one.        *)
(***************************************************************************)
Registered(method) == account.method = method
Exists   == account.method # "none"
Unlocked == Exists /\ ~locked

RegisterFailure ==
    /\ failed' = IF failed < MaxFailedAttempts THEN failed + 1 ELSE failed
    /\ locked' = (failed' >= MaxFailedAttempts)

RegisterSuccess ==
    /\ failed' = 0
    /\ locked' = FALSE

LockExpires ==
    /\ locked
    /\ locked' = FALSE
    /\ UNCHANGED <<account, failed, slots, wraps, stored, window, pc, carry,
                   fresh, ghosts>>

-----------------------------------------------------------------------------
(***************************************************************************)
(* Registration.                                                           *)
(***************************************************************************)

\* Slip: a rotation keeps the recovery code there was.
SlipCredentialKeepsCode(p) ==
    [method |-> "password", secret |-> p, salt |-> fresh,
     code |-> IF account.code # 0 THEN account.code ELSE fresh]

\* hash_password and hash_recovery_code draw a salt each, and the recovery
\* code itself is drawn: one number stands for the salts and the code that
\* one rotation creates together.
PasswordCredential(p) ==
    [method |-> "password", secret |-> p, salt |-> fresh, code |-> fresh]

\* The account is committed before any slot is: a password account comes into
\* being with no VMK, and _rewrap_vault_master_key(None, ...) follows.
RegisterPasswordAccount(p) ==
    /\ pc = "auth" /\ ~Exists /\ fresh < MaxFresh
    /\ account' = PasswordCredential(p)
    /\ failed' = 0 /\ locked' = FALSE
    /\ fresh' = fresh + 1
    /\ carry' = 0
    /\ pc' = "password slot"
    /\ UNCHANGED <<slots, wraps, stored, window, ghosts>>

\* No salt and no code: the first sign-in draws the salt, and the key file
\* is its own recovery mechanism.
RegisterPrivateKeyAccount(k) ==
    /\ pc = "auth" /\ ~Exists
    /\ account' = [method |-> "private_key", secret |-> k, salt |-> 0, code |-> 0]
    /\ failed' = 0 /\ locked' = FALSE
    /\ UNCHANGED <<slots, wraps, stored, window, pc, carry, fresh, ghosts>>

(***************************************************************************)
(* Sign-in.  A wrong secret opens a decoy session: the window it gets has  *)
(* no vault key, no repository of the database and no account controller.  *)
(***************************************************************************)

\* Self-heal: a missing wrap salt is drawn at the first sign-in.
HealSalt ==
    IF account.salt = 0
    THEN /\ account' = [account EXCEPT !.salt = fresh]
         /\ fresh' = fresh + 1
    ELSE UNCHANGED <<account, fresh>>

AuthenticateRight(secret) ==
    /\ pc = "auth" /\ Unlocked /\ secret = account.secret
    /\ HealSalt
    /\ RegisterSuccess
    /\ pc' = "open vault"
    /\ UNCHANGED <<slots, wraps, stored, window, carry, ghosts>>

AuthenticateWrong(secret) ==
    /\ pc = "auth" /\ Unlocked /\ secret # account.secret
    /\ \/ Registered("password") /\ secret \in Passwords
       \/ Registered("private_key") /\ secret \in KeyFiles
    /\ RegisterFailure
    /\ events' = TRUE
    /\ session' = "decoy"
    /\ pc' = "main"
    /\ UNCHANGED <<account, slots, wraps, records, held, viewers, carry, fresh,
                   ghosts>>

\* An attempt with the method the account does not use counts as a failure,
\* raises, and opens nothing.
AuthenticateWrongMethod(secret) ==
    /\ pc = "auth" /\ Unlocked
    /\ \/ Registered("password") /\ secret \in KeyFiles
       \/ Registered("private_key") /\ secret \in Passwords
    /\ RegisterFailure
    /\ UNCHANGED <<account, slots, wraps, stored, window, pc, carry, fresh, ghosts>>

-----------------------------------------------------------------------------
(***************************************************************************)
(* Building the main window: each load_or_create of the protection keys    *)
(* first opens the vault, and mints a VMK when the slot does not open.     *)
(***************************************************************************)
LoadOrCreateVaultMasterKey ==
    /\ pc = "open vault"
    /\ IF VmkViaPassword # 0
       THEN UNCHANGED <<passwordSlot, fresh>>
       ELSE /\ passwordSlot' = [vmk |-> fresh, under |-> VaultKey]
            /\ fresh' = fresh + 1
    /\ pc' = "metadata"
    /\ UNCHANGED <<account, lockout, recoverySlot, wraps, stored, window, carry,
                   ghosts>>

AfterKeys(s) == IF s = "metadata" THEN "tracking" ELSE "main"
HmacStep(s)  == IF s = "metadata" THEN "metadata hmac" ELSE "tracking hmac"

\* The window is up once the second pair of keys is there.
EnterAfter(s) ==
    /\ pc' = AfterKeys(s)
    /\ session' = IF AfterKeys(s) = "main" THEN "real" ELSE session

\* The keys of a store as they unwrap under the VMK the account opens.
KeysFound(s) == [enc  |-> Unwrap(encWrap[s], VmkViaPassword),
                 hmac |-> Unwrap(hmacWrap[s], VmkViaPassword)]

\* Both keys of a store unwrap: the window holds them.
LoadProtectionKeys(s) ==
    /\ pc = s
    /\ KeysFound(s).enc # 0 /\ KeysFound(s).hmac # 0
    /\ held' = [held EXCEPT ![s] = KeysFound(s)]
    /\ EnterAfter(s)
    /\ UNCHANGED <<account, lockout, slots, wraps, stored, viewers, carry, fresh,
                   ghosts>>

\* One of them does not: both are drawn anew, and the encryption key is
\* committed first.
CreateProtectionKeys(s) ==
    /\ pc = s
    /\ KeysFound(s).enc = 0 \/ KeysFound(s).hmac = 0
    /\ held' = [held EXCEPT ![s] = [enc |-> fresh, hmac |-> fresh]]
    /\ encWrap' = [encWrap EXCEPT ![s] = [key |-> fresh, vmk |-> VmkViaPassword]]
    /\ fresh' = fresh + 1
    /\ pc' = HmacStep(s)
    /\ UNCHANGED <<account, lockout, slots, hmacWrap, stored, session, viewers,
                   carry, ghosts>>

\* The HMAC key is committed second.
SaveHmacKey(s) ==
    /\ pc = HmacStep(s)
    /\ hmacWrap' = [hmacWrap EXCEPT ![s] =
                       [key |-> held[s].hmac, vmk |-> VmkViaPassword]]
    /\ EnterAfter(s)
    /\ UNCHANGED <<account, lockout, slots, encWrap, stored, held, viewers, carry,
                   fresh, ghosts>>

-----------------------------------------------------------------------------
(***************************************************************************)
(* Work in the main window.                                                *)
(***************************************************************************)

\* A page seals a metadata record, or its tracker a row about a rebind.
SealRecord(s) ==
    /\ pc = "main" /\ session = "real"
    /\ records' = [records EXCEPT ![s] = @ \cup {held[s]}]
    /\ UNCHANGED <<account, lockout, slots, wraps, events, window, pc, carry,
                   fresh, ghosts>>

(***************************************************************************)
(* View windows.  A granted view opens a window of its own, without parent *)
(* and with the tracker of the page it was asked from; its row of the      *)
(* usage log is sealed when the window closes, wherever the event loop     *)
(* runs by then.  Deleting the account hides and replaces the main window, *)
(* and leaves the view windows as they are.                                *)
(***************************************************************************)
OpenView ==
    /\ pc = "main" /\ session = "real"
    /\ viewers' = viewers \cup {held["tracking"]}
    /\ UNCHANGED <<account, lockout, slots, wraps, stored, session, held, pc, carry,
                   fresh, ghosts>>

\* The event loop runs: a page, the sign-in dialog or the recovery code is shown.
EventLoop == Idle \cup {"reveal"}

\* A view window closes.  Another one may have been opened with the same keys.
CloseView(k) ==
    /\ pc \in EventLoop /\ k \in viewers
    /\ records' = [records EXCEPT !["tracking"] = @ \cup {k}]
    /\ viewers' \in {viewers, viewers \ {k}}
    /\ UNCHANGED <<account, lockout, slots, wraps, events, session, held, pc, carry,
                   fresh, ghosts>>

\* The last view window with these keys is dropped, or its row is not written.
LoseView(k) ==
    /\ pc \in EventLoop /\ k \in viewers
    /\ viewers' = viewers \ {k}
    /\ UNCHANGED <<account, lockout, slots, wraps, stored, session, held, pc, carry,
                   fresh, ghosts>>

\* A refused view is recorded as a deception event.
RecordDeception ==
    /\ pc = "main" /\ session = "real"
    /\ events' = TRUE
    /\ UNCHANGED <<account, lockout, slots, wraps, records, window, pc, carry,
                   fresh, ghosts>>

\* Slip: whoever is signed in is not asked for the lock.
SlipInSettings == pc = "main" /\ session = "real" /\ Registered("password")

\* The Settings page serves a real session of an unlocked password account.
InSettings == pc = "main" /\ session = "real" /\ Registered("password") /\ Unlocked

\* A wrong current password counts, and is told: the same step for
\* change_password, verify_password and delete_account.
WrongCurrentPassword(p) ==
    /\ InSettings /\ p # account.secret
    /\ RegisterFailure
    /\ UNCHANGED <<account, slots, wraps, stored, window, pc, carry, fresh, ghosts>>

VerifyPassword(p) ==
    /\ InSettings /\ p = account.secret
    /\ RegisterSuccess
    /\ UNCHANGED <<account, slots, wraps, stored, window, pc, carry, fresh, ghosts>>

(***************************************************************************)
(* Rotation: the new credential and the hash of the new code are committed *)
(* with the account row; the two slots follow in commits of their own; the *)
(* code is shown last.                                                     *)
(***************************************************************************)
Rotate(new) ==
    /\ fresh < MaxFresh
    /\ account' = PasswordCredential(new)
    /\ RegisterSuccess
    /\ fresh' = fresh + 1
    /\ pc' = "password slot"
    /\ UNCHANGED <<slots, wraps, stored, window>>

ChangePassword(current, new) ==
    /\ InSettings /\ current = account.secret
    /\ carry' = VmkViaPassword
    /\ Rotate(new)
    /\ UNCHANGED ghosts

ResetPasswordWithRecoveryCode(code, new) ==
    /\ pc = "auth" /\ Registered("password") /\ Unlocked
    /\ account.code # 0 /\ code = account.code
    /\ carry' = VmkViaRecovery(code)
    /\ Rotate(new)
    /\ used' = used \cup {code}
    /\ UNCHANGED <<revealed, retired, torn, outlived, interrupts>>

WrongRecoveryCode(code) ==
    /\ pc = "auth" /\ Registered("password") /\ Unlocked
    /\ code # account.code
    /\ RegisterFailure
    /\ UNCHANGED <<account, slots, wraps, stored, window, pc, carry, fresh, ghosts>>

\* Slip: the carried VMK is ignored, the slot is opened again.
SlipVmkNotCarried == VmkViaPassword

\* The VMK to keep: the carried one, or else the one the slot opens to.
VmkToKeep == IF carry # 0 THEN carry ELSE VmkViaPassword

\* The VMK to keep goes into the password slot; without one, a VMK is minted.
RewrapPasswordSlot ==
    /\ pc = "password slot"
    /\ LET vmk == IF VmkToKeep # 0 THEN VmkToKeep ELSE fresh
       IN  /\ passwordSlot' = [vmk |-> vmk, under |-> VaultKey]
           /\ carry' = vmk
    /\ fresh' = IF VmkToKeep # 0 THEN fresh ELSE fresh + 1
    /\ pc' = "recovery slot"
    /\ UNCHANGED <<account, lockout, recoverySlot, wraps, stored, window, ghosts>>

\* Slip: only the password slot is rewritten.
SlipRecoverySlotForgotten ==
    /\ pc = "recovery slot"
    /\ carry' = 0
    /\ pc' = "reveal"
    /\ UNCHANGED <<account, lockout, slots, wraps, stored, window, fresh, ghosts>>

RewrapRecoverySlot ==
    /\ pc = "recovery slot"
    /\ recoverySlot' = [vmk |-> carry, under |-> account.code]
    /\ carry' = 0
    /\ pc' = "reveal"
    /\ UNCHANGED <<account, lockout, passwordSlot, wraps, stored, window, fresh,
                   ghosts>>

\* A rotation returns to the page or to the sign-in dialog it was asked from.
Back == IF session = "real" THEN "main" ELSE "auth"

RevealRecoveryCode ==
    /\ pc = "reveal"
    /\ revealed' = revealed \cup {account.code}
    /\ pc' = Back
    /\ UNCHANGED <<account, lockout, slots, wraps, stored, window, carry, fresh,
                   used, retired, torn, outlived, interrupts>>

-----------------------------------------------------------------------------
(***************************************************************************)
(* Deleting the account: four commits, the account row last.               *)
(***************************************************************************)
DeleteAccount(p) ==
    /\ InSettings /\ p = account.secret
    /\ RegisterSuccess
    /\ pc' = "delete metadata"
    /\ UNCHANGED <<account, slots, wraps, stored, window, carry, fresh, ghosts>>

\* Slip: the usage log is not among what a deletion clears.
SlipDeleteSkipsTracking(s) == "delete events"

AfterDelete(s) == IF s = "metadata" THEN "delete tracking" ELSE "delete events"
DeleteStep(s)  == IF s = "metadata" THEN "delete metadata" ELSE "delete tracking"

DeleteRecords(s) ==
    /\ pc = DeleteStep(s)
    /\ records' = [records EXCEPT ![s] = {}]
    /\ pc' = AfterDelete(s)
    /\ UNCHANGED <<account, lockout, slots, wraps, events, window, carry, fresh,
                   ghosts>>

DeleteEvents ==
    /\ pc = "delete events"
    /\ events' = FALSE
    /\ pc' = "delete account"
    /\ UNCHANGED <<account, lockout, slots, wraps, records, window, carry, fresh,
                   ghosts>>

NoSession ==
    /\ session' = "none"
    /\ held' = [s \in Stores |-> NoKeys]
    /\ pc' = "auth"

\* The row goes, the session is dropped and the dialog offers registration.
\* The slots and the wrapped keys stay behind in app_meta, and the open view
\* windows stay on the screen.
DeleteAccountRow ==
    /\ pc = "delete account"
    /\ account' = NoAccount
    /\ failed' = 0 /\ locked' = FALSE
    /\ retired' = retired \cup ({passwordSlot.vmk} \ {0})
    /\ torn' = FALSE
    /\ outlived' = outlived \cup viewers
    /\ NoSession
    /\ UNCHANGED <<slots, wraps, stored, viewers, carry, fresh, revealed, used,
                   interrupts>>

-----------------------------------------------------------------------------
(***************************************************************************)
(* Leaving, and being interrupted.                                         *)
(***************************************************************************)
\* The program ends.  A view window that is closed after the main window seals
\* the row it would have sealed before: CloseView stands for both.
CloseWindow ==
    /\ pc = "main"
    /\ NoSession
    /\ viewers' = {}
    /\ UNCHANGED <<account, lockout, slots, wraps, stored, carry, fresh, ghosts>>

\* The next commit is never made.  The rotation that is cut off while the
\* password slot still holds the VMK under the previous vault key is torn.
Interrupted ==
    /\ pc \notin Idle /\ interrupts < MaxInterrupts
    /\ interrupts' = interrupts + 1
    /\ torn' = (torn \/ (pc = "password slot" /\ carry # 0))
    /\ carry' = 0
    /\ UNCHANGED <<account, lockout, slots, wraps, stored, fresh, revealed, used,
                   retired, outlived>>

\* The process dies between two commits, and is started again.
Crash ==
    /\ Interrupted
    /\ NoSession
    /\ viewers' = {}

\* The commit raises: the exception is shown and the window or the dialog
\* that asked stays.  Building the window has no such fallback.
CommitFails ==
    /\ pc \notin Opening \cup {"reveal"}
    /\ Interrupted
    /\ pc' = Back
    /\ UNCHANGED window

-----------------------------------------------------------------------------
SignIn(secret) ==
    \/ AuthenticateRight(secret)
    \/ AuthenticateWrong(secret)
    \/ AuthenticateWrongMethod(secret)

Settings(p) ==
    \/ WrongCurrentPassword(p)
    \/ VerifyPassword(p)
    \/ DeleteAccount(p)
    \/ \E new \in Passwords : ChangePassword(p, new)

\* The user can type a code they were shown, or one that never existed (0).
Recovery ==
    \E code \in revealed \cup {0} :
        \/ WrongRecoveryCode(code)
        \/ \E new \in Passwords : ResetPasswordWithRecoveryCode(code, new)

OpenWindow ==
    \/ LoadOrCreateVaultMasterKey
    \/ \E s \in Stores :
          LoadProtectionKeys(s) \/ CreateProtectionKeys(s) \/ SaveHmacKey(s)

Next ==
    \/ \E p \in Passwords : RegisterPasswordAccount(p) \/ Settings(p)
    \/ \E k \in KeyFiles : RegisterPrivateKeyAccount(k)
    \/ \E secret \in Secrets : SignIn(secret)
    \/ Recovery
    \/ OpenWindow
    \/ \E s \in Stores : SealRecord(s) \/ DeleteRecords(s)
    \/ OpenView
    \/ \E k \in viewers : CloseView(k) \/ LoseView(k)
    \/ RecordDeception
    \/ RewrapPasswordSlot
    \/ RewrapRecoverySlot
    \/ RevealRecoveryCode
    \/ DeleteEvents
    \/ DeleteAccountRow
    \/ CloseWindow
    \/ LockExpires
    \/ Crash
    \/ CommitFails

Spec == Init /\ [][Next]_vars

-----------------------------------------------------------------------------
(***************************************************************************)
(* Properties.                                                             *)
(***************************************************************************)

\* The rows sealed under the accounts' own windows: all but the rows of the usage
\* log that a view window appended after its account was deleted.  Those are under
\* keys nobody holds any more; module UsageLog shows what they do to the log.
Own(s) == IF s = "tracking" THEN records[s] \ outlived ELSE records[s]

\* Metadata and the usage log stay readable: unless a rotation has been torn,
\* every record is sealed with the keys the open window holds, and with the
\* keys the next sign-in will find - the rows of view windows that outlived
\* their account excepted.  Neither a finished password change, nor a
\* recovery, nor a crash anywhere else, nor a deletion cut short, nor a view
\* window closed before or after one of them orphans a record of the present account
\* or makes its log look tampered with
\* (protection_keys.py:25-31, auth_controller.py:276-295).
RecordsReadable ==
    (pc \in Idle /\ Exists /\ ~torn) =>
        \A s \in Stores : \A r \in Own(s) :
            /\ r = KeysFound(s)
            /\ session = "real" => r = held[s]

\* A recovery code the user was shown and that still verifies opens the vault
\* the password opens, wherever the program was interrupted
\* (auth_controller.py:322-330, protection_keys.py:143-152).
RevealedCodeOpensVault ==
    (account.code # 0 /\ account.code \in revealed) =>
        /\ VmkViaRecovery(account.code) # 0
        /\ VmkViaRecovery(account.code) = VmkViaPassword

\* A recovery code pays for one reset: no code that was used once verifies
\* again (auth_controller.py:317-320).
RecoveryCodeUsedOnce == account.code \notin used

\* An account never opens a vault that belonged to a deleted account, nor does it
\* hold keys that a view window of a deleted account still records with, although
\* the deletion leaves the old slots and wrapped keys in place and the user may
\* choose the old password again (auth_controller.py:279-281).
FreshVaultPerAccount ==
    /\ VmkViaPassword \notin retired
    /\ session = "real" => held["tracking"] \notin outlived

\* Deleting an account is a full reset whatever interrupts it: when the row is
\* gone, nothing the account had stored is left.  What can be there is what is
\* written afterwards, a row of the usage log by a view window that was open when
\* its account went, and nothing else (auth_controller.py:276-295,
\* main_window.py:216-261).
DeletionLeavesNothing ==
    ~Exists => /\ \A s \in Stores : Own(s) = {}
               /\ ~events

\* The account's lock, whoever is asked for a secret and wherever a rotation or a
\* deletion stops: no strike is forgiven by what finds the account locked, and the lock
\* is the one that SignIn, with the durations, implements (auth_controller.py:413-446).
StrikeCount == INSTANCE Strikes WITH
    Threshold <- MaxFailedAttempts, Volatile <- FALSE, strikes <- failed
LocksOut == StrikeCount!Spec

\* A window never holds an encryption key and an HMAC key of two different
\* draws, although the two are committed one after the other and an
\* interruption may fall between (protection_keys.py:165-173).
KeyPairsMatch == \A s \in Stores : held[s].enc = held[s].hmac

\* What protection_keys.py:25-31 says of every rotation: the records stay
\* readable rather than being silently orphaned.  (Rows of view windows that
\* outlived their account are no rotation's doing and are left out.)
RotationNeverOrphans ==
    (pc \in Idle /\ Exists) =>
        \A s \in Stores : \A r \in Own(s) : r = KeysFound(s)
=============================================================================
