---------------------------- MODULE VaultProofs ----------------------------
(***************************************************************************)
(* Proofs about the vault, for every set of passwords and key files, every *)
(* lockout threshold and every number of interruptions: its types, then    *)
(* one lemma per part of IInv that says that every step preserves the      *)
(* part; the theorems at the end combine them.                             *)
(***************************************************************************)
EXTENDS VaultInv, TLAPS

-----------------------------------------------------------------------------
(***************************************************************************)
(* Type correctness.                                                       *)
(***************************************************************************)

\* What happens to view windows.
Viewing == OpenView \/ \E k \in viewers : CloseView(k) \/ LoseView(k)

\* The places named in the actions are places.
LEMMA PlacesTyped ==
    /\ "auth" \in Places /\ "main" \in Places
    /\ "password slot" \in Places /\ "recovery slot" \in Places /\ "reveal" \in Places
    /\ "open vault" \in Places
    /\ \A s \in Stores : s \in Places /\ HmacStep(s) \in Places /\ AfterKeys(s) \in Places
    /\ \A s \in Stores : DeleteStep(s) \in Places /\ AfterDelete(s) \in Places
    /\ "metadata" \in Places /\ "delete metadata" \in Places /\ "delete account" \in Places
BY DEF Places, Idle, Rotating, Opening, Deleting, Stores, HmacStep, AfterKeys,
       DeleteStep, AfterDelete

\* What the slots return is a number: a VMK, or 0 for None.
LEMMA UnwrapTyped ==
    ASSUME TypeOK
    PROVE  /\ VmkViaPassword \in Nat
           /\ \A code : VmkViaRecovery(code) \in Nat
           /\ \A s \in Stores : KeysFound(s) \in KeyPairs
BY DEF TypeOK, VmkViaPassword, VmkViaRecovery, KeysFound, Unwrap, KeyPairs, Wraps

\* The values the counters take next are typed.
LEMMA CountersTyped ==
    ASSUME TypeOK
    PROVE  /\ 0 \in 0..MaxFailedAttempts
           /\ fresh \in Nat /\ fresh > 0
           /\ fresh + 1 \in Nat /\ fresh + 1 > 0
           /\ interrupts + 1 \in Nat
BY VaultAssumption DEF TypeOK

\* Lockout accounting keeps the two fields typed.
LEMMA LockoutTyped ==
    ASSUME TypeOK, RegisterFailure \/ RegisterSuccess
    PROVE  failed' \in 0..MaxFailedAttempts /\ locked' \in BOOLEAN
<1>1. CASE RegisterSuccess
  BY <1>1, CountersTyped DEF RegisterSuccess
<1>2. CASE RegisterFailure
  <2>1. failed \in 0..MaxFailedAttempts
    BY DEF TypeOK
  <2>2. failed' \in 0..MaxFailedAttempts
    BY <1>2, <2>1, VaultAssumption DEF RegisterFailure
  <2>3. locked' \in BOOLEAN
    BY <1>2 DEF RegisterFailure
  <2> QED
    BY <2>2, <2>3
<1> QED
  BY <1>1, <1>2

\* A credential drawn for a secret is typed.
LEMMA CredentialTyped ==
    ASSUME TypeOK, NEW p \in Passwords
    PROVE  PasswordCredential(p) \in Accounts
BY CountersTyped DEF PasswordCredential, Accounts, Secrets

\* The slot a VMK is written to under the account's vault key is typed.
LEMMA SlotTyped ==
    ASSUME TypeOK, NEW vmk \in Nat
    PROVE  [vmk |-> vmk, under |-> VaultKey]
              \in [vmk : Nat, under : (Secrets \cup {NoSecret}) \X Nat]
BY DEF TypeOK, VaultKey, Accounts

LEMMA TypeInit == Init => TypeOK
<1> SUFFICES ASSUME Init PROVE TypeOK
  OBVIOUS
<1>1. account \in Accounts
  BY DEF Init, NoAccount, Accounts
<1>2. passwordSlot \in [vmk : Nat, under : (Secrets \cup {NoSecret}) \X Nat]
  BY DEF Init
<1>3. /\ encWrap \in [Stores -> Wraps] /\ hmacWrap \in [Stores -> Wraps]
      /\ held \in [Stores -> KeyPairs] /\ records \in [Stores -> SUBSET KeyPairs]
  BY DEF Init, NoWrap, Wraps, NoKeys, KeyPairs
<1>4. failed \in 0..MaxFailedAttempts /\ recoverySlot \in [vmk : Nat, under : Nat]
  BY VaultAssumption DEF Init
<1>5. fresh \in Nat /\ fresh > 0 /\ carry \in Nat /\ interrupts \in Nat
  BY DEF Init
<1>6. /\ locked \in BOOLEAN /\ events \in BOOLEAN /\ torn \in BOOLEAN
      /\ session \in {"none", "decoy", "real"} /\ pc \in Places
      /\ revealed \subseteq Nat /\ used \subseteq Nat /\ retired \subseteq Nat
      /\ viewers \subseteq KeyPairs /\ outlived \subseteq KeyPairs
  BY PlacesTyped DEF Init
<1> QED
  BY <1>1, <1>2, <1>3, <1>4, <1>5, <1>6 DEF TypeOK

LEMMA TypeStep == TypeOK /\ [Next]_vars => TypeOK'
<1> SUFFICES ASSUME TypeOK, [Next]_vars PROVE TypeOK'
  OBVIOUS
<1> USE PlacesTyped DEF lockout, slots, wraps, stored, window, ghosts
<1>1. ASSUME NEW p \in Passwords, RegisterPasswordAccount(p) PROVE TypeOK'
  <2>1. /\ account' \in Accounts /\ fresh' \in Nat /\ fresh' > 0
        /\ failed' \in 0..MaxFailedAttempts
    BY <1>1, CountersTyped, CredentialTyped DEF RegisterPasswordAccount
  <2> QED
    BY <1>1, <2>1 DEF RegisterPasswordAccount, TypeOK
<1>2. ASSUME NEW k \in KeyFiles, RegisterPrivateKeyAccount(k) PROVE TypeOK'
  <2>1. account' \in Accounts /\ failed' \in 0..MaxFailedAttempts
    BY <1>2, CountersTyped DEF RegisterPrivateKeyAccount, Accounts, Secrets
  <2> QED
    BY <1>2, <2>1 DEF RegisterPrivateKeyAccount, TypeOK
<1>3. ASSUME NEW secret, AuthenticateRight(secret) PROVE TypeOK'
  <2>1. account' \in Accounts /\ fresh' \in Nat /\ fresh' > 0
    <3>1. CASE account.salt = 0
      <4>1. account' = [account EXCEPT !.salt = fresh] /\ fresh' = fresh + 1
        BY <1>3, <3>1 DEF AuthenticateRight, HealSalt
      <4>2. account \in Accounts
        BY DEF TypeOK
      <4> QED
        BY <4>1, <4>2, CountersTyped DEF Accounts
    <3>2. CASE account.salt # 0
      BY <1>3, <3>2 DEF AuthenticateRight, HealSalt, TypeOK
    <3> QED
      BY <3>1, <3>2
  <2>2. failed' \in 0..MaxFailedAttempts /\ locked' \in BOOLEAN
    BY <1>3, LockoutTyped DEF AuthenticateRight
  <2> QED
    BY <1>3, <2>1, <2>2 DEF AuthenticateRight, TypeOK
<1>4. ASSUME NEW secret, AuthenticateWrong(secret) PROVE TypeOK'
  BY <1>4, LockoutTyped DEF AuthenticateWrong, TypeOK
<1>5. ASSUME NEW secret, AuthenticateWrongMethod(secret) PROVE TypeOK'
  BY <1>5, LockoutTyped DEF AuthenticateWrongMethod, TypeOK
<1>6. CASE LoadOrCreateVaultMasterKey
  <2>1. fresh' \in Nat /\ fresh' > 0
    BY <1>6, CountersTyped DEF LoadOrCreateVaultMasterKey, TypeOK
  <2>2. passwordSlot' \in [vmk : Nat, under : (Secrets \cup {NoSecret}) \X Nat]
    <3>1. \/ passwordSlot' = passwordSlot
          \/ passwordSlot' = [vmk |-> fresh, under |-> VaultKey]
      BY <1>6 DEF LoadOrCreateVaultMasterKey
    <3>2. CASE passwordSlot' = passwordSlot
      BY <3>2 DEF TypeOK
    <3>3. CASE passwordSlot' = [vmk |-> fresh, under |-> VaultKey]
      BY <3>3, CountersTyped, SlotTyped
    <3> QED
      BY <3>1, <3>2, <3>3
  <2> QED
    BY <1>6, <2>1, <2>2 DEF LoadOrCreateVaultMasterKey, TypeOK
<1>7. ASSUME NEW s \in Stores, LoadProtectionKeys(s) PROVE TypeOK'
  BY <1>7, UnwrapTyped DEF LoadProtectionKeys, EnterAfter, TypeOK
<1>8. ASSUME NEW s \in Stores, CreateProtectionKeys(s) PROVE TypeOK'
  <2>1. /\ [enc |-> fresh, hmac |-> fresh] \in KeyPairs
        /\ [key |-> fresh, vmk |-> VmkViaPassword] \in Wraps
    BY CountersTyped, UnwrapTyped DEF KeyPairs, Wraps
  <2>2. fresh' \in Nat /\ fresh' > 0
    BY <1>8, CountersTyped DEF CreateProtectionKeys
  <2>3. held' \in [Stores -> KeyPairs] /\ encWrap' \in [Stores -> Wraps]
    BY <1>8, <2>1 DEF CreateProtectionKeys, TypeOK
  <2> QED
    BY <1>8, <2>2, <2>3 DEF CreateProtectionKeys, TypeOK
<1>9. ASSUME NEW s \in Stores, SaveHmacKey(s) PROVE TypeOK'
  BY <1>9, UnwrapTyped DEF SaveHmacKey, EnterAfter, KeyPairs, Wraps, TypeOK
<1>10. ASSUME NEW s \in Stores, SealRecord(s) PROVE TypeOK'
  BY <1>10 DEF SealRecord, TypeOK
<1>26. CASE Viewing
  <2>1. held["tracking"] \in KeyPairs /\ viewers \subseteq KeyPairs
    BY DEF TypeOK, Stores
  <2>2. viewers' \subseteq KeyPairs
    BY <1>26, <2>1 DEF Viewing, OpenView, CloseView, LoseView
  <2>3. records' \in [Stores -> SUBSET KeyPairs]
    <3>1. records \in [Stores -> SUBSET KeyPairs]
      BY DEF TypeOK
    <3>2. records' = records
             \/ \E k \in viewers : records' = [records EXCEPT !["tracking"] = @ \cup {k}]
      BY <1>26 DEF Viewing, OpenView, CloseView, LoseView
    <3> QED
      BY <2>1, <3>1, <3>2 DEF Stores
  <2> QED
    BY <1>26, <2>2, <2>3 DEF Viewing, OpenView, CloseView, LoseView, TypeOK
<1>11. ASSUME NEW s \in Stores, DeleteRecords(s) PROVE TypeOK'
  BY <1>11 DEF DeleteRecords, TypeOK
<1>12. ASSUME NEW p \in Passwords,
              WrongCurrentPassword(p) \/ VerifyPassword(p) \/ DeleteAccount(p)
       PROVE  TypeOK'
  BY <1>12, LockoutTyped
     DEF WrongCurrentPassword, VerifyPassword, DeleteAccount, TypeOK
<1>13. ASSUME NEW p, NEW new \in Passwords, ChangePassword(p, new) PROVE TypeOK'
  <2>1. account' \in Accounts /\ carry' \in Nat /\ fresh' \in Nat /\ fresh' > 0
    BY <1>13, CountersTyped, CredentialTyped, UnwrapTyped DEF ChangePassword, Rotate
  <2>2. failed' \in 0..MaxFailedAttempts /\ locked' \in BOOLEAN
    BY <1>13, LockoutTyped DEF ChangePassword, Rotate
  <2> QED
    BY <1>13, <2>1, <2>2 DEF ChangePassword, Rotate, TypeOK
<1>14. ASSUME NEW code \in revealed \cup {0}, NEW new \in Passwords,
              ResetPasswordWithRecoveryCode(code, new)
       PROVE  TypeOK'
  <2>1. account' \in Accounts /\ carry' \in Nat /\ fresh' \in Nat /\ fresh' > 0
    BY <1>14, CountersTyped, CredentialTyped, UnwrapTyped
       DEF ResetPasswordWithRecoveryCode, Rotate
  <2>2. failed' \in 0..MaxFailedAttempts /\ locked' \in BOOLEAN
    BY <1>14, LockoutTyped DEF ResetPasswordWithRecoveryCode, Rotate
  <2>3. used' \subseteq Nat
    BY <1>14 DEF ResetPasswordWithRecoveryCode, TypeOK
  <2> QED
    BY <1>14, <2>1, <2>2, <2>3 DEF ResetPasswordWithRecoveryCode, Rotate, TypeOK
<1>15. ASSUME NEW code, WrongRecoveryCode(code) PROVE TypeOK'
  BY <1>15, LockoutTyped DEF WrongRecoveryCode, TypeOK
<1>16. CASE RewrapPasswordSlot
  <2>1. carry' \in Nat /\ fresh' \in Nat /\ fresh' > 0
    <3>1. carry \in Nat
      BY DEF TypeOK
    <3>2. carry' \in {carry, VmkViaPassword, fresh} /\ fresh' \in {fresh, fresh + 1}
      BY <1>16 DEF RewrapPasswordSlot, VmkToKeep
    <3> QED
      BY <3>1, <3>2, CountersTyped, UnwrapTyped
  <2>2. passwordSlot' = [vmk |-> carry', under |-> VaultKey]
    BY <1>16 DEF RewrapPasswordSlot
  <2>3. passwordSlot' \in [vmk : Nat, under : (Secrets \cup {NoSecret}) \X Nat]
    BY <2>1, <2>2, SlotTyped
  <2> QED
    BY <1>16, <2>1, <2>3 DEF RewrapPasswordSlot, TypeOK
<1>17. CASE RewrapRecoverySlot
  BY <1>17 DEF RewrapRecoverySlot, Accounts, TypeOK
<1>18. CASE RevealRecoveryCode
  BY <1>18 DEF RevealRecoveryCode, Back, Accounts, TypeOK
<1>19. CASE RecordDeception \/ DeleteEvents \/ LockExpires
  BY <1>19 DEF RecordDeception, DeleteEvents, LockExpires, TypeOK
<1>20. CASE DeleteAccountRow
  <2>1. account' \in Accounts /\ failed' \in 0..MaxFailedAttempts
    BY <1>20, CountersTyped DEF DeleteAccountRow, NoAccount, Accounts
  <2>2. retired' \subseteq Nat /\ outlived' \subseteq KeyPairs
    BY <1>20 DEF DeleteAccountRow, TypeOK
  <2>3. held' \in [Stores -> KeyPairs]
    BY <1>20 DEF DeleteAccountRow, NoSession, NoKeys, KeyPairs
  <2> QED
    BY <1>20, <2>1, <2>2, <2>3 DEF DeleteAccountRow, NoSession, TypeOK
<1>21. CASE CloseWindow
  BY <1>21 DEF CloseWindow, NoSession, NoKeys, KeyPairs, TypeOK
<1>22. ASSUME Interrupted PROVE interrupts' \in Nat /\ torn' \in BOOLEAN /\ carry' \in Nat
  BY <1>22, CountersTyped DEF Interrupted, TypeOK
<1>23. CASE Crash
  <2>1. held' \in [Stores -> KeyPairs]
    BY <1>23 DEF Crash, NoSession, NoKeys, KeyPairs
  <2> QED
    BY <1>22, <1>23, <2>1 DEF Crash, Interrupted, NoSession, TypeOK
<1>24. CASE CommitFails
  BY <1>22, <1>24 DEF CommitFails, Interrupted, Back, TypeOK
<1>25. CASE UNCHANGED vars
  BY <1>25 DEF vars, TypeOK
<1> QED
  BY <1>1, <1>2, <1>3, <1>4, <1>5, <1>6, <1>7, <1>8, <1>9, <1>10, <1>11, <1>12,
     <1>13, <1>14, <1>15, <1>16, <1>17, <1>18, <1>19, <1>20, <1>21, <1>23, <1>24,
     <1>25, <1>26
     DEF Next, SignIn, Settings, Recovery, OpenWindow, Viewing

\* Every variable of the vault keeps its type, for all values of the constants.
THEOREM TypeCorrect == Spec => []TypeOK
<1>1. Init => TypeOK
  BY TypeInit
<1>2. TypeOK /\ [Next]_vars => TypeOK'
  BY TypeStep
<1> QED
  BY <1>1, <1>2, PTL DEF Spec

-----------------------------------------------------------------------------
(***************************************************************************)
(* The safety invariants.                                                  *)
(***************************************************************************)
\* The numeric fields of the state are numbers.
LEMMA Numbers ==
    ASSUME TypeOK
    PROVE  /\ account.salt \in Nat /\ account.code \in Nat
           /\ passwordSlot.vmk \in Nat /\ passwordSlot.under[2] \in Nat
           /\ recoverySlot.vmk \in Nat /\ recoverySlot.under \in Nat
           /\ carry \in Nat /\ fresh \in Nat /\ fresh > 0
           /\ \A s \in Stores : /\ encWrap[s].key \in Nat /\ encWrap[s].vmk \in Nat
                                /\ hmacWrap[s].key \in Nat /\ hmacWrap[s].vmk \in Nat
           /\ \A x \in revealed \cup used \cup retired : x \in Nat
BY DEF TypeOK, Accounts, Wraps

\* What is below the next draw is below the one after it.
LEMMA BelowNext ==
    ASSUME TypeOK, DrawnBelowFresh
    PROVE  /\ account.salt < fresh + 1 /\ account.code < fresh + 1
           /\ passwordSlot.vmk < fresh + 1 /\ passwordSlot.under[2] < fresh + 1
           /\ recoverySlot.under < fresh + 1
           /\ \A x \in revealed \cup used \cup retired : x < fresh + 1
           /\ fresh < fresh + 1 /\ 0 < fresh /\ 0 < fresh + 1
BY Numbers DEF DrawnBelowFresh

\* Healing the salt of an account (auth_controller.py:180-184) changes
\* nothing else in it, and nothing at all when it has one.
LEMMA HealSaltEffect ==
    ASSUME TypeOK, HealSalt
    PROVE  /\ account'.method = account.method
           /\ account'.secret = account.secret
           /\ account'.code = account.code
           /\ \/ account.salt # 0 /\ account' = account /\ fresh' = fresh
              \/ account.salt = 0 /\ account'.salt = fresh /\ fresh' = fresh + 1
<1>1. account \in Accounts
  BY DEF TypeOK
<1>2. CASE account.salt = 0
  <2>1. account' = [account EXCEPT !.salt = fresh] /\ fresh' = fresh + 1
    BY <1>2 DEF HealSalt
  <2> QED
    BY <1>1, <1>2, <2>1 DEF Accounts
<1>3. CASE account.salt # 0
  BY <1>3 DEF HealSalt
<1> QED
  BY <1>2, <1>3

\* Opening the vault keeps the slot, or mints a VMK under the current vault key
\* (protection_keys.py:97-114).
LEMMA OpenEffect ==
    ASSUME TypeOK, LoadOrCreateVaultMasterKey
    PROVE  \/ VmkViaPassword # 0 /\ UNCHANGED <<passwordSlot, fresh>>
           \/ /\ VmkViaPassword = 0 
              /\ passwordSlot'.vmk = fresh /\ passwordSlot'.under = VaultKey
              /\ fresh' = fresh + 1
<1>1. CASE VmkViaPassword # 0
  BY <1>1 DEF LoadOrCreateVaultMasterKey
<1>2. CASE VmkViaPassword = 0
  <2>1. passwordSlot' = [vmk |-> fresh, under |-> VaultKey] /\ fresh' = fresh + 1
    BY <1>2 DEF LoadOrCreateVaultMasterKey
  <2> QED
    BY <1>2, <2>1
<1> QED
  BY <1>1, <1>2

\* The steps that only count failures, or do nothing.
Counting ==
    \/ \E secret : AuthenticateWrongMethod(secret)
    \/ \E p : WrongCurrentPassword(p) \/ VerifyPassword(p)
    \/ \E code : WrongRecoveryCode(code)
    \/ LockExpires
    \/ UNCHANGED vars

\* The variables the invariant speaks of, less the lockout fields.
kept == <<account, passwordSlot, recoverySlot, encWrap, hmacWrap, records, events,
          session, held, viewers, pc, carry, fresh, revealed, used, retired, torn,
          outlived>>

\* Counting failures touches nothing the invariant speaks of.
LEMMA CountingFrame == Counting => UNCHANGED kept
BY DEF Counting, kept, AuthenticateWrongMethod, WrongCurrentPassword, VerifyPassword,
       WrongRecoveryCode, LockExpires, vars, slots, wraps, stored, window, ghosts

\* View windows come and go beside everything but the usage log.
LEMMA ViewingFrame ==
    Viewing => /\ UNCHANGED <<account, failed, locked, passwordSlot, recoverySlot, encWrap,
                              hmacWrap, events, session, held, pc, carry, fresh,
                              revealed, used, retired, torn, outlived>>
               /\ pc \in EventLoop
BY DEF Viewing, OpenView, CloseView, LoseView, EventLoop, Idle, lockout, slots, wraps,
       stored, ghosts

\* The steps of the vault, one per operation.
LEMMA StepCases ==
    [Next]_vars =>
        \/ \E p \in Passwords : RegisterPasswordAccount(p)
        \/ \E k \in KeyFiles : RegisterPrivateKeyAccount(k)
        \/ \E secret \in Secrets : AuthenticateRight(secret) \/ AuthenticateWrong(secret)
        \/ LoadOrCreateVaultMasterKey
        \/ \E s \in Stores : LoadProtectionKeys(s) \/ CreateProtectionKeys(s)
                                \/ SaveHmacKey(s) \/ SealRecord(s) \/ DeleteRecords(s)
        \/ \E p, new \in Passwords : ChangePassword(p, new)
        \/ \E code \in revealed \cup {0}, new \in Passwords :
              ResetPasswordWithRecoveryCode(code, new)
        \/ \E p \in Passwords : DeleteAccount(p)
        \/ RewrapPasswordSlot \/ RewrapRecoverySlot \/ RevealRecoveryCode
        \/ RecordDeception \/ DeleteEvents \/ DeleteAccountRow \/ CloseWindow
        \/ Crash \/ CommitFails
        \/ Viewing
        \/ Counting
BY DEF Next, SignIn, Settings, Recovery, OpenWindow, Viewing, Counting

\* A VMK the password slot returns is the one it holds; it returns it exactly
\* when the account's own secret opens the slot.
LEMMA OpensVmk ==
    ASSUME TypeOK
    PROVE  /\ Opens => VmkViaPassword = passwordSlot.vmk
           /\ VmkViaPassword # 0 => Opens
           /\ Opens => VmkViaPassword # 0
           /\ VmkViaPassword \in {0, passwordSlot.vmk}
BY DEF Opens, VmkViaPassword

\* A rotation starts by drawing a credential and carrying the VMK it can reach.
LEMMA RotateEffect ==
    ASSUME NEW new, Rotate(new)
    PROVE  /\ account' = PasswordCredential(new)
           /\ account'.method = "password" /\ account'.salt = fresh
           /\ account'.code = fresh
           /\ fresh' = fresh + 1 /\ pc' = "password slot"
           /\ UNCHANGED <<passwordSlot, recoverySlot, encWrap, hmacWrap, records,
                          events, session, held, viewers>>
BY DEF Rotate, PasswordCredential, slots, wraps, stored, window

\* The password slot is rewritten with the VMK it held, or with a fresh one.
LEMMA RewrapEffect ==
    ASSUME IInv, RewrapPasswordSlot
    PROVE  /\ pc = "password slot" /\ pc' = "recovery slot"
           /\ passwordSlot'.vmk = carry' /\ passwordSlot'.under = VaultKey
           /\ carry' # 0
           /\ \/ VmkToKeep # 0 /\ carry' = passwordSlot.vmk /\ fresh' = fresh
              \/ VmkToKeep = 0 /\ carry' = fresh /\ fresh' = fresh + 1
           /\ UNCHANGED <<account, recoverySlot, encWrap, hmacWrap, records, events,
                          session, held, viewers, revealed, used, retired, torn,
                          outlived>>
<1>0. /\ pc = "password slot" /\ pc' = "recovery slot"
      /\ UNCHANGED <<account, recoverySlot, encWrap, hmacWrap, records, events,
                     session, held, viewers, revealed, used, retired, torn, outlived>>
  BY DEF RewrapPasswordSlot, slots, wraps, stored, window, ghosts
<1>1. TypeOK /\ RotationSteps
  BY DEF IInv
<1>2. carry # 0 => carry = passwordSlot.vmk
  BY <1>1 DEF RotationSteps
<1>3. VmkToKeep # 0 => VmkToKeep = passwordSlot.vmk
  BY <1>1, <1>2, OpensVmk DEF VmkToKeep
<1>4. fresh # 0
  BY <1>1, Numbers
<1>5. CASE VmkToKeep # 0
  <2>1. passwordSlot' = [vmk |-> VmkToKeep, under |-> VaultKey] /\ carry' = VmkToKeep
        /\ fresh' = fresh
    BY <1>5 DEF RewrapPasswordSlot
  <2> QED
    BY <1>0, <1>3, <1>5, <2>1
<1>6. CASE VmkToKeep = 0
  <2>1. passwordSlot' = [vmk |-> fresh, under |-> VaultKey] /\ carry' = fresh
        /\ fresh' = fresh + 1
    BY <1>6 DEF RewrapPasswordSlot
  <2> QED
    BY <1>0, <1>4, <1>6, <2>1
<1> QED
  BY <1>5, <1>6

\* An interruption forgets what a rotation carried, and leaves the program
\* where it waits for the user.
LEMMA InterruptEffect ==
    ASSUME Crash \/ CommitFails
    PROVE  /\ pc \notin Idle /\ pc' \in Idle /\ carry' = 0
           /\ torn' = (torn \/ (pc = "password slot" /\ carry # 0))
           /\ \/ /\ session' = "none" /\ held' = [s \in Stores |-> NoKeys]
                 /\ pc' = "auth" /\ viewers' = {}
              \/ /\ UNCHANGED <<session, held, viewers>> /\ pc' = Back
                 /\ pc \notin Opening
           /\ UNCHANGED <<account, passwordSlot, recoverySlot, encWrap, hmacWrap,
                          records, events, fresh, revealed, used, retired, outlived>>
BY DEF Crash, CommitFails, Interrupted, NoSession, Back, Idle, slots, wraps, stored,
       window

-----------------------------------------------------------------------------
\* No step puts a number into the state that a later draw could return.
LEMMA DrawnBelowFreshStep == IInv /\ [Next]_vars => DrawnBelowFresh'
<1> SUFFICES ASSUME IInv, [Next]_vars PROVE DrawnBelowFresh'
  OBVIOUS
<1>0. TypeOK /\ DrawnBelowFresh
  BY DEF IInv
<1> USE <1>0, BelowNext DEF DrawnBelowFresh, lockout, slots, wraps, stored, window, ghosts
<1>1. ASSUME NEW p \in Passwords, RegisterPasswordAccount(p) PROVE DrawnBelowFresh'
  BY <1>1 DEF RegisterPasswordAccount, PasswordCredential
<1>2. ASSUME NEW k \in KeyFiles, RegisterPrivateKeyAccount(k) PROVE DrawnBelowFresh'
  BY <1>2 DEF RegisterPrivateKeyAccount
<1>3. ASSUME NEW secret, AuthenticateRight(secret) PROVE DrawnBelowFresh'
  BY <1>3, HealSaltEffect DEF AuthenticateRight
<1>4. CASE LoadOrCreateVaultMasterKey
  <2>1. VaultKey[2] = account.salt
    BY DEF VaultKey
  <2>2. UNCHANGED <<account, recoverySlot, revealed, used, retired>>
    BY <1>4 DEF LoadOrCreateVaultMasterKey
  <2> QED
    BY <1>4, <2>1, <2>2, OpenEffect
<1>5. ASSUME NEW s \in Stores, CreateProtectionKeys(s) PROVE DrawnBelowFresh'
  BY <1>5 DEF CreateProtectionKeys
<1>6. ASSUME NEW p, NEW new, ChangePassword(p, new) PROVE DrawnBelowFresh'
  BY <1>6, RotateEffect DEF ChangePassword
<1>7. ASSUME NEW code, NEW new, ResetPasswordWithRecoveryCode(code, new)
      PROVE DrawnBelowFresh'
  BY <1>7, RotateEffect DEF ResetPasswordWithRecoveryCode
<1>8. CASE RewrapPasswordSlot
  <2>1. VaultKey[2] = account.salt
    BY DEF VaultKey
  <2> QED
    BY <1>8, <2>1, RewrapEffect
<1>9. CASE RewrapRecoverySlot
  BY <1>9 DEF RewrapRecoverySlot
<1>10. CASE RevealRecoveryCode
  BY <1>10 DEF RevealRecoveryCode
<1>11. CASE DeleteAccountRow
  BY <1>11 DEF DeleteAccountRow, NoAccount, VmkViaPassword
<1>12. CASE \/ \E secret : AuthenticateWrong(secret)
            \/ \E s \in Stores : \/ LoadProtectionKeys(s) \/ SaveHmacKey(s)
                                 \/ SealRecord(s) \/ DeleteRecords(s)
            \/ \E p : DeleteAccount(p)
            \/ RecordDeception \/ DeleteEvents \/ CloseWindow
  BY <1>12 DEF AuthenticateWrong, LoadProtectionKeys, SaveHmacKey, SealRecord,
               DeleteRecords, DeleteAccount, RecordDeception, DeleteEvents, CloseWindow
<1>13. CASE Crash \/ CommitFails
  BY <1>13, InterruptEffect
<1>14. CASE Counting
  BY <1>14, CountingFrame DEF kept
<1>20. CASE Viewing
  BY <1>20, ViewingFrame
<1> QED
  BY <1>1, <1>2, <1>3, <1>4, <1>5, <1>6, <1>7, <1>8, <1>9, <1>10, <1>11, <1>12,
     <1>13, <1>14, <1>20, StepCases

\* No step leaves an account row of a shape its kind does not have.
LEMMA AccountShapeStep == IInv /\ [Next]_vars => AccountShape'
<1> SUFFICES ASSUME IInv, [Next]_vars PROVE AccountShape'
  OBVIOUS
<1>0. TypeOK /\ AccountShape /\ fresh # 0
  BY Numbers DEF IInv
<1> USE <1>0 DEF AccountShape, lockout, slots, wraps, stored, window, ghosts
<1>1. ASSUME NEW p \in Passwords, RegisterPasswordAccount(p) PROVE AccountShape'
  BY <1>1 DEF RegisterPasswordAccount, PasswordCredential
<1>2. ASSUME NEW k \in KeyFiles, RegisterPrivateKeyAccount(k) PROVE AccountShape'
  BY <1>2 DEF RegisterPrivateKeyAccount
<1>3. ASSUME NEW secret, AuthenticateRight(secret) PROVE AccountShape'
  BY <1>3, HealSaltEffect DEF AuthenticateRight, Unlocked, Exists
<1>4. ASSUME NEW p, NEW new, ChangePassword(p, new) PROVE AccountShape'
  BY <1>4, RotateEffect DEF ChangePassword
<1>5. ASSUME NEW code, NEW new, ResetPasswordWithRecoveryCode(code, new)
      PROVE AccountShape'
  BY <1>5, RotateEffect DEF ResetPasswordWithRecoveryCode
<1>6. CASE DeleteAccountRow
  BY <1>6 DEF DeleteAccountRow, NoAccount
<1>7. CASE \/ \E secret : AuthenticateWrong(secret)
           \/ \E s \in Stores : \/ LoadProtectionKeys(s) \/ CreateProtectionKeys(s)
                                \/ SaveHmacKey(s) \/ SealRecord(s) \/ DeleteRecords(s)
           \/ \E p : DeleteAccount(p)
           \/ LoadOrCreateVaultMasterKey \/ RecordDeception \/ DeleteEvents
           \/ CloseWindow \/ RewrapRecoverySlot \/ RevealRecoveryCode
  BY <1>7 DEF AuthenticateWrong, LoadProtectionKeys, CreateProtectionKeys, SaveHmacKey,
              SealRecord, DeleteRecords, DeleteAccount, LoadOrCreateVaultMasterKey,
              RecordDeception, DeleteEvents, CloseWindow, RewrapRecoverySlot,
              RevealRecoveryCode
<1>8. CASE RewrapPasswordSlot
  BY <1>8, RewrapEffect
<1>9. CASE Crash \/ CommitFails
  BY <1>9, InterruptEffect
<1>10. CASE Counting
  BY <1>10, CountingFrame DEF kept
<1>20. CASE Viewing
  BY <1>20, ViewingFrame
<1> QED
  BY <1>1, <1>2, <1>3, <1>4, <1>5, <1>6, <1>7, <1>8, <1>9, <1>10, <1>20, StepCases

\* The session, the account and the place of the program stay consistent.
LEMMA PhasesStep == IInv /\ [Next]_vars => Phases'
<1> SUFFICES ASSUME IInv, [Next]_vars PROVE Phases'
  OBVIOUS
<1>0. /\ TypeOK /\ AccountShape /\ Phases /\ RotationSteps
      /\ fresh # 0 /\ session \in {"none", "decoy", "real"}
  BY Numbers DEF IInv, TypeOK
<1> USE <1>0 DEF Phases, Opens, VaultKey, Idle, Rotating, Opening, Deleting,
                 lockout, slots, wraps, stored, window, ghosts
<1>1. ASSUME NEW p \in Passwords, RegisterPasswordAccount(p) PROVE Phases'
  BY <1>1 DEF RegisterPasswordAccount, PasswordCredential
<1>2. ASSUME NEW k \in KeyFiles, RegisterPrivateKeyAccount(k) PROVE Phases'
  BY <1>2 DEF RegisterPrivateKeyAccount
<1>3. ASSUME NEW secret, AuthenticateRight(secret) PROVE Phases'
  BY <1>3, HealSaltEffect DEF AuthenticateRight, Unlocked, Exists
<1>4. ASSUME NEW secret, AuthenticateWrong(secret) PROVE Phases'
  BY <1>4 DEF AuthenticateWrong, Unlocked, Exists
<1>5. CASE LoadOrCreateVaultMasterKey
  <2>1. UNCHANGED <<account, session>> /\ pc = "open vault" /\ pc' = "metadata"
    BY <1>5 DEF LoadOrCreateVaultMasterKey
  <2>2. Opens'
    BY <1>5, <2>1, OpenEffect, OpensVmk
  <2> QED
    BY <2>1, <2>2
<1>6. ASSUME NEW s \in Stores, LoadProtectionKeys(s) PROVE Phases'
  BY <1>6 DEF LoadProtectionKeys, EnterAfter, AfterKeys, Stores
<1>7. ASSUME NEW s \in Stores, CreateProtectionKeys(s) PROVE Phases'
  BY <1>7 DEF CreateProtectionKeys, HmacStep, Stores
<1>8. ASSUME NEW s \in Stores, SaveHmacKey(s) PROVE Phases'
  BY <1>8 DEF SaveHmacKey, EnterAfter, AfterKeys, HmacStep, Stores
<1>9. CASE \/ \E s \in Stores : SealRecord(s)
           \/ RecordDeception \/ CloseWindow
  BY <1>9 DEF SealRecord, RecordDeception, CloseWindow, NoSession
<1>10. ASSUME NEW p, DeleteAccount(p) PROVE Phases'
  BY <1>10 DEF DeleteAccount, InSettings, Registered
<1>11. ASSUME NEW p, NEW new, ChangePassword(p, new) PROVE Phases'
  BY <1>11, RotateEffect DEF ChangePassword, InSettings
<1>12. ASSUME NEW code, NEW new, ResetPasswordWithRecoveryCode(code, new)
       PROVE Phases'
  BY <1>12, RotateEffect DEF ResetPasswordWithRecoveryCode
<1>13. CASE RewrapPasswordSlot
  BY <1>13, RewrapEffect
<1>14. CASE RewrapRecoverySlot
  BY <1>14 DEF RewrapRecoverySlot
<1>15. CASE RevealRecoveryCode
  BY <1>15 DEF RevealRecoveryCode, Back
<1>16. ASSUME NEW s \in Stores, DeleteRecords(s) PROVE Phases'
  BY <1>16 DEF DeleteRecords, DeleteStep, AfterDelete, Stores
<1>17. CASE DeleteEvents
  BY <1>17 DEF DeleteEvents
<1>18. CASE DeleteAccountRow
  BY <1>18 DEF DeleteAccountRow, NoSession
<1>19. CASE Crash \/ CommitFails
  <2>1. pc \in Places
    BY DEF TypeOK
  <2> QED
    BY <1>19, <2>1, InterruptEffect DEF Back, Places
<1>20. CASE Counting
  BY <1>20, CountingFrame DEF kept
<1>30. CASE Viewing
  BY <1>30, ViewingFrame
<1> QED
  BY <1>1, <1>2, <1>3, <1>4, <1>5, <1>6, <1>7, <1>8, <1>9, <1>10, <1>11, <1>12,
     <1>13, <1>14, <1>15, <1>16, <1>17, <1>18, <1>19, <1>20, <1>30, StepCases

\* A rotation cannot reach the reveal with a recovery slot out of date.
LEMMA RotationStepsStep == IInv /\ [Next]_vars => RotationSteps'
<1> SUFFICES ASSUME IInv, [Next]_vars PROVE RotationSteps'
  OBVIOUS
<1>0. /\ TypeOK /\ DrawnBelowFresh /\ AccountShape /\ Phases /\ RotationSteps
      /\ fresh # 0 /\ fresh \notin revealed
  BY Numbers DEF IInv, DrawnBelowFresh
<1> USE <1>0 DEF RotationSteps, SlotsAgree, Opens, VaultKey, Idle, Rotating,
                 lockout, slots, wraps, stored, window, ghosts
<1>1. ASSUME NEW p \in Passwords, RegisterPasswordAccount(p) PROVE RotationSteps'
  BY <1>1 DEF RegisterPasswordAccount, PasswordCredential
<1>2. ASSUME NEW k \in KeyFiles, RegisterPrivateKeyAccount(k) PROVE RotationSteps'
  BY <1>2 DEF RegisterPrivateKeyAccount
<1>3. ASSUME NEW secret, AuthenticateRight(secret) PROVE RotationSteps'
  BY <1>3, HealSaltEffect DEF AuthenticateRight, AccountShape
<1>4. ASSUME NEW secret, AuthenticateWrong(secret) PROVE RotationSteps'
  BY <1>4 DEF AuthenticateWrong
<1>5. CASE LoadOrCreateVaultMasterKey
  <2>1. /\ UNCHANGED <<account, carry, recoverySlot, revealed>>
        /\ pc = "open vault" /\ pc' = "metadata"
    BY <1>5 DEF LoadOrCreateVaultMasterKey
  <2> QED
    BY <1>5, <2>1, OpenEffect, OpensVmk
<1>6. ASSUME NEW s \in Stores, LoadProtectionKeys(s) PROVE RotationSteps'
  BY <1>6 DEF LoadProtectionKeys, EnterAfter, AfterKeys, Stores
<1>7. ASSUME NEW s \in Stores, CreateProtectionKeys(s) PROVE RotationSteps'
  BY <1>7 DEF CreateProtectionKeys, HmacStep, Stores
<1>8. ASSUME NEW s \in Stores, SaveHmacKey(s) PROVE RotationSteps'
  BY <1>8 DEF SaveHmacKey, EnterAfter, AfterKeys, HmacStep, Stores
<1>9. CASE \/ \E s \in Stores : SealRecord(s)
           \/ RecordDeception \/ CloseWindow
  BY <1>9 DEF SealRecord, RecordDeception, CloseWindow, NoSession
<1>10. ASSUME NEW p, DeleteAccount(p) PROVE RotationSteps'
  BY <1>10 DEF DeleteAccount, InSettings
<1>11. ASSUME NEW p, NEW new, ChangePassword(p, new) PROVE RotationSteps'
  <2>1. carry' = VmkViaPassword /\ revealed' = revealed
    BY <1>11 DEF ChangePassword
  <2> QED
    BY <1>11, <2>1, RotateEffect, OpensVmk DEF ChangePassword
<1>12. ASSUME NEW code \in revealed \cup {0}, NEW new,
              ResetPasswordWithRecoveryCode(code, new)
       PROVE RotationSteps'
  <2>1. SlotsAgree /\ revealed' = revealed
    BY <1>12 DEF ResetPasswordWithRecoveryCode
  <2>2. carry' = passwordSlot.vmk
    BY <1>12, <2>1 DEF ResetPasswordWithRecoveryCode, VmkViaRecovery
  <2> QED
    BY <1>12, <2>1, <2>2, RotateEffect DEF ResetPasswordWithRecoveryCode
<1>13. CASE RewrapPasswordSlot
  <2>1. account.method = "password" /\ account.salt # 0
    BY <1>13, RewrapEffect DEF Phases, AccountShape
  <2> QED
    BY <1>13, <2>1, RewrapEffect
<1>14. CASE RewrapRecoverySlot
  BY <1>14 DEF RewrapRecoverySlot
<1>15. CASE RevealRecoveryCode
  BY <1>15 DEF RevealRecoveryCode, Back
<1>16. ASSUME NEW s \in Stores, DeleteRecords(s) PROVE RotationSteps'
  BY <1>16 DEF DeleteRecords, DeleteStep, AfterDelete, Stores
<1>17. CASE DeleteEvents
  BY <1>17 DEF DeleteEvents
<1>18. CASE DeleteAccountRow
  BY <1>18 DEF DeleteAccountRow, NoSession, NoAccount
<1>19. CASE Crash \/ CommitFails
  BY <1>19, InterruptEffect DEF Back
<1>20. CASE Counting
  BY <1>20, CountingFrame DEF kept
<1>30. CASE Viewing
  BY <1>30, ViewingFrame
<1> QED
  BY <1>1, <1>2, <1>3, <1>4, <1>5, <1>6, <1>7, <1>8, <1>9, <1>10, <1>11, <1>12,
     <1>13, <1>14, <1>15, <1>16, <1>17, <1>18, <1>19, <1>20, <1>30, StepCases

\* Where the window is being built, the vault is open.
LEMMA OpeningOpens ==
    ASSUME IInv, NEW s \in Stores, pc \in {s, HmacStep(s)}
    PROVE  Opens /\ VmkViaPassword = passwordSlot.vmk
BY OpensVmk DEF IInv, Phases, Opening, HmacStep, Stores

\* The keys a store finds are its pair, or one of them is missing.
LEMMA KeysFoundPair ==
    ASSUME IInv, NEW s \in Stores, Opens
    PROVE  /\ KeysFound(s).enc # 0 /\ KeysFound(s).hmac # 0
                 <=> Complete(s)
           /\ Complete(s) => KeysFound(s) = Pair(s) /\ Pair(s).enc = Pair(s).hmac
<1>1. VmkViaPassword = passwordSlot.vmk /\ passwordSlot.vmk # 0
  BY OpensVmk DEF IInv, Opens
<1>2. /\ hmacWrap[s].vmk = encWrap[s].vmk => hmacWrap[s].key = encWrap[s].key
      /\ hmacWrap[s].vmk # 0 => hmacWrap[s].key # 0
  BY DEF IInv, KeyOrder
<1> QED
  BY <1>1, <1>2 DEF KeysFound, Unwrap, Complete, Pair

\* The protection keys of the other stores are left alone.
LEMMA WrapUpdate ==
    ASSUME TypeOK, NEW s \in Stores, NEW w,
           NEW f, f \in {encWrap, hmacWrap}
    PROVE  \A t \in Stores : [f EXCEPT ![s] = w][t] = IF t = s THEN w ELSE f[t]
BY DEF TypeOK

\* Re-creating the protection keys of a store never leaves an HMAC key newer
\* than the encryption key, nor two keys of different draws under one VMK.
LEMMA KeyOrderStep == IInv /\ [Next]_vars => KeyOrder'
<1> SUFFICES ASSUME IInv, [Next]_vars PROVE KeyOrder'
  OBVIOUS
<1>0. TypeOK /\ KeyOrder
  BY DEF IInv
<1> USE <1>0 DEF lockout, slots, wraps, stored, window, ghosts
<1>1. CASE LoadOrCreateVaultMasterKey
  <2>1. UNCHANGED <<encWrap, hmacWrap>>
    BY <1>1 DEF LoadOrCreateVaultMasterKey
  <2>2. passwordSlot'.vmk \in {passwordSlot.vmk, fresh}
    BY <1>1, OpenEffect
  <2>3. \A s \in Stores : encWrap[s].vmk <= fresh
    BY Numbers DEF KeyOrder, IInv, DrawnBelowFresh
  <2> QED
    BY <2>1, <2>2, <2>3 DEF KeyOrder
<1>2. CASE RewrapPasswordSlot
  <2>1. UNCHANGED <<encWrap, hmacWrap>>
    BY <1>2, RewrapEffect
  <2>2. passwordSlot'.vmk \in {passwordSlot.vmk, fresh}
    BY <1>2, RewrapEffect
  <2>3. \A s \in Stores : encWrap[s].vmk <= fresh
    BY Numbers DEF KeyOrder, IInv, DrawnBelowFresh
  <2> QED
    BY <2>1, <2>2, <2>3 DEF KeyOrder
<1>3. ASSUME NEW s \in Stores, CreateProtectionKeys(s) PROVE KeyOrder'
  <2>1. Opens /\ VmkViaPassword = passwordSlot.vmk
    BY <1>3, OpeningOpens DEF CreateProtectionKeys
  <2>2. ~Complete(s)
    BY <1>3, <2>1, KeysFoundPair DEF CreateProtectionKeys
  <2>3. /\ UNCHANGED <<passwordSlot, hmacWrap>>
        /\ \A t \in Stores : encWrap'[t] = IF t = s THEN [key |-> fresh, vmk |-> passwordSlot.vmk]
                                                    ELSE encWrap[t]
    <3>1. /\ UNCHANGED <<passwordSlot, hmacWrap>>
          /\ encWrap' = [encWrap EXCEPT ![s] = [key |-> fresh, vmk |-> passwordSlot.vmk]]
      BY <1>3, <2>1 DEF CreateProtectionKeys
    <3> QED
      BY <3>1, WrapUpdate
  <2>4. hmacWrap[s].vmk <= passwordSlot.vmk /\ hmacWrap[s].vmk # passwordSlot.vmk
    <3>1. /\ hmacWrap[s].vmk <= encWrap[s].vmk /\ encWrap[s].vmk <= passwordSlot.vmk
      BY DEF KeyOrder
    <3>2. passwordSlot.vmk # 0
      BY <2>1 DEF Opens
    <3>3. encWrap[s].vmk = passwordSlot.vmk => hmacWrap[s].vmk # passwordSlot.vmk
      BY <2>2, <3>2 DEF Complete
    <3> QED
      BY <3>1, <3>3, Numbers
  <2>5. passwordSlot.vmk <= passwordSlot.vmk
    BY Numbers
  <2> QED
    BY <2>3, <2>4, <2>5 DEF KeyOrder
<1>4. ASSUME NEW s \in Stores, SaveHmacKey(s) PROVE KeyOrder'
  <2>1. Opens /\ VmkViaPassword = passwordSlot.vmk
    BY <1>4, OpeningOpens DEF SaveHmacKey
  <2>2. /\ encWrap[s] = [key |-> held[s].enc, vmk |-> passwordSlot.vmk]
        /\ held[s].enc # 0 /\ held[s].enc = held[s].hmac
    BY <1>4 DEF SaveHmacKey, IInv, OpeningSteps, KeyPairsMatch
  <2>3. /\ UNCHANGED <<passwordSlot, encWrap>>
        /\ \A t \in Stores :
              hmacWrap'[t] = IF t = s THEN [key |-> held[s].hmac, vmk |-> passwordSlot.vmk]
                                      ELSE hmacWrap[t]
    BY <1>4, <2>1, WrapUpdate DEF SaveHmacKey
  <2>4. passwordSlot.vmk <= passwordSlot.vmk
    BY Numbers
  <2> QED
    BY <2>2, <2>3, <2>4 DEF KeyOrder
<1>5. CASE UNCHANGED <<passwordSlot, encWrap, hmacWrap>>
  BY <1>5 DEF KeyOrder
<1>6. CASE \/ \E p : RegisterPasswordAccount(p) \/ DeleteAccount(p)
           \/ \E k : RegisterPrivateKeyAccount(k)
           \/ \E secret : AuthenticateRight(secret) \/ AuthenticateWrong(secret)
           \/ \E s \in Stores : LoadProtectionKeys(s) \/ SealRecord(s) \/ DeleteRecords(s)
           \/ RewrapRecoverySlot \/ RevealRecoveryCode \/ RecordDeception
           \/ DeleteEvents \/ DeleteAccountRow \/ CloseWindow
  BY <1>5, <1>6 DEF RegisterPasswordAccount, RegisterPrivateKeyAccount, DeleteAccount,
     AuthenticateRight, AuthenticateWrong, LoadProtectionKeys, SealRecord,
     DeleteRecords, RewrapRecoverySlot, RevealRecoveryCode, RecordDeception,
     DeleteEvents, DeleteAccountRow, CloseWindow
<1>7. CASE \/ \E p, new : ChangePassword(p, new)
           \/ \E code, new : ResetPasswordWithRecoveryCode(code, new)
  BY <1>5, <1>7, RotateEffect DEF ChangePassword, ResetPasswordWithRecoveryCode
<1>8. CASE Crash \/ CommitFails
  BY <1>5, <1>8, InterruptEffect
<1>9. CASE Counting
  BY <1>5, <1>9, CountingFrame DEF kept
<1>20. CASE Viewing
  BY <1>20, ViewingFrame DEF KeyOrder
<1> QED
  BY <1>1, <1>2, <1>3, <1>4, <1>6, <1>7, <1>8, <1>9, <1>20, StepCases

\* The window never mixes keys of two draws.
LEMMA KeyPairsMatchStep == IInv /\ [Next]_vars => KeyPairsMatch'
<1> SUFFICES ASSUME IInv, [Next]_vars PROVE KeyPairsMatch'
  OBVIOUS
<1>0. TypeOK /\ KeyPairsMatch
  BY DEF IInv
<1> USE <1>0 DEF KeyPairsMatch, lockout, slots, wraps, stored, window, ghosts
<1>1. ASSUME NEW s \in Stores, LoadProtectionKeys(s) PROVE KeyPairsMatch'
  <2>1. KeysFound(s).enc = KeysFound(s).hmac
    BY <1>1, OpeningOpens, KeysFoundPair DEF LoadProtectionKeys
  <2>2. held' = [held EXCEPT ![s] = KeysFound(s)]
    BY <1>1 DEF LoadProtectionKeys
  <2> QED
    BY <2>1, <2>2 DEF TypeOK
<1>2. ASSUME NEW s \in Stores, CreateProtectionKeys(s) PROVE KeyPairsMatch'
  <2>1. held' = [held EXCEPT ![s] = [enc |-> fresh, hmac |-> fresh]]
    BY <1>2 DEF CreateProtectionKeys
  <2> QED
    BY <2>1 DEF TypeOK
<1>3. CASE DeleteAccountRow \/ CloseWindow
  <2>1. held' = [s \in Stores |-> NoKeys]
    BY <1>3 DEF DeleteAccountRow, CloseWindow, NoSession
  <2> QED
    BY <2>1 DEF NoKeys
<1>4. CASE Crash \/ CommitFails
  <2>1. held' = [s \in Stores |-> NoKeys] \/ held' = held
    BY <1>4, InterruptEffect
  <2> QED
    BY <2>1 DEF NoKeys
<1>5. CASE Counting
  BY <1>5, CountingFrame DEF kept
<1>6. CASE \/ \E p : RegisterPasswordAccount(p) \/ DeleteAccount(p)
           \/ \E k : RegisterPrivateKeyAccount(k)
           \/ \E secret : AuthenticateRight(secret) \/ AuthenticateWrong(secret)
           \/ \E s \in Stores : SaveHmacKey(s) \/ SealRecord(s) \/ DeleteRecords(s)
           \/ LoadOrCreateVaultMasterKey
           \/ RewrapRecoverySlot \/ RevealRecoveryCode \/ RecordDeception \/ DeleteEvents
  BY <1>6 DEF RegisterPasswordAccount, RegisterPrivateKeyAccount, DeleteAccount,
     AuthenticateRight, AuthenticateWrong, SaveHmacKey, SealRecord, DeleteRecords,
     LoadOrCreateVaultMasterKey, RewrapRecoverySlot, RevealRecoveryCode,
     RecordDeception, DeleteEvents
<1>7. CASE \/ \E p, new : ChangePassword(p, new)
           \/ \E code, new : ResetPasswordWithRecoveryCode(code, new)
           \/ RewrapPasswordSlot
  BY <1>7, RotateEffect, RewrapEffect DEF ChangePassword, ResetPasswordWithRecoveryCode
<1>20. CASE Viewing
  BY <1>20, ViewingFrame
<1> QED
  BY <1>1, <1>2, <1>3, <1>4, <1>5, <1>6, <1>7, <1>20, StepCases

\* Loading or saving the keys of a store leaves the window with its pair.
LEMMA HeldPair ==
    ASSUME IInv, NEW s \in Stores, LoadProtectionKeys(s) \/ SaveHmacKey(s)
    PROVE  /\ Opens' /\ Complete(s)' /\ held'[s] = Pair(s)'
           /\ \A t \in Stores : t # s =>
                 held'[t] = held[t] /\ Complete(t)' = Complete(t) /\ Pair(t)' = Pair(t)
           /\ Complete(s) => Pair(s)' = Pair(s)
<1>0. TypeOK
  BY DEF IInv
<1>1. Opens /\ VmkViaPassword = passwordSlot.vmk
  BY OpeningOpens DEF LoadProtectionKeys, SaveHmacKey
<1>2. UNCHANGED <<account, passwordSlot, encWrap>>
  BY DEF LoadProtectionKeys, SaveHmacKey, slots, wraps
<1>3. Opens'
  BY <1>1, <1>2 DEF Opens, VaultKey
<1>4. CASE LoadProtectionKeys(s)
  <2>1. Complete(s) /\ KeysFound(s) = Pair(s)
    BY <1>1, <1>4, KeysFoundPair DEF LoadProtectionKeys
  <2>2. hmacWrap' = hmacWrap /\ held' = [held EXCEPT ![s] = KeysFound(s)]
    BY <1>4 DEF LoadProtectionKeys, wraps
  <2>3. \A t \in Stores : held'[t] = IF t = s THEN KeysFound(s) ELSE held[t]
    BY <1>0, <2>2 DEF TypeOK
  <2> QED
    BY <1>2, <1>3, <2>1, <2>2, <2>3 DEF Complete, Pair
<1>5. CASE SaveHmacKey(s)
  <2>1. /\ encWrap[s] = [key |-> held[s].enc, vmk |-> passwordSlot.vmk]
        /\ held[s].enc # 0 /\ held[s].enc = held[s].hmac
    BY <1>5 DEF SaveHmacKey, IInv, OpeningSteps, KeyPairsMatch
  <2>2. /\ held' = held
        /\ \A t \in Stores :
              hmacWrap'[t] = IF t = s THEN [key |-> held[s].hmac, vmk |-> passwordSlot.vmk]
                                      ELSE hmacWrap[t]
    BY <1>0, <1>1, <1>5, WrapUpdate DEF SaveHmacKey
  <2>3. held[s] \in KeyPairs
    BY <1>0 DEF TypeOK
  <2>4. held[s] = [enc |-> held[s].enc, hmac |-> held[s].hmac]
    BY <2>3 DEF KeyPairs
  <2>5. Complete(s)' /\ held'[s] = Pair(s)'
    BY <1>1, <1>2, <2>1, <2>2, <2>4 DEF Complete, Pair, Opens
  <2>6. \A t \in Stores : t # s => Complete(t)' = Complete(t) /\ Pair(t)' = Pair(t)
    BY <1>2, <2>2 DEF Complete, Pair
  <2>7. Complete(s) => Pair(s).enc = Pair(s).hmac
    BY <1>1, KeysFoundPair
  <2>8. Complete(s) => Pair(s)' = Pair(s)
    BY <1>2, <2>1, <2>2, <2>7 DEF Pair
  <2> QED
    BY <1>3, <2>2, <2>5, <2>6, <2>8
<1> QED
  BY <1>4, <1>5

\* Each commit of the key creation leaves what the next one relies on.
LEMMA OpeningStepsStep == IInv /\ [Next]_vars => OpeningSteps'
<1> SUFFICES ASSUME IInv, [Next]_vars PROVE OpeningSteps'
  OBVIOUS
<1>0. TypeOK /\ OpeningSteps /\ RotationSteps
  BY DEF IInv
<1> USE <1>0 DEF lockout, slots, wraps, stored, window, ghosts
<1>1. ASSUME pc' \notin Opening \ {"open vault", "metadata"} PROVE OpeningSteps'
  BY <1>1 DEF OpeningSteps, Opening, HmacStep, Stores
<1>2. ASSUME NEW s \in Stores, CreateProtectionKeys(s) PROVE OpeningSteps'
  <2>1. Opens /\ VmkViaPassword = passwordSlot.vmk
    BY <1>2, OpeningOpens DEF CreateProtectionKeys
  <2>2. /\ pc = s /\ pc' = HmacStep(s) /\ passwordSlot' = passwordSlot
        /\ hmacWrap' = hmacWrap
    BY <1>2 DEF CreateProtectionKeys
  <2>3. /\ encWrap'[s] = [key |-> fresh, vmk |-> passwordSlot.vmk]
        /\ \A t \in Stores : t # s => encWrap'[t] = encWrap[t]
    <3>1. encWrap' = [encWrap EXCEPT ![s] = [key |-> fresh, vmk |-> passwordSlot.vmk]]
      BY <1>2, <2>1 DEF CreateProtectionKeys
    <3> QED
      BY <3>1 DEF TypeOK
  <2>4. /\ held'[s].enc = fresh
        /\ \A t \in Stores : t # s => held'[t] = held[t]
    BY <1>2 DEF CreateProtectionKeys, TypeOK
  <2>5. fresh # 0
    BY Numbers
  <2>6. CASE s = "metadata"
    <3>1. encWrap'[s] = [key |-> held'[s].enc, vmk |-> passwordSlot'.vmk] /\ held'[s].enc # 0
      BY <2>2, <2>3, <2>4, <2>5
    <3> QED
      BY <2>2, <2>6, <3>1 DEF OpeningSteps, HmacStep, Stores
  <2>7. CASE s = "tracking"
    <3>1. Complete("metadata") /\ held["metadata"] = Pair("metadata")
      BY <2>2, <2>7 DEF OpeningSteps
    <3>2. Complete("metadata")' /\ held'["metadata"] = Pair("metadata")'
      BY <2>2, <2>3, <2>4, <2>7, <3>1 DEF Complete, Pair, Stores
    <3>3. encWrap'[s] = [key |-> held'[s].enc, vmk |-> passwordSlot'.vmk] /\ held'[s].enc # 0
      BY <2>2, <2>3, <2>4, <2>5
    <3> QED
      BY <2>2, <2>7, <3>2, <3>3 DEF OpeningSteps, HmacStep, Stores
  <2> QED
    BY <2>6, <2>7 DEF Stores
<1>3. ASSUME NEW s \in Stores, LoadProtectionKeys(s) \/ SaveHmacKey(s)
      PROVE  OpeningSteps'
  <2>1. pc' = AfterKeys(s)
    BY <1>3 DEF LoadProtectionKeys, SaveHmacKey, EnterAfter
  <2>2. Complete(s)' /\ held'[s] = Pair(s)'
    BY <1>3, HeldPair
  <2> QED
    BY <2>1, <2>2 DEF OpeningSteps, AfterKeys, HmacStep, Stores
<1>4. CASE Counting
  BY <1>4, CountingFrame DEF kept, OpeningSteps, Complete, Pair
<1>5. CASE LoadOrCreateVaultMasterKey
  BY <1>1, <1>5 DEF LoadOrCreateVaultMasterKey
<1>6. CASE \/ \E p \in Passwords : RegisterPasswordAccount(p) \/ DeleteAccount(p)
           \/ \E k \in KeyFiles : RegisterPrivateKeyAccount(k)
           \/ \E secret \in Secrets : AuthenticateRight(secret) \/ AuthenticateWrong(secret)
           \/ \E s \in Stores : SealRecord(s) \/ DeleteRecords(s)
           \/ RewrapRecoverySlot \/ RevealRecoveryCode \/ RecordDeception \/ DeleteEvents
           \/ DeleteAccountRow \/ CloseWindow
  <2>1. pc' \in {"auth", "main", "password slot", "open vault", "delete metadata",
                 "delete tracking", "delete events", "delete account", "reveal"}
    BY <1>6 DEF RegisterPasswordAccount, RegisterPrivateKeyAccount, DeleteAccount,
       AuthenticateRight, AuthenticateWrong, SealRecord, DeleteRecords, AfterDelete,
       RewrapRecoverySlot, RevealRecoveryCode, Back, RecordDeception, DeleteEvents,
       DeleteAccountRow, CloseWindow, NoSession
  <2> QED
    BY <1>1, <2>1 DEF Opening
<1>7. CASE \/ \E p, new \in Passwords : ChangePassword(p, new)
           \/ \E code \in revealed \cup {0}, new \in Passwords :
                 ResetPasswordWithRecoveryCode(code, new)
           \/ RewrapPasswordSlot
  <2>1. pc' \in {"password slot", "recovery slot"}
    BY <1>7, RotateEffect, RewrapEffect DEF ChangePassword, ResetPasswordWithRecoveryCode
  <2> QED
    BY <1>1, <2>1 DEF Opening
<1>8. CASE Crash \/ CommitFails
  BY <1>1, <1>8, InterruptEffect DEF Idle, Opening
<1>20. CASE Viewing
  BY <1>20, ViewingFrame DEF OpeningSteps, Complete, Pair
<1> QED
  BY <1>2, <1>3, <1>4, <1>5, <1>6, <1>7, <1>8, <1>20, StepCases

\* What Readable asks of one store.
ReadableIn(s) ==
    /\ Own(s) # {} => Reachable /\ Complete(s) /\ Own(s) = {Pair(s)}
    /\ session = "real" => Reachable /\ Complete(s) /\ held[s] = Pair(s)

\* The records stay sealed with the keys the vault leads to.
LEMMA ReadableStep == IInv /\ [Next]_vars => Readable'
<1> SUFFICES ASSUME IInv, [Next]_vars PROVE Readable'
  OBVIOUS
<1>0. TypeOK /\ Phases /\ RotationSteps
  BY DEF IInv
<1> USE <1>0 DEF lockout, slots, wraps, stored, window, ghosts
<1>a. Readable = (~torn => \A s \in Stores : ReadableIn(s))
  BY DEF Readable, ReadableIn
<1>b. Readable' = (~torn' => \A s \in Stores : ReadableIn(s)')
  BY DEF Readable, ReadableIn
<1>c. torn \/ \A s \in Stores : ReadableIn(s)
  BY <1>a DEF IInv
\* Outside a rotation's first commit the VMK is reachable because it opens.
<1>d. pc # "password slot" => (Reachable <=> Opens)
  BY DEF Reachable
\* The steps that touch neither the records, the keys, the slot nor the session
\* only have to keep the VMK reachable.
<1>e. ASSUME UNCHANGED <<passwordSlot, encWrap, hmacWrap, records, held, torn, outlived>>,
             session' = session \/ session' = "none",
             Reachable => Reachable'
      PROVE  Readable'
  BY <1>b, <1>c, <1>e DEF ReadableIn, Complete, Pair, Own
<1>1. ASSUME NEW p \in Passwords, RegisterPasswordAccount(p) PROVE Readable'
  <2>1. \A s \in Stores : Own(s)' = {} /\ session' # "real"
    BY <1>1 DEF RegisterPasswordAccount, Exists, Phases, IInv, DeletionSteps, Own
  <2> QED
    BY <1>b, <2>1 DEF ReadableIn, Own
<1>2. ASSUME NEW k \in KeyFiles, RegisterPrivateKeyAccount(k) PROVE Readable'
  <2>1. \A s \in Stores : Own(s)' = {} /\ session' # "real"
    BY <1>2 DEF RegisterPrivateKeyAccount, Exists, Phases, IInv, DeletionSteps, Own
  <2> QED
    BY <1>b, <2>1 DEF ReadableIn, Own
<1>3. ASSUME NEW secret, AuthenticateRight(secret) PROVE Readable'
  <2>1. Opens => account' = account
    BY <1>3, HealSaltEffect DEF AuthenticateRight, Opens
  <2>2. Reachable => Reachable'
    BY <1>3, <2>1, <1>d DEF AuthenticateRight, Reachable, Opens, VaultKey
  <2> QED
    BY <1>3, <1>e, <2>2 DEF AuthenticateRight
<1>4. CASE LoadOrCreateVaultMasterKey
  <2>1. /\ pc = "open vault" /\ session' = session /\ session # "real"
        /\ UNCHANGED <<account, encWrap, hmacWrap, records, held, torn, outlived>>
    BY <1>4 DEF LoadOrCreateVaultMasterKey, Phases, Opening
  <2>2. CASE Opens
    <3>1. passwordSlot' = passwordSlot
      BY <1>4, <2>2, OpenEffect, OpensVmk
    <3>2. Reachable'
      BY <2>1, <2>2, <3>1 DEF Reachable, Opens, VaultKey
    <3> QED
      BY <1>e, <2>1, <3>1, <3>2
  <2>3. CASE ~Opens
    BY <1>b, <1>c, <1>d, <2>1, <2>3 DEF ReadableIn, Own
  <2> QED
    BY <2>2, <2>3
<1>5. ASSUME NEW s \in Stores, CreateProtectionKeys(s) PROVE Readable'
  <2>1. Opens
    BY <1>5, OpeningOpens DEF CreateProtectionKeys
  <2>2. ~Complete(s)
    BY <1>5, <2>1, KeysFoundPair DEF CreateProtectionKeys
  <2>3. /\ UNCHANGED <<account, passwordSlot, hmacWrap, records, torn, outlived>>
        /\ session' # "real"
        /\ encWrap' = [encWrap EXCEPT ![s] = [key |-> fresh, vmk |-> VmkViaPassword]]
    BY <1>5 DEF CreateProtectionKeys, Phases, Opening, Stores
  <2>4. \A t \in Stores : t # s => Complete(t)' = Complete(t) /\ Pair(t)' = Pair(t)
    BY <2>3, WrapUpdate DEF Complete, Pair
  <2>5. Reachable'
    BY <2>1, <2>3 DEF Reachable, Opens, VaultKey
  <2> QED
    BY <1>b, <1>c, <2>2, <2>3, <2>4, <2>5 DEF ReadableIn, Own
<1>6. ASSUME NEW s \in Stores, LoadProtectionKeys(s) \/ SaveHmacKey(s) PROVE Readable'
  <2>1. UNCHANGED <<records, torn, outlived>> /\ pc \in {s, HmacStep(s)}
    BY <1>6 DEF LoadProtectionKeys, SaveHmacKey
  <2>2. session' = "real" => s = "tracking"
    BY <1>6 DEF LoadProtectionKeys, SaveHmacKey, EnterAfter, AfterKeys, Phases,
                Opening, HmacStep, Stores
  <2>3. session' = "real" => Complete("metadata") /\ held["metadata"] = Pair("metadata")
    BY <2>1, <2>2 DEF IInv, OpeningSteps, HmacStep, Stores
  <2>4. Reachable'
    BY <1>6, HeldPair DEF Reachable
  <2>5. ASSUME NEW t \in Stores, ~torn PROVE ReadableIn(t)'
    <3>1. CASE t = s
      BY <1>c, <1>6, <2>1, <2>4, <2>5, <3>1, HeldPair DEF ReadableIn, Own
    <3>2. CASE t # s
      BY <1>c, <1>6, <2>1, <2>2, <2>3, <2>4, <2>5, <3>2, HeldPair DEF ReadableIn, Own, Stores
    <3> QED
      BY <3>1, <3>2
  <2> QED
    BY <1>b, <2>1, <2>5
<1>7. ASSUME NEW s \in Stores, SealRecord(s) PROVE Readable'
  <2>1. /\ session = "real" /\ session' = session
        /\ records' = [records EXCEPT ![s] = @ \cup {held[s]}]
        /\ UNCHANGED <<account, passwordSlot, encWrap, hmacWrap, held, pc, carry, torn, outlived>>
    BY <1>7 DEF SealRecord
  <2>2. \A t \in Stores : records'[t] = IF t = s THEN records[s] \cup {held[s]}
                                                 ELSE records[t]
    BY <2>1 DEF TypeOK
  <2>3. /\ Reachable' = Reachable
        /\ \A t \in Stores : Complete(t)' = Complete(t) /\ Pair(t)' = Pair(t)
    BY <2>1 DEF Reachable, Opens, VaultKey, Complete, Pair
  <2>4. \A t \in Stores : \/ Own(t)' = Own(t)
                           \/ Own(t)' = Own(t) \cup {held[t]}
    <3>1. records'[s] = records[s] \cup {held[s]} /\ \A t \in Stores : t # s => records'[t] = records[t]
      BY <2>2
    <3>2. \A t \in Stores : t # s => Own(t)' = Own(t)
      BY <2>1, <3>1 DEF Own
    <3>3. s = "tracking" /\ held[s] \in outlived => Own(s)' = Own(s)
      BY <2>1, <3>1 DEF Own
    <3>4. s # "tracking" \/ held[s] \notin outlived => Own(s)' = Own(s) \cup {held[s]}
      BY <2>1, <3>1 DEF Own
    <3> QED
      BY <3>2, <3>3, <3>4
  <2>5. ASSUME ~torn, NEW t \in Stores PROVE ReadableIn(t)'
    BY <1>c, <2>1, <2>3, <2>4, <2>5 DEF ReadableIn
  <2> QED
    BY <1>b, <2>1, <2>5
<1>8. ASSUME NEW s \in Stores, DeleteRecords(s) PROVE Readable'
  <2>1. /\ session' = session /\ records' = [records EXCEPT ![s] = {}]
        /\ pc = DeleteStep(s)
        /\ UNCHANGED <<account, passwordSlot, encWrap, hmacWrap, held, torn, outlived>>
    BY <1>8 DEF DeleteRecords
  <2>2. \A t \in Stores : records'[t] = IF t = s THEN {} ELSE records[t]
    BY <2>1 DEF TypeOK
  <2>3. Reachable => Reachable'
    BY <1>d, <2>1 DEF Reachable, Opens, VaultKey, DeleteStep
  <2>4. \A t \in Stores : Complete(t)' = Complete(t) /\ Pair(t)' = Pair(t)
    BY <2>1 DEF Complete, Pair
  <2>5. \A t \in Stores : Own(t)' = IF t = s THEN {} ELSE Own(t)
    BY <2>1, <2>2 DEF Own
  <2> QED
    BY <1>b, <1>c, <2>1, <2>3, <2>4, <2>5 DEF ReadableIn
<1>9. ASSUME NEW p, NEW new, ChangePassword(p, new) PROVE Readable'
  <2>1. Reachable => Reachable'
    <3>1. pc = "main" /\ carry' = VmkViaPassword
      BY <1>9 DEF ChangePassword, InSettings
    <3>2. Opens => carry' # 0
      BY <3>1, OpensVmk
    <3> QED
      BY <1>9, <1>d, <3>1, <3>2, RotateEffect DEF ChangePassword, Reachable
  <2> QED
    BY <1>9, <1>e, <2>1, RotateEffect DEF ChangePassword
<1>10. ASSUME NEW code \in revealed \cup {0}, NEW new,
              ResetPasswordWithRecoveryCode(code, new)
       PROVE Readable'
  <2>1. SlotsAgree
    BY <1>10 DEF ResetPasswordWithRecoveryCode, RotationSteps
  <2>2. carry' # 0
    BY <1>10, <2>1 DEF ResetPasswordWithRecoveryCode, VmkViaRecovery, SlotsAgree, Opens
  <2> QED
    BY <1>10, <1>e, <2>2, RotateEffect DEF ResetPasswordWithRecoveryCode, Reachable
<1>11. CASE RewrapPasswordSlot
  <2>1. /\ UNCHANGED <<account, encWrap, hmacWrap, records, session, held, torn, outlived>>
        /\ pc = "password slot" /\ passwordSlot'.under = VaultKey
        /\ passwordSlot'.vmk # 0 /\ VaultKey' = VaultKey
    BY <1>11, RewrapEffect DEF VaultKey
  <2>2. account.salt # 0
    BY <2>1 DEF IInv, Phases, AccountShape, Rotating
  <2>3. Opens'
    BY <2>1, <2>2 DEF Opens
  <2>4. Reachable => passwordSlot'.vmk = passwordSlot.vmk
    BY <1>11, RewrapEffect, OpensVmk DEF Reachable, VmkToKeep
  <2>5. Reachable => \A t \in Stores : (Complete(t) => Complete(t)') /\ Pair(t)' = Pair(t)
    BY <2>1, <2>4 DEF Complete, Pair
  <2> QED
    BY <1>b, <1>c, <2>1, <2>3, <2>5 DEF ReadableIn, Own, Reachable
<1>12. CASE RewrapRecoverySlot \/ RevealRecoveryCode
  BY <1>12, <1>d, <1>e
     DEF RewrapRecoverySlot, RevealRecoveryCode, Reachable, Opens, VaultKey
<1>13. CASE \/ \E p : DeleteAccount(p)
            \/ \E secret : AuthenticateWrong(secret)
            \/ RecordDeception \/ DeleteEvents
  <2>1. /\ UNCHANGED <<account, passwordSlot, encWrap, hmacWrap, records, held, torn, outlived>>
        /\ pc # "password slot" /\ session' \in {session, "decoy"}
    BY <1>13 DEF DeleteAccount, InSettings, AuthenticateWrong, RecordDeception, DeleteEvents
  <2>2. Reachable => Reachable'
    BY <1>d, <2>1 DEF Reachable, Opens, VaultKey
  <2> QED
    BY <1>b, <1>c, <2>1, <2>2 DEF ReadableIn, Own, Complete, Pair
<1>14. CASE DeleteAccountRow
  <2>1. \A s \in Stores : Own(s)' = {} /\ session' # "real"
    BY <1>14 DEF DeleteAccountRow, NoSession, IInv, DeletionSteps, Own, Stores
  <2> QED
    BY <1>b, <2>1 DEF ReadableIn, Own
<1>15. CASE CloseWindow
  <2>1. /\ UNCHANGED <<account, passwordSlot, encWrap, hmacWrap, records, torn, outlived>>
        /\ pc # "password slot" /\ session' = "none"
    BY <1>15 DEF CloseWindow, NoSession
  <2>2. Reachable => Reachable'
    BY <1>d, <2>1 DEF Reachable, Opens, VaultKey
  <2> QED
    BY <1>b, <1>c, <2>1, <2>2 DEF ReadableIn, Own, Complete, Pair
<1>16. CASE Crash \/ CommitFails
  <2>1. /\ UNCHANGED <<account, passwordSlot, encWrap, hmacWrap, records, outlived>>
        /\ session' = "none" \/ (session' = session /\ held' = held)
        /\ torn' = (torn \/ (pc = "password slot" /\ carry # 0))
    BY <1>16, InterruptEffect
  <2>2. ~torn' => (Reachable => Reachable')
    BY <2>1 DEF Reachable, Opens, VaultKey
  <2> QED
    BY <1>b, <1>c, <2>1, <2>2 DEF ReadableIn, Own, Complete, Pair
<1>18. CASE Viewing
  <2>1. /\ UNCHANGED <<account, passwordSlot, encWrap, hmacWrap, session, held, pc, carry,
                       torn, outlived>>
    BY <1>18, ViewingFrame
  <2>2. /\ Reachable' = Reachable
        /\ \A t \in Stores : Complete(t)' = Complete(t) /\ Pair(t)' = Pair(t)
    BY <2>1 DEF Reachable, Opens, VaultKey, Complete, Pair
  <2>3. \A t \in Stores : \/ Own(t)' = Own(t)
                           \/ /\ t = "tracking" /\ session = "real"
                              /\ Own(t)' = Own(t) \cup {held[t]}
    <3>1. records' = records => \A t \in Stores : Own(t)' = Own(t)
      BY <2>1 DEF Own
    <3>2. ASSUME NEW k \in viewers,
                 records' = [records EXCEPT !["tracking"] = @ \cup {k}]
          PROVE  \A t \in Stores : \/ Own(t)' = Own(t)
                                   \/ /\ t = "tracking" /\ session = "real"
                                      /\ Own(t)' = Own(t) \cup {held[t]}
      <4>1. k \in outlived \/ (session = "real" /\ k = held["tracking"])
        BY DEF IInv, ViewersAreOfTheSession
      <4>2. \A t \in Stores : records'[t] = IF t = "tracking" THEN records[t] \cup {k}
                                                              ELSE records[t]
        BY <3>2 DEF TypeOK
      <4>3. CASE k \in outlived
        BY <2>1, <4>2, <4>3 DEF Own
      <4>4. CASE k \notin outlived
        BY <2>1, <4>1, <4>2, <4>4 DEF Own
      <4> QED
        BY <4>3, <4>4
    <3> QED
      BY <1>18, <3>1, <3>2 DEF Viewing, OpenView, CloseView, LoseView
  <2> QED
    BY <1>b, <1>c, <2>1, <2>2, <2>3 DEF ReadableIn
<1>17. CASE Counting
  BY <1>17, <1>e, CountingFrame DEF kept, Reachable, Opens, VaultKey
<1> QED
  BY <1>1, <1>2, <1>3, <1>4, <1>5, <1>6, <1>7, <1>8, <1>9, <1>10, <1>11, <1>12,
     <1>13, <1>14, <1>15, <1>16, <1>17, <1>18, StepCases

\* A view window that has not outlived its account records for the open session.
LEMMA ViewersStep == IInv /\ [Next]_vars => ViewersAreOfTheSession'
<1> SUFFICES ASSUME IInv, [Next]_vars PROVE ViewersAreOfTheSession'
  OBVIOUS
<1>0. TypeOK /\ Phases /\ ViewersAreOfTheSession
  BY DEF IInv
<1> USE <1>0 DEF ViewersAreOfTheSession, lockout, slots, wraps, stored, window, ghosts
\* Where no session is open, no such window is.
<1>e. session # "real" => viewers \subseteq outlived
  OBVIOUS
<1>1. CASE Viewing
  <2>1. UNCHANGED <<session, held, outlived>>
    BY <1>1, ViewingFrame
  <2>2. viewers' \subseteq viewers \/ (session = "real" /\ viewers' = viewers \cup {held["tracking"]})
    BY <1>1 DEF Viewing, OpenView, CloseView, LoseView
  <2> QED
    BY <2>1, <2>2
<1>2. CASE DeleteAccountRow
  BY <1>2 DEF DeleteAccountRow
<1>3. CASE CloseWindow
  BY <1>3 DEF CloseWindow
<1>4. CASE Crash \/ CommitFails
  BY <1>4, InterruptEffect
<1>5. ASSUME NEW secret, AuthenticateWrong(secret) PROVE ViewersAreOfTheSession'
  <2>1. session # "real" /\ UNCHANGED <<viewers, outlived>>
    BY <1>5 DEF AuthenticateWrong, Phases
  <2> QED
    BY <1>e, <2>1
<1>6. ASSUME NEW s \in Stores, \/ LoadProtectionKeys(s) \/ CreateProtectionKeys(s)
                               \/ SaveHmacKey(s)
      PROVE  ViewersAreOfTheSession'
  <2>1. session # "real" /\ UNCHANGED <<viewers, outlived>>
    BY <1>6 DEF LoadProtectionKeys, CreateProtectionKeys, SaveHmacKey, Phases, Opening,
                HmacStep, Stores
  <2> QED
    BY <1>e, <2>1
<1>7. CASE UNCHANGED <<session, held, viewers, outlived>>
  BY <1>7
<1>8. CASE \/ \E p : RegisterPasswordAccount(p) \/ DeleteAccount(p)
           \/ \E k : RegisterPrivateKeyAccount(k)
           \/ \E secret : AuthenticateRight(secret)
           \/ \E s \in Stores : SealRecord(s) \/ DeleteRecords(s)
           \/ LoadOrCreateVaultMasterKey \/ RewrapRecoverySlot \/ RevealRecoveryCode
           \/ RecordDeception \/ DeleteEvents
  BY <1>7, <1>8 DEF RegisterPasswordAccount, RegisterPrivateKeyAccount, DeleteAccount,
     AuthenticateRight, SealRecord, DeleteRecords, LoadOrCreateVaultMasterKey,
     RewrapRecoverySlot, RevealRecoveryCode, RecordDeception, DeleteEvents
<1>9. CASE \/ \E p, new : ChangePassword(p, new)
           \/ \E code, new : ResetPasswordWithRecoveryCode(code, new)
  <2>1. outlived' = outlived
    BY <1>9 DEF ChangePassword, ResetPasswordWithRecoveryCode
  <2> QED
    BY <1>7, <1>9, <2>1, RotateEffect DEF ChangePassword, ResetPasswordWithRecoveryCode
<1>10. CASE RewrapPasswordSlot
  BY <1>7, <1>10, RewrapEffect
<1>11. CASE Counting
  BY <1>7, <1>11, CountingFrame DEF kept
<1> QED
  BY <1>1, <1>2, <1>3, <1>4, <1>5, <1>6, <1>8, <1>9, <1>10, <1>11, StepCases

\* A deletion has removed what its place says it has.
LEMMA DeletionStepsStep == IInv /\ [Next]_vars => DeletionSteps'
<1> SUFFICES ASSUME IInv, [Next]_vars PROVE DeletionSteps'
  OBVIOUS
<1>0. /\ TypeOK /\ Phases /\ DeletionSteps
      /\ records \in [Stores -> SUBSET KeyPairs]
  BY DEF IInv, TypeOK
<1> USE <1>0 DEF DeletionSteps, Own, Stores, Deleting, lockout, slots, wraps, stored, window, ghosts
<1>1. ASSUME NEW p, RegisterPasswordAccount(p) PROVE DeletionSteps'
  BY <1>1 DEF RegisterPasswordAccount, PasswordCredential
<1>14. ASSUME NEW k, RegisterPrivateKeyAccount(k) PROVE DeletionSteps'
  BY <1>14 DEF RegisterPrivateKeyAccount
<1>2. ASSUME NEW secret, AuthenticateRight(secret) PROVE DeletionSteps'
  BY <1>2, HealSaltEffect DEF AuthenticateRight, Unlocked, Exists
<1>3. ASSUME NEW secret, AuthenticateWrong(secret) PROVE DeletionSteps'
  BY <1>3 DEF AuthenticateWrong, Unlocked, Exists
<1>4. CASE \/ LoadOrCreateVaultMasterKey
           \/ \E s \in Stores : LoadProtectionKeys(s) \/ CreateProtectionKeys(s)
                                \/ SaveHmacKey(s)
  <2>1. /\ pc' \notin Deleting /\ pc # "auth"
        /\ UNCHANGED <<account, records, events, outlived>>
    BY <1>4 DEF LoadOrCreateVaultMasterKey, LoadProtectionKeys, CreateProtectionKeys,
                SaveHmacKey, EnterAfter, AfterKeys, HmacStep
  <2> QED
    BY <2>1 DEF Phases
<1>5. CASE RecordDeception \/ \E s \in Stores : SealRecord(s)
  <2>1. pc' = "main" /\ account' = account /\ account.method # "none"
    BY <1>5 DEF RecordDeception, SealRecord, Phases
  <2> QED
    BY <2>1
<1>6. CASE \/ \E p, new : ChangePassword(p, new)
           \/ \E code, new : ResetPasswordWithRecoveryCode(code, new)
           \/ RewrapPasswordSlot \/ RewrapRecoverySlot \/ RevealRecoveryCode
  <2>1. pc' \notin Deleting /\ account'.method # "none"
    BY <1>6, RotateEffect, RewrapEffect
       DEF ChangePassword, ResetPasswordWithRecoveryCode, RewrapRecoverySlot,
           RevealRecoveryCode, Back, Phases
  <2> QED
    BY <2>1
<1>7. ASSUME NEW p, DeleteAccount(p) PROVE DeletionSteps'
  BY <1>7 DEF DeleteAccount
<1>8. ASSUME NEW s \in Stores, DeleteRecords(s) PROVE DeletionSteps'
  <2>1. /\ pc = DeleteStep(s) /\ pc' = AfterDelete(s)
        /\ UNCHANGED <<account, events, outlived>>
        /\ \A t \in Stores : records'[t] = IF t = s THEN {} ELSE records[t]
    BY <1>8 DEF DeleteRecords
  <2> QED
    BY <2>1 DEF DeleteStep, AfterDelete
<1>9. CASE DeleteEvents
  BY <1>9 DEF DeleteEvents
<1>10. CASE DeleteAccountRow
  BY <1>10 DEF DeleteAccountRow, NoSession
<1>11. CASE CloseWindow
  BY <1>11 DEF CloseWindow, NoSession
<1>12. CASE Crash \/ CommitFails
  <2>1. UNCHANGED <<account, records, events, outlived>> /\ pc' \in {"auth", "main"}
    BY <1>12, InterruptEffect DEF Idle
  <2> QED
    BY <2>1
<1>13. CASE Counting
  <2>1. UNCHANGED <<account, records, events, pc, outlived>>
    BY <1>13, CountingFrame DEF kept
  <2> QED
    BY <2>1
<1>15. CASE Viewing
  <2>1. UNCHANGED <<account, events, pc, outlived>> /\ pc \notin Deleting
    BY <1>15, ViewingFrame DEF EventLoop, Idle
  <2>2. account.method = "none" => viewers \subseteq outlived
    <3>1. account.method = "none" => session # "real"
      BY DEF Phases, AccountShape, IInv, NoAccount
    <3> QED
      BY <3>1 DEF IInv, ViewersAreOfTheSession
  <2>3. account.method = "none" =>
           Own("metadata")' = Own("metadata") /\ Own("tracking")' = Own("tracking")
    BY <1>15, <2>1, <2>2 DEF Viewing, OpenView, CloseView, LoseView
  <2> QED
    BY <2>1, <2>3
<1> QED
  BY <1>1, <1>2, <1>3, <1>4, <1>5, <1>6, <1>7, <1>8, <1>9, <1>10, <1>11, <1>12,
     <1>13, <1>14, <1>15, StepCases

\* No step leads to the VMK of a deleted account.
LEMMA NeverRetiredStep == IInv /\ [Next]_vars => NeverRetired'
<1> SUFFICES ASSUME IInv, [Next]_vars PROVE NeverRetired'
  OBVIOUS
<1>0. /\ TypeOK /\ Phases /\ RotationSteps /\ NeverRetired
      /\ 0 \notin retired /\ fresh \notin retired /\ fresh # 0
      /\ passwordSlot.under[2] # fresh
  BY Numbers DEF IInv, AccountShape, DrawnBelowFresh
<1> USE <1>0 DEF NeverRetired, lockout, slots, wraps, stored, window, ghosts
<1>1. ASSUME account'.salt \in {0, fresh}, passwordSlot' = passwordSlot
      PROVE  VmkViaPassword' = 0
  BY <1>1 DEF VmkViaPassword, VaultKey
<1>2. ASSUME NEW p, RegisterPasswordAccount(p) PROVE NeverRetired'
  BY <1>1, <1>2 DEF RegisterPasswordAccount, PasswordCredential
<1>3. ASSUME NEW k, RegisterPrivateKeyAccount(k) PROVE NeverRetired'
  BY <1>1, <1>3 DEF RegisterPrivateKeyAccount
<1>4. ASSUME NEW secret, AuthenticateRight(secret) PROVE NeverRetired'
  <2>1. UNCHANGED <<passwordSlot, carry, retired>>
    BY <1>4 DEF AuthenticateRight
  <2>2. account' = account \/ account'.salt = fresh
    BY <1>4, HealSaltEffect DEF AuthenticateRight
  <2>3. account' = account => VmkViaPassword' = VmkViaPassword
    BY <2>1 DEF VmkViaPassword, VaultKey
  <2> QED
    BY <1>1, <2>1, <2>2, <2>3
<1>5. CASE LoadOrCreateVaultMasterKey
  <2>1. UNCHANGED <<account, carry, retired>>
    BY <1>5 DEF LoadOrCreateVaultMasterKey
  <2>2. passwordSlot' = passwordSlot \/ passwordSlot'.vmk = fresh
    BY <1>5, OpenEffect
  <2>3. VmkViaPassword' \in {0, fresh, VmkViaPassword}
    BY <2>1, <2>2 DEF VmkViaPassword, VaultKey
  <2> QED
    BY <2>1, <2>3
<1>6. ASSUME NEW p, NEW new, ChangePassword(p, new) PROVE NeverRetired'
  BY <1>1, <1>6, RotateEffect DEF ChangePassword
<1>7. ASSUME NEW code \in revealed \cup {0}, NEW new,
             ResetPasswordWithRecoveryCode(code, new)
      PROVE NeverRetired'
  <2>1. SlotsAgree /\ retired' = retired
    BY <1>7 DEF ResetPasswordWithRecoveryCode, RotationSteps
  <2>2. carry' = passwordSlot.vmk
    BY <1>7, <2>1 DEF ResetPasswordWithRecoveryCode, VmkViaRecovery, SlotsAgree
  <2>3. VmkViaPassword = passwordSlot.vmk
    BY <2>1, OpensVmk DEF SlotsAgree
  <2> QED
    BY <1>1, <1>7, <2>1, <2>2, <2>3, RotateEffect DEF ResetPasswordWithRecoveryCode
<1>8. CASE RewrapPasswordSlot
  <2>1. carry' \in {carry, VmkViaPassword, fresh} /\ carry' # 0 /\ carry' \notin retired
    <3>1. carry' = VmkToKeep \/ carry' = fresh
      BY <1>8 DEF RewrapPasswordSlot
    <3> QED
      BY <1>8, <3>1, RewrapEffect DEF VmkToKeep
  <2>2. VmkViaPassword' \in {0, carry'}
    BY <1>8, RewrapEffect DEF VmkViaPassword, VaultKey
  <2> QED
    BY <1>8, <2>1, <2>2, RewrapEffect
<1>9. CASE DeleteAccountRow
  <2>1. carry' = 0
    BY <1>9 DEF DeleteAccountRow, RotationSteps
  <2>2. VmkViaPassword' = 0
    BY <1>1, <1>9 DEF DeleteAccountRow, NoAccount
  <2>3. 0 \notin retired'
    BY <1>9 DEF DeleteAccountRow
  <2> QED
    BY <2>1, <2>2, <2>3
<1>10. ASSUME UNCHANGED <<account, passwordSlot, retired>>, carry' \in {0, carry}
       PROVE  NeverRetired'
  BY <1>10 DEF VmkViaPassword, VaultKey
<1>11. CASE \/ \E p : DeleteAccount(p)
            \/ \E secret : AuthenticateWrong(secret)
            \/ \E s \in Stores : \/ LoadProtectionKeys(s) \/ CreateProtectionKeys(s)
                                 \/ SaveHmacKey(s) \/ SealRecord(s) \/ DeleteRecords(s)
            \/ RewrapRecoverySlot \/ RevealRecoveryCode \/ RecordDeception
            \/ DeleteEvents \/ CloseWindow
  BY <1>10, <1>11 DEF DeleteAccount, AuthenticateWrong, LoadProtectionKeys,
     CreateProtectionKeys, SaveHmacKey, SealRecord, DeleteRecords, RewrapRecoverySlot,
     RevealRecoveryCode, RecordDeception, DeleteEvents, CloseWindow
<1>12. CASE Crash \/ CommitFails
  BY <1>10, <1>12, InterruptEffect
<1>13. CASE Counting
  BY <1>10, <1>13, CountingFrame DEF kept
<1>30. CASE Viewing
  BY <1>30, ViewingFrame DEF VmkViaPassword, VaultKey
<1> QED
  BY <1>2, <1>3, <1>4, <1>5, <1>6, <1>7, <1>8, <1>9, <1>11, <1>12, <1>13, <1>30, StepCases

\* No step finds again the tracking keys of a window that outlived its account.
LEMMA OutlivedKeysStep == IInv /\ [Next]_vars => OutlivedKeys'
<1> SUFFICES ASSUME IInv, [Next]_vars PROVE OutlivedKeys'
  OBVIOUS
<1>0. /\ TypeOK /\ OutlivedKeys /\ KeyOrder
      /\ passwordSlot.vmk < fresh /\ fresh < fresh + 1 /\ 0 < fresh /\ fresh \in Nat
      /\ encWrap \in [Stores -> Wraps] /\ held \in [Stores -> KeyPairs]
      /\ viewers \cup outlived \subseteq KeyPairs
  BY BelowNext DEF IInv, DrawnBelowFresh, TypeOK
<1> USE DEF lockout, slots, wraps, stored, window, ghosts
\* Steps that draw nothing, wrap nothing and open nothing.
<1>e. ASSUME UNCHANGED <<encWrap, outlived>>, passwordSlot'.vmk \in {passwordSlot.vmk, fresh},
             fresh' \in {fresh, fresh + 1}, retired \subseteq retired',
             held' = held \/ held' = [s \in Stores |-> NoKeys],
             viewers' \subseteq viewers \cup {held["tracking"]},
             session' # "real" \/ (session = "real" /\ held' = held)
      PROVE  OutlivedKeys'
  <2>1. \A x \in Nat : x < fresh => x < fresh'
    BY <1>0, <1>e
  <2>2. \A s \in Stores : encWrap'[s].key < fresh' /\ held'[s].enc < fresh'
    <3>1. \A s \in Stores : /\ encWrap[s].key \in Nat /\ encWrap[s].key < fresh
                            /\ held[s].enc \in Nat /\ held[s].enc < fresh
      BY <1>0 DEF OutlivedKeys, Wraps, KeyPairs
    <3>2. \A s \in Stores : held'[s].enc \in {held[s].enc, 0}
      BY <1>e DEF NoKeys
    <3> QED
      BY <1>0, <1>e, <2>1, <3>1, <3>2
  <2>3. \A k \in viewers' \cup outlived' : k.enc < fresh'
    <3>1. \A k \in viewers \cup outlived \cup {held["tracking"]} :
             k.enc \in Nat /\ k.enc < fresh
      BY <1>0 DEF OutlivedKeys, KeyPairs, Stores
    <3> QED
      BY <1>e, <2>1, <3>1
  <2>4. encWrap["tracking"].vmk <= passwordSlot.vmk /\ encWrap["tracking"].vmk < fresh
    BY <1>0, Numbers DEF KeyOrder, Stores
  <2>5. encWrap["tracking"].vmk < passwordSlot.vmk
           => encWrap["tracking"].vmk < passwordSlot'.vmk
    BY <1>e, <2>4
  <2> QED
    BY <1>0, <1>e, <2>2, <2>3, <2>5 DEF OutlivedKeys
<1>1. ASSUME NEW s \in Stores, CreateProtectionKeys(s) PROVE OutlivedKeys'
  <2>1. /\ fresh' = fresh + 1 /\ session # "real"
        /\ UNCHANGED <<passwordSlot, session, viewers, retired, outlived>>
    BY <1>1 DEF CreateProtectionKeys, IInv, Phases, Opening, Stores
  <2>2. \A t \in Stores : /\ encWrap'[t] = encWrap[t] \/ encWrap'[t].key = fresh
                          /\ held'[t] = held[t] \/ held'[t].enc = fresh
    BY <1>0, <1>1 DEF CreateProtectionKeys
  <2>3. \A t \in Stores : encWrap[t].key \in Nat /\ held[t].enc \in Nat
    BY <1>0 DEF Wraps, KeyPairs
  <2>4. \A k \in viewers \cup outlived : k.enc \in Nat /\ k.enc # fresh
    BY <1>0 DEF OutlivedKeys, KeyPairs
  <2>5. /\ \A t \in Stores : encWrap'[t].key < fresh' /\ held'[t].enc < fresh'
        /\ \A k \in viewers' \cup outlived' : k.enc < fresh'
    BY <1>0, <2>1, <2>2, <2>3, <2>4 DEF OutlivedKeys
  <2> QED
    BY <1>0, <2>1, <2>2, <2>4, <2>5 DEF OutlivedKeys, Stores
<1>2. ASSUME NEW s \in Stores, LoadProtectionKeys(s) \/ SaveHmacKey(s)
      PROVE  OutlivedKeys'
  <2>1. /\ UNCHANGED <<passwordSlot, encWrap, viewers, fresh, retired, outlived>>
        /\ session' = "real" => s = "tracking"
    BY <1>2 DEF LoadProtectionKeys, SaveHmacKey, EnterAfter, AfterKeys, IInv, Phases,
                Opening, HmacStep, Stores
  <2>2. /\ Complete(s)' /\ held'[s] = Pair(s)'
        /\ \A t \in Stores : t # s => held'[t] = held[t]
    BY <1>2, HeldPair
  <2>3. \A t \in Stores : held'[t].enc \in {held[t].enc, encWrap[t].key}
    BY <2>1, <2>2 DEF Pair
  <2>4. session' = "real" => held'["tracking"] \notin outlived
    <3>1. Opens /\ VmkViaPassword = passwordSlot.vmk /\ passwordSlot.vmk \notin retired
      BY <1>2, OpeningOpens DEF LoadProtectionKeys, SaveHmacKey, IInv, NeverRetired
    <3>2. passwordSlot.vmk # 0 /\ passwordSlot.vmk \in Nat
      BY <1>0, <3>1, Numbers DEF Opens
    <3>3. session' = "real" => /\ encWrap["tracking"].vmk = passwordSlot.vmk
                               /\ held'["tracking"].enc = encWrap["tracking"].key
      <4>1. encWrap[s].vmk = passwordSlot.vmk /\ held'[s].enc = encWrap[s].key
        BY <2>1, <2>2 DEF Complete, Pair
      <4> QED
        BY <2>1, <4>1
    <3> QED
      BY <1>0, <3>1, <3>2, <3>3 DEF OutlivedKeys
  <2> QED
    BY <1>0, <2>1, <2>3, <2>4 DEF OutlivedKeys
<1>3. CASE DeleteAccountRow
  <2>1. /\ UNCHANGED <<passwordSlot, encWrap, viewers, fresh>> /\ session' = "none"
        /\ held' = [s \in Stores |-> NoKeys] /\ outlived' = outlived \cup viewers
        /\ retired \subseteq retired' /\ passwordSlot.vmk \in retired' \cup {0}
    BY <1>3 DEF DeleteAccountRow, NoSession
  <2>2. encWrap["tracking"].vmk = passwordSlot.vmk
           \/ encWrap["tracking"].vmk < passwordSlot.vmk
    BY <1>0, Numbers DEF KeyOrder, Stores
  <2> QED
    BY <1>0, <2>1, <2>2 DEF OutlivedKeys, NoKeys
<1>4. CASE Viewing
  <2>1. UNCHANGED <<passwordSlot, encWrap, held, session, fresh, retired, outlived>>
    BY <1>4, ViewingFrame
  <2>2. viewers' \subseteq viewers \cup {held["tracking"]}
    BY <1>4 DEF Viewing, OpenView, CloseView, LoseView
  <2> QED
    BY <1>e, <2>1, <2>2
<1>5. CASE Crash \/ CommitFails
  <2>1. /\ UNCHANGED <<passwordSlot, encWrap, fresh, retired, outlived>>
        /\ viewers' \subseteq viewers
    BY <1>5, InterruptEffect
  <2>2. \/ session' = "none" /\ held' = [s \in Stores |-> NoKeys]
        \/ UNCHANGED <<session, held>>
    BY <1>5, InterruptEffect
  <2> QED
    BY <1>e, <2>1, <2>2
<1>6. ASSUME NEW secret, AuthenticateRight(secret) PROVE OutlivedKeys'
  <2>1. UNCHANGED <<passwordSlot, encWrap, held, session, viewers, retired, outlived>>
    BY <1>6 DEF AuthenticateRight
  <2>2. fresh' \in {fresh, fresh + 1}
    BY <1>0, <1>6, HealSaltEffect DEF AuthenticateRight
  <2> QED
    BY <1>e, <2>1, <2>2
<1>7. CASE LoadOrCreateVaultMasterKey
  <2>1. UNCHANGED <<encWrap, held, session, viewers, retired, outlived>>
    BY <1>7 DEF LoadOrCreateVaultMasterKey
  <2>2. fresh' \in {fresh, fresh + 1} /\ passwordSlot'.vmk \in {passwordSlot.vmk, fresh}
    BY <1>0, <1>7, OpenEffect
  <2> QED
    BY <1>e, <2>1, <2>2
<1>8. CASE RewrapPasswordSlot
  <2>1. UNCHANGED <<encWrap, held, session, viewers, retired, outlived>>
    BY <1>8, RewrapEffect
  <2>2. fresh' \in {fresh, fresh + 1} /\ passwordSlot'.vmk \in {passwordSlot.vmk, fresh}
    BY <1>8, RewrapEffect
  <2> QED
    BY <1>e, <2>1, <2>2
<1>9. CASE \/ \E p, new : ChangePassword(p, new)
           \/ \E code, new : ResetPasswordWithRecoveryCode(code, new)
  <2>1. retired' = retired /\ outlived' = outlived
    BY <1>9 DEF ChangePassword, ResetPasswordWithRecoveryCode
  <2>2. UNCHANGED <<passwordSlot, encWrap, held, session, viewers>> /\ fresh' = fresh + 1
    BY <1>9, RotateEffect DEF ChangePassword, ResetPasswordWithRecoveryCode
  <2> QED
    BY <1>e, <2>1, <2>2
<1>10. ASSUME NEW p, RegisterPasswordAccount(p) PROVE OutlivedKeys'
  BY <1>e, <1>10 DEF RegisterPasswordAccount
<1>11. CASE \/ \E p : DeleteAccount(p)
            \/ \E k : RegisterPrivateKeyAccount(k)
            \/ \E s \in Stores : SealRecord(s) \/ DeleteRecords(s)
            \/ RewrapRecoverySlot \/ RevealRecoveryCode
            \/ RecordDeception \/ DeleteEvents
  <2>1. UNCHANGED <<passwordSlot, encWrap, held, session, viewers, fresh, retired, outlived>>
    BY <1>11 DEF DeleteAccount, RegisterPrivateKeyAccount, SealRecord, DeleteRecords,
       RewrapRecoverySlot, RevealRecoveryCode, RecordDeception, DeleteEvents
  <2> QED
    BY <1>e, <2>1
<1>12. ASSUME NEW secret, AuthenticateWrong(secret) \/ CloseWindow PROVE OutlivedKeys'
  <2>1. /\ UNCHANGED <<passwordSlot, encWrap, fresh, retired, outlived>>
        /\ session' # "real" /\ viewers' \subseteq viewers
        /\ held' = held \/ held' = [s \in Stores |-> NoKeys]
    BY <1>12 DEF AuthenticateWrong, CloseWindow, NoSession
  <2> QED
    BY <1>e, <2>1
<1>13. CASE Counting
  <2>1. UNCHANGED <<passwordSlot, encWrap, held, session, viewers, fresh, retired, outlived>>
    BY <1>13, CountingFrame DEF kept
  <2> QED
    BY <1>e, <2>1
<1> QED
  BY <1>1, <1>2, <1>3, <1>4, <1>5, <1>6, <1>7, <1>8, <1>9, <1>10, <1>11, <1>12, <1>13,
     StepCases

\* No step brings back a recovery code that was used.
LEMMA UsedOnceStep == IInv /\ [Next]_vars => RecoveryCodeUsedOnce'
<1> SUFFICES ASSUME IInv, [Next]_vars PROVE RecoveryCodeUsedOnce'
  OBVIOUS
<1>0. /\ TypeOK /\ RecoveryCodeUsedOnce
      /\ 0 \notin used /\ fresh \notin used /\ account.code # fresh
  BY Numbers DEF IInv, AccountShape, DrawnBelowFresh
<1> USE <1>0 DEF RecoveryCodeUsedOnce, lockout, slots, wraps, stored, window, ghosts
<1>e. ASSUME account'.code \in {0, fresh, account.code}, used' = used
      PROVE  RecoveryCodeUsedOnce'
  BY <1>e
<1>1. ASSUME NEW p, RegisterPasswordAccount(p) PROVE RecoveryCodeUsedOnce'
  BY <1>e, <1>1 DEF RegisterPasswordAccount, PasswordCredential
<1>9. ASSUME NEW k, RegisterPrivateKeyAccount(k) PROVE RecoveryCodeUsedOnce'
  BY <1>e, <1>9 DEF RegisterPrivateKeyAccount
<1>10. CASE DeleteAccountRow
  BY <1>e, <1>10 DEF DeleteAccountRow, NoAccount
<1>2. ASSUME NEW secret, AuthenticateRight(secret) PROVE RecoveryCodeUsedOnce'
  BY <1>2, HealSaltEffect DEF AuthenticateRight
<1>3. ASSUME NEW p, NEW new, ChangePassword(p, new) PROVE RecoveryCodeUsedOnce'
  BY <1>3, RotateEffect DEF ChangePassword
<1>4. ASSUME NEW code, NEW new, ResetPasswordWithRecoveryCode(code, new)
      PROVE RecoveryCodeUsedOnce'
  BY <1>4, RotateEffect DEF ResetPasswordWithRecoveryCode
<1>5. CASE RewrapPasswordSlot
  BY <1>e, <1>5, RewrapEffect
<1>6. CASE \/ \E p : DeleteAccount(p)
           \/ \E secret : AuthenticateWrong(secret)
           \/ \E s \in Stores : \/ LoadProtectionKeys(s) \/ CreateProtectionKeys(s)
                                \/ SaveHmacKey(s) \/ SealRecord(s) \/ DeleteRecords(s)
           \/ LoadOrCreateVaultMasterKey \/ RewrapRecoverySlot \/ RevealRecoveryCode
           \/ RecordDeception \/ DeleteEvents \/ CloseWindow
  BY <1>e, <1>6 DEF DeleteAccount, AuthenticateWrong, LoadProtectionKeys,
     CreateProtectionKeys, SaveHmacKey, SealRecord, DeleteRecords,
     LoadOrCreateVaultMasterKey, RewrapRecoverySlot, RevealRecoveryCode,
     RecordDeception, DeleteEvents, CloseWindow
<1>7. CASE Crash \/ CommitFails
  BY <1>e, <1>7, InterruptEffect
<1>8. CASE Counting
  BY <1>8, CountingFrame DEF kept
<1>20. CASE Viewing
  BY <1>20, ViewingFrame
<1> QED
  BY <1>1, <1>2, <1>3, <1>4, <1>5, <1>6, <1>7, <1>8, <1>9, <1>10, <1>20, StepCases

-----------------------------------------------------------------------------
\* The invariant holds before the first registration.
LEMMA IInvInit == Init => IInv
<1> SUFFICES ASSUME Init PROVE IInv
  OBVIOUS
<1>1. TypeOK
  BY TypeInit
<1>2. DrawnBelowFresh /\ AccountShape
  BY DEF Init, DrawnBelowFresh, AccountShape, NoAccount
<1>3. Phases /\ RotationSteps
  BY DEF Init, Phases, RotationSteps, Opens, SlotsAgree, NoAccount, Idle, Rotating,
         Opening, Deleting
<1>4. KeyOrder /\ KeyPairsMatch
  BY DEF Init, KeyOrder, KeyPairsMatch, NoWrap, NoKeys
<1>5. OpeningSteps /\ DeletionSteps
  BY DEF Init, OpeningSteps, DeletionSteps, Own, HmacStep, Stores
<1>6. Readable
  BY DEF Init, Readable, Own
<1>7. NeverRetired /\ RecoveryCodeUsedOnce
  BY DEF Init, NeverRetired, RecoveryCodeUsedOnce
<1>8. ViewersAreOfTheSession /\ OutlivedKeys
  BY DEF Init, ViewersAreOfTheSession, OutlivedKeys, NoWrap, NoKeys
<1> QED
  BY <1>1, <1>2, <1>3, <1>4, <1>5, <1>6, <1>7, <1>8 DEF IInv

\* IInv holds in every state: it is inductive, for every set of passwords and
\* key files, every lockout threshold and any number of interruptions.
THEOREM Inductive == Spec => []IInv
<1>1. Init => IInv
  BY IInvInit
<1>2. IInv /\ [Next]_vars => IInv'
  <2> SUFFICES ASSUME IInv, [Next]_vars PROVE IInv'
    OBVIOUS
  <2>1. TypeOK'
    BY TypeStep DEF IInv
  <2> QED
    BY <2>1, DrawnBelowFreshStep, AccountShapeStep, PhasesStep, RotationStepsStep,
       KeyOrderStep, OpeningStepsStep, KeyPairsMatchStep, ReadableStep, ViewersStep,
       DeletionStepsStep, NeverRetiredStep, OutlivedKeysStep, UsedOnceStep
       DEF IInv
<1> QED
  BY <1>1, <1>2, PTL DEF Spec

\* Metadata and the usage log stay readable through password changes, recovery,
\* interrupted key creation and interrupted deletion, unless a rotation was torn
\* between its first two commits.
THEOREM RecordsStayReadable == Spec => []RecordsReadable
<1>1. IInv => RecordsReadable
  <2> SUFFICES ASSUME IInv, pc \in Idle, ~torn,
                      NEW s \in Stores, NEW r \in Own(s)
               PROVE  r = KeysFound(s) /\ (session = "real" => r = held[s])
    BY DEF RecordsReadable
  <2>1. /\ Own(s) # {} => Reachable /\ Complete(s) /\ Own(s) = {Pair(s)}
        /\ session = "real" => held[s] = Pair(s)
    BY DEF IInv, Readable
  <2>2. pc # "password slot"
    BY DEF Idle
  <2>3. Reachable /\ Complete(s) /\ r = Pair(s)
    BY <2>1
  <2>4. Opens
    BY <2>2, <2>3 DEF Reachable
  <2> QED
    BY <2>1, <2>3, <2>4, KeysFoundPair
<1> QED
  BY <1>1, Inductive, PTL

\* A recovery code the user was shown and that still verifies opens the vault
\* that the password opens.
THEOREM RevealedCodeOpens == Spec => []RevealedCodeOpensVault
<1>1. IInv => RevealedCodeOpensVault
  <2> SUFFICES ASSUME IInv, account.code # 0, account.code \in revealed
               PROVE  VmkViaRecovery(account.code) # 0
                      /\ VmkViaRecovery(account.code) = VmkViaPassword
    BY DEF RevealedCodeOpensVault
  <2>1. SlotsAgree
    BY DEF IInv, RotationSteps
  <2>2. VmkViaRecovery(account.code) = passwordSlot.vmk
    BY <2>1 DEF SlotsAgree, VmkViaRecovery
  <2> QED
    BY <2>1, <2>2, OpensVmk DEF IInv, SlotsAgree, Opens
<1> QED
  BY <1>1, Inductive, PTL

\* A recovery code never pays for two resets.
THEOREM UsedOnce == Spec => []RecoveryCodeUsedOnce
<1>1. IInv => RecoveryCodeUsedOnce
  BY DEF IInv
<1> QED
  BY <1>1, Inductive, PTL

\* No account opens the vault of an account that was deleted before it.
THEOREM FreshVault == Spec => []FreshVaultPerAccount
<1>1. IInv => FreshVaultPerAccount
  BY DEF IInv, NeverRetired, OutlivedKeys, FreshVaultPerAccount
<1> QED
  BY <1>1, Inductive, PTL

\* A deletion that reached the account row left no record and no event behind.
THEOREM DeletionComplete == Spec => []DeletionLeavesNothing
<1>1. IInv => DeletionLeavesNothing
  BY DEF IInv, DeletionSteps, DeletionLeavesNothing, Exists
<1> QED
  BY <1>1, Inductive, PTL

-----------------------------------------------------------------------------
(***************************************************************************)
(* The lock is the one that module SignIn has with its durations.          *)
(***************************************************************************)
\* What is forgiven without a look at the lock has none: an account that is yet to be
\* registered, or that is on the way to be deleted.
OpenWhenForgiven ==
    /\ account.method = "none" => ~locked
    /\ pc \in Deleting => ~locked

\* A step leaves the lock alone and neither drops an account nor starts a deletion, or it
\* counts a failure or forgives them all where nothing is locked, or the lock runs out.
LEMMA LockMoves ==
    ASSUME TypeOK, OpenWhenForgiven, [Next]_vars
    PROVE  \/ /\ UNCHANGED lockout
              /\ account'.method = "none" => account.method = "none"
              /\ pc' \in Deleting => pc \in Deleting
           \/ ~locked /\ RegisterFailure /\ account' = account /\ Exists /\ pc' \notin Deleting
           \/ ~locked /\ RegisterSuccess
           \/ LockExpires
<1> USE DEF lockout, Deleting
<1>1. ASSUME NEW p \in Passwords, RegisterPasswordAccount(p) PROVE ~locked /\ RegisterSuccess
  BY <1>1 DEF RegisterPasswordAccount, OpenWhenForgiven, Exists, RegisterSuccess
<1>2. ASSUME NEW k \in KeyFiles, RegisterPrivateKeyAccount(k) PROVE ~locked /\ RegisterSuccess
  BY <1>2 DEF RegisterPrivateKeyAccount, OpenWhenForgiven, Exists, RegisterSuccess
<1>3. ASSUME NEW secret, AuthenticateRight(secret) PROVE ~locked /\ RegisterSuccess
  BY <1>3 DEF AuthenticateRight, Unlocked
<1>4. ASSUME NEW secret, AuthenticateWrong(secret) \/ AuthenticateWrongMethod(secret)
      PROVE  ~locked /\ RegisterFailure /\ account' = account /\ Exists /\ pc' \notin Deleting
  BY <1>4 DEF AuthenticateWrong, AuthenticateWrongMethod, Unlocked
<1>5. ASSUME NEW p, WrongCurrentPassword(p)
      PROVE  ~locked /\ RegisterFailure /\ account' = account /\ Exists /\ pc' \notin Deleting
  BY <1>5 DEF WrongCurrentPassword, InSettings, Unlocked
<1>6. ASSUME NEW code, WrongRecoveryCode(code)
      PROVE  ~locked /\ RegisterFailure /\ account' = account /\ Exists /\ pc' \notin Deleting
  BY <1>6 DEF WrongRecoveryCode, Unlocked
<1>7. ASSUME NEW p, NEW new, VerifyPassword(p) \/ DeleteAccount(p) \/ ChangePassword(p, new)
      PROVE  ~locked /\ RegisterSuccess
  BY <1>7 DEF VerifyPassword, DeleteAccount, ChangePassword, Rotate, InSettings, Unlocked
<1>8. ASSUME NEW code, NEW new, ResetPasswordWithRecoveryCode(code, new)
      PROVE  ~locked /\ RegisterSuccess
  BY <1>8 DEF ResetPasswordWithRecoveryCode, Rotate, Unlocked
<1>9. CASE DeleteAccountRow
  BY <1>9 DEF DeleteAccountRow, OpenWhenForgiven, RegisterSuccess
<1>10. CASE LoadOrCreateVaultMasterKey \/ RewrapPasswordSlot \/ RewrapRecoverySlot
            \/ RecordDeception \/ CloseWindow \/ UNCHANGED vars
  BY <1>10 DEF LoadOrCreateVaultMasterKey, RewrapPasswordSlot, RewrapRecoverySlot,
     RecordDeception, CloseWindow, NoSession, vars
<1>11. ASSUME NEW s \in Stores,
              LoadProtectionKeys(s) \/ CreateProtectionKeys(s) \/ SaveHmacKey(s) \/ SealRecord(s)
       PROVE  UNCHANGED lockout /\ account' = account /\ pc' \notin Deleting
  <2>1. UNCHANGED lockout /\ account' = account
    BY <1>11 DEF LoadProtectionKeys, CreateProtectionKeys, SaveHmacKey, SealRecord
  <2>2. pc' \notin Deleting
    BY <1>11 DEF LoadProtectionKeys, CreateProtectionKeys, SaveHmacKey, SealRecord,
       EnterAfter, AfterKeys, HmacStep, Stores
  <2> QED
    BY <2>1, <2>2
<1>12. ASSUME NEW s \in Stores, DeleteRecords(s) \/ DeleteEvents
       PROVE  UNCHANGED lockout /\ account' = account /\ pc \in Deleting
  BY <1>12 DEF DeleteRecords, DeleteEvents, DeleteStep, Stores
<1>13. CASE RevealRecoveryCode \/ Crash \/ CommitFails
  <2>1. UNCHANGED lockout /\ account' = account
    BY <1>13 DEF RevealRecoveryCode, Crash, CommitFails, Interrupted
  <2>2. pc' \notin Deleting
    BY <1>13 DEF RevealRecoveryCode, Crash, CommitFails, NoSession, Back
  <2> QED
    BY <2>1, <2>2
<1>14. DeleteEvents => UNCHANGED lockout /\ account' = account /\ pc \in Deleting
  BY DEF DeleteEvents
<1>15. CASE Counting
  BY <1>4, <1>5, <1>6, <1>7, <1>10, <1>15 DEF Counting
<1>16. CASE Viewing
  BY <1>16, ViewingFrame
<1> QED
  BY <1>1, <1>2, <1>3, <1>4, <1>7, <1>8, <1>9, <1>10, <1>11, <1>12, <1>13, <1>14, <1>15, <1>16,
     StepCases

LEMMA OpenStep == TypeOK /\ OpenWhenForgiven /\ [Next]_vars => OpenWhenForgiven'
<1> SUFFICES ASSUME TypeOK, OpenWhenForgiven, [Next]_vars PROVE OpenWhenForgiven'
  OBVIOUS
<1>1. CASE /\ UNCHANGED lockout
           /\ account'.method = "none" => account.method = "none"
           /\ pc' \in Deleting => pc \in Deleting
  BY <1>1 DEF lockout, OpenWhenForgiven
<1>2. CASE ~locked /\ RegisterFailure /\ account' = account /\ Exists /\ pc' \notin Deleting
  BY <1>2 DEF Exists, OpenWhenForgiven
<1>3. CASE RegisterSuccess \/ LockExpires
  BY <1>3 DEF RegisterSuccess, LockExpires, OpenWhenForgiven
<1> QED
  BY <1>1, <1>2, <1>3, LockMoves

\* Each step of the vault is a step of a lock that forgets nothing for a restart, or none
\* of its business.
LEMMA StrikeStep ==
    ASSUME TypeOK, OpenWhenForgiven, [Next]_vars
    PROVE  [StrikeCount!Strike \/ StrikeCount!Forgive \/ StrikeCount!Expire]_<<failed, locked>>
<1>1. failed \in 0..MaxFailedAttempts /\ MaxFailedAttempts \in Nat \ {0}
  BY VaultAssumption DEF TypeOK
<1>2. CASE UNCHANGED lockout
  BY <1>2 DEF lockout
<1>3. CASE ~locked /\ RegisterFailure
  <2>1. failed' = IF failed < MaxFailedAttempts THEN failed + 1 ELSE MaxFailedAttempts
    BY <1>1, <1>3 DEF RegisterFailure
  <2>2. failed' >= MaxFailedAttempts <=> failed' = MaxFailedAttempts
    BY <1>1, <2>1
  <2>3. locked' = (failed' = MaxFailedAttempts)
    BY <1>3, <2>2 DEF RegisterFailure
  <2> QED
    BY <1>3, <2>1, <2>3 DEF StrikeCount!Strike
<1>4. CASE ~locked /\ RegisterSuccess
  BY <1>4 DEF RegisterSuccess, StrikeCount!Forgive
<1>5. CASE LockExpires
  BY <1>5 DEF LockExpires, StrikeCount!Expire
<1> QED
  BY <1>2, <1>3, <1>4, <1>5, LockMoves

\* LocksOut: no rotation, deletion or interruption of one lets a locked account be tried or
\* forgives it, for every threshold (auth_controller.py:413-446).
THEOREM AccountLocksOut == Spec => LocksOut
<1>1. Init => OpenWhenForgiven
  BY DEF Init, OpenWhenForgiven
<1>2. Spec => [](TypeOK /\ OpenWhenForgiven)
  BY <1>1, TypeCorrect, OpenStep, PTL DEF Spec
<1>3. Init => StrikeCount!Init
  BY DEF Init, StrikeCount!Init
<1>4. TypeOK /\ OpenWhenForgiven /\ [Next]_vars
         => [StrikeCount!Strike \/ StrikeCount!Forgive \/ StrikeCount!Expire]_<<failed, locked>>
  BY StrikeStep
<1> QED
  BY <1>2, <1>3, <1>4, PTL DEF Spec, LocksOut, StrikeCount!Spec
=============================================================================
