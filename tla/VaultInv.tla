------------------------------ MODULE VaultInv ------------------------------
(***************************************************************************)
(* Why the invariants of module Vault hold: an invariant strong enough to  *)
(* be inductive, in named parts.  TLC can check it with MCVault;           *)
(* VaultProofs proves that every step preserves it.                        *)
(***************************************************************************)
EXTENDS Vault

(***************************************************************************)
(* The inductive invariant, part by part.                                  *)
(***************************************************************************)

\* Everything drawn so far is below the next draw.
DrawnBelowFresh ==
    /\ account.salt < fresh /\ account.code < fresh
    /\ passwordSlot.vmk < fresh /\ passwordSlot.under[2] < fresh
    /\ recoverySlot.under < fresh
    /\ \A x \in revealed \cup used \cup retired : x < fresh

\* What each kind of account row contains.
AccountShape ==
    /\ account.method = "none" => account = NoAccount
    /\ account.method = "password" => account.salt # 0 /\ account.code # 0
    /\ account.method = "private_key" => account.code = 0
    /\ 0 \notin used \cup retired

\* The vault opens with the account's own secret.
Opens == account.salt # 0 /\ passwordSlot.under = VaultKey
                          /\ passwordSlot.vmk # 0

\* Where the program can be, with which session and which account.
Phases ==
    /\ pc # "auth" => account.method # "none"
    /\ pc = "auth" \/ pc \in Opening => session = "none"
    /\ pc \in Rotating \cup Deleting => account.method = "password"
    /\ pc \in Rotating \cup Deleting => session # "decoy"
    /\ pc \in Deleting \/ session = "real" => account.salt # 0 /\ session = "real"
    /\ pc \in Opening => account.salt # 0
    /\ pc \in Opening \ {"open vault"} => Opens
    /\ pc = "main" => session # "none"

\* The recovery slot is up to date with the password slot.
SlotsAgree ==
    Opens /\ recoverySlot = [vmk |-> passwordSlot.vmk, under |-> account.code]

\* How far a rotation has come.
RotationSteps ==
    /\ carry # 0 => pc \in {"password slot", "recovery slot"}
                    /\ carry = passwordSlot.vmk
    /\ pc = "recovery slot" => carry # 0 /\ Opens
    /\ pc = "reveal" => SlotsAgree
    /\ pc \in Rotating => account.code \notin revealed
    /\ account.code # 0 /\ account.code \in revealed => SlotsAgree

\* The pair of protection keys of a store, complete under the current VMK.
Pair(s) == [enc |-> encWrap[s].key, hmac |-> hmacWrap[s].key]

Complete(s) ==
    /\ encWrap[s].vmk = passwordSlot.vmk
    /\ hmacWrap[s].vmk = passwordSlot.vmk
    /\ passwordSlot.vmk # 0

\* The HMAC key of a store is never newer than its encryption key, and no key
\* is wrapped under a VMK newer than the one in the password slot.
KeyOrder ==
    \A s \in Stores :
        /\ hmacWrap[s].vmk <= encWrap[s].vmk
        /\ encWrap[s].vmk <= passwordSlot.vmk
        /\ hmacWrap[s].vmk = encWrap[s].vmk
              => hmacWrap[s].key = encWrap[s].key
        /\ hmacWrap[s].vmk # 0 => hmacWrap[s].key # 0

\* What the opening of the window has established.
OpeningSteps ==
    /\ \A s \in Stores :
          pc = HmacStep(s) =>
              encWrap[s] = [key |-> held[s].enc, vmk |-> passwordSlot.vmk]
              /\ held[s].enc # 0
    /\ pc \in {"tracking", "tracking hmac"} =>
          Complete("metadata") /\ held["metadata"] = Pair("metadata")

\* The VMK in the password slot can still be reached: directly, or because an
\* unfinished rotation carries it.
Reachable == Opens \/ (pc = "password slot" /\ carry # 0)

Readable ==
    ~torn => \A s \in Stores :
        /\ Own(s) # {} =>
              Reachable /\ Complete(s) /\ Own(s) = {Pair(s)}
        /\ session = "real" =>
              Reachable /\ Complete(s) /\ held[s] = Pair(s)

\* A view window records with the keys of the open session, unless it has
\* outlived its account.
ViewersAreOfTheSession ==
    \A k \in viewers \ outlived : session = "real" /\ k = held["tracking"]

\* How far a deletion has come.
DeletionSteps ==
    /\ pc \in {"delete tracking", "delete events", "delete account"}
          => records["metadata"] = {}
    /\ pc \in {"delete events", "delete account"} => records["tracking"] = {}
    /\ pc = "delete account" => ~events
    /\ account.method = "none" => \A s \in Stores : Own(s) = {}
    /\ account.method = "none" => ~events

\* The tracking keys of a window that outlived its account are never found
\* again: their wrapping, if it is still there, is under a VMK that no account opens.
OutlivedKeys ==
    /\ \A s \in Stores : encWrap[s].key < fresh /\ held[s].enc < fresh
    /\ \A k \in viewers \cup outlived : k.enc < fresh
    /\ \A k \in outlived :
          encWrap["tracking"].key = k.enc =>
              \/ encWrap["tracking"].vmk \in retired \cup {0}
              \/ encWrap["tracking"].vmk < passwordSlot.vmk
    /\ session = "real" => held["tracking"] \notin outlived

NeverRetired ==
    /\ VmkViaPassword \notin retired
    /\ carry # 0 => carry \notin retired

IInv ==
    /\ TypeOK
    /\ DrawnBelowFresh
    /\ AccountShape
    /\ Phases
    /\ RotationSteps
    /\ KeyOrder
    /\ OpeningSteps
    /\ KeyPairsMatch
    /\ Readable
    /\ ViewersAreOfTheSession
    /\ DeletionSteps
    /\ NeverRetired
    /\ OutlivedKeys
    /\ RecoveryCodeUsedOnce
=============================================================================
