-------------------------------- MODULE Gate --------------------------------
(***************************************************************************)
(* What stands between a stored file and its content: the record's policy  *)
(* and device binding as ValidationEngine and DeviceBindingValidator check *)
(* them, the key that is wrapped under the device's fingerprint, the       *)
(* throttle of device mismatches with its durations, and the rebind of a   *)
(* file to another device.  The saves are single steps here; what happens  *)
(* between them is the subject of Access.                                  *)
(*                                                                         *)
(* What a stick says of itself depends on whether it can be asked: the     *)
(* serial number of its volume and the tokens of its hardware descriptor   *)
(* may each be unreadable, when a file is bound and when it is presented.  *)
(*                                                                         *)
(* An operator whose name begins with Slip is a plausible slip in the code *)
(* of the operator after it; no action uses it.                            *)
(***************************************************************************)
EXTENDS Lockout

CONSTANTS
    Sticks,     \* the USB sticks
    Ids,        \* usb identifiers: volume serial, file system and capacity
    IdOf,       \* the identifier of each stick
    BlankOf,    \* its identifier if the volume's serial number cannot be read
    Tokens,     \* the tokens of a hardware descriptor
    Values,     \* their values
    TokensOf,   \* the descriptor of each stick
    Machines,   \* the machines' fingerprints
    Policies,   \* the policies files are stored with
    None,       \* no value
    MaxTime,    \* bound: how long the clock runs
    MaxAccesses \* bound: how many accesses the controller records

ASSUME GateAssumption ==
    /\ IdOf \in [Sticks -> Ids] /\ BlankOf \in [Sticks -> Ids]
    /\ TokensOf \in [Sticks -> [Tokens -> Values \cup {None}]]
    /\ None \notin Sticks \cup Ids \cup Values \cup Machines \cup Nat
    /\ Policies \subseteq [expires : Nat \cup {None}, limit : Nat \cup {None}, once : BOOLEAN]
    /\ MaxTime \in Nat /\ MaxAccesses \in Nat

\* Two sticks are told apart by some token if a descriptor is complete: its serial
\* number is one of them.
ASSUME DistinctSticks ==
    /\ Tokens # {}
    /\ \A s, t \in Sticks : s # t /\ (\A k \in Tokens : TokensOf[s][k] # None)
                              => \E k \in Tokens : TokensOf[t][k] # TokensOf[s][k]

VARIABLES
    now,    \* the time
    rec,    \* the record of the file
    home,   \* the stick the file is bound to
    lock,   \* the file's state in the DeviceMismatchThrottle
    missed  \* when the last mismatch was counted

vars == <<now, rec, home, lock, missed>>

\* What a stick that is presented says of itself, or nothing if there is none.
Descriptors   == [Tokens -> Values \cup {None}]
Blank         == [t \in Tokens |-> None]
Readings(s)   == [id : {IdOf[s], BlankOf[s]}, tokens : {TokensOf[s], Blank}]
NoStick       == [id |-> None, tokens |-> Blank]
Presentations == [id : Ids \cup {None}, tokens : Descriptors]

\* What a key is wrapped under besides the user's key pair: a device's fingerprint,
\* nothing, or the key pair of a decoy.
Materials == {<<r.id, r.tokens>> : r \in Presentations}
Plain     == <<None, Blank>>
Decoy     == <<None, None>>

Records ==
    [stored : BOOLEAN, bound : BOOLEAN, usb : Ids \cup {None}, tokens : Descriptors,
     machine : Machines \cup {None}, policy : Policies, count : Nat,
     wrapped : Materials \cup {Decoy}, sealed : BOOLEAN]

TypeOK ==
    /\ now \in 0..MaxTime
    /\ rec \in Records
    /\ home \in Sticks \cup {None}
    /\ lock.failed \in Nat /\ lock.until \in 0..(now + Cap)
    /\ missed \in 0..now

Init ==
    /\ now = 0
    /\ \E policy \in Policies :
         rec = [stored |-> FALSE, bound |-> FALSE, usb |-> None, tokens |-> Blank,
                machine |-> None, policy |-> policy, count |-> 0,
                wrapped |-> Plain, sealed |-> TRUE]
    /\ home = None
    /\ lock = Unlocked
    /\ missed = 0

(***************************************************************************)
(* Storing.                                                                *)
(***************************************************************************)
\* device_fingerprint_material: what cannot be read counts as empty.
Material(reading) == <<reading.id, reading.tokens>>

\* The fingerprint protects the key of a file that is bound to its device only.
DeviceOnly(record) == record.bound /\ record.machine = None

\* Slip: the key is wrapped under the device it was wrapped under before.
SlipRewrapped(record, reading) == record.wrapped

Rewrapped(record, reading) == IF DeviceOnly(record) THEN Material(reading) ELSE Plain

\* The record names the device it is bound to and the key is wrapped under the same
\* reading of it.
Bind(record, reading) ==
    LET named == [record EXCEPT !.usb = reading.id, !.tokens = reading.tokens]
    IN  [named EXCEPT !.wrapped = Rewrapped(named, reading)]

\* SecureStorageService.store_file, with the two axes of the binding.
Store(s, reading, bound, machine) ==
    LET record == [rec EXCEPT !.stored = TRUE, !.bound = bound, !.machine = machine]
    IN  /\ ~rec.stored
        /\ rec' = IF bound THEN Bind(record, reading) ELSE record
        /\ home' = IF bound THEN s ELSE None
        /\ UNCHANGED <<now, lock, missed>>

(***************************************************************************)
(* Validating.                                                             *)
(***************************************************************************)
\* Slip: a descriptor that cannot be read matches any.
SlipTokensMatch(record, reading) ==
    reading.tokens = Blank \/ \A t \in Tokens : record.tokens[t] \in {None, reading.tokens[t]}

\* A token that was not recorded is not compared.
TokensMatch(record, reading) ==
    \A t \in Tokens : record.tokens[t] \in {None, reading.tokens[t]}

\* _check_device: the identifier, and the descriptor besides.  Which of the names a
\* mismatch is given, for a label that matches or not, makes no difference.
DeviceFailures(record, reading) ==
    IF ~record.bound THEN {}
    ELSE IF reading.id = None THEN {"unauthorized_device"}
    ELSE {c \in {"usb_identifier"} : record.usb # reading.id}
         \cup {c \in {"hardware_descriptor"} : ~TokensMatch(record, reading)}

MachineFailures(record, machine) ==
    {c \in {"machine_fingerprint"} : record.machine \notin {None, machine}}

\* _validate_policy
PolicyFailures(record, time) ==
    {c \in {"expiry"} : record.policy.expires # None /\ time > record.policy.expires}
    \cup {c \in {"access_count"} : record.policy.limit # None /\ record.count >= record.policy.limit}
    \cup {c \in {"reused_access"} : record.policy.once /\ record.count >= 1}

\* The checks of ValidationEngine.validate that fail.  Without the record, or if it is
\* not the sealed one, there is nothing to check further.
Failures(reading, machine, intact) ==
    IF ~rec.sealed THEN {"hmac"}
    ELSE {c \in {"file_integrity"} : ~intact} \cup PolicyFailures(rec, now)
         \cup DeviceFailures(rec, reading) \cup MachineFailures(rec, machine)

\* _map_validation_failure_to_trigger
Trigger(failures) ==
    CASE "hmac" \in failures -> "METADATA_TAMPERING"
      [] "hmac" \notin failures /\ "file_integrity" \in failures -> "INTEGRITY_FAILURE"
      [] {"hmac", "file_integrity"} \cap failures = {}
         /\ {"expiry", "access_count", "reused_access"} \cap failures # {} -> "ACCESS_ALREADY_USED"
      [] OTHER -> "DEVICE_MISMATCH"

\* The key comes out of its wrapping.
Opens(record, reading) ==
    record.wrapped = IF DeviceOnly(record) THEN Material(reading) ELSE Plain

\* attempt_access, with the key pair the file was stored with: a locked file is not
\* validated, a device mismatch is counted, a match is forgiven everything, and a
\* one-time file that opens is burned under new seals.
Attempt(reading, machine, intact) ==
    LET failures == Failures(reading, machine, intact)
    IN  /\ rec.stored
        /\ ~IsLocked(lock, now)
        /\ \/ /\ failures # {} /\ Trigger(failures) = "DEVICE_MISMATCH"
              /\ lock' = AfterFailure(lock, now)
              /\ missed' = now
              /\ UNCHANGED rec
           \/ /\ failures # {} /\ Trigger(failures) # "DEVICE_MISMATCH"
              /\ UNCHANGED <<rec, lock, missed>>
           \/ /\ failures = {}
              /\ lock' = Unlocked
              /\ rec' = IF rec.policy.once /\ Opens(rec, reading)
                        THEN [rec EXCEPT !.wrapped = Decoy, !.sealed = FALSE] ELSE rec
              /\ UNCHANGED missed
        /\ UNCHANGED <<now, home>>

(***************************************************************************)
(* The controller's own accesses, rebinding, and time.                     *)
(***************************************************************************)
\* enforce_policy raises an error.
Violates(record, time) ==
    \/ record.policy.expires # None /\ time > record.policy.expires
    \/ record.policy.limit # None /\ record.count >= record.policy.limit
    \/ record.policy.once /\ record.count >= 1

\* MetadataController.record_access
RecordAccess ==
    /\ rec.stored /\ rec.sealed
    /\ ~Violates(rec, now)
    /\ rec.count < MaxAccesses
    /\ rec' = [rec EXCEPT !.count = @ + 1]
    /\ UNCHANGED <<now, home, lock, missed>>

\* DeviceRebindService.rebind: the key must open with the old device.
Rebind(s, old, new) ==
    /\ rec.stored /\ rec.sealed /\ rec.bound
    /\ Opens(rec, old)
    /\ rec' = Bind(rec, new)
    /\ home' = s
    /\ UNCHANGED <<now, lock, missed>>

Tick ==
    /\ now < MaxTime
    /\ now' = now + 1
    /\ UNCHANGED <<rec, home, lock, missed>>

\* The throttle is in memory only.
Restart ==
    /\ lock' = Unlocked
    /\ UNCHANGED <<now, rec, home, missed>>

Next ==
    \/ \E s \in Sticks, bound \in BOOLEAN, machine \in Machines \cup {None} :
         \E reading \in Readings(s) : Store(s, reading, bound, machine)
    \/ \E reading \in {NoStick} \cup UNION {Readings(s) : s \in Sticks},
          machine \in Machines, intact \in BOOLEAN : Attempt(reading, machine, intact)
    \/ RecordAccess
    \/ \E s, t \in Sticks : \E old \in Readings(s), new \in Readings(t) : Rebind(t, old, new)
    \/ Tick
    \/ Restart

Spec == Init /\ [][Next]_vars

-----------------------------------------------------------------------------
\* The policy and the key agree on the device of a file that is bound to it only,
\* through every rebind: what opens the key passes the checks, and what passes the
\* checks opens the key if the hardware descriptor was complete when it was bound.
\* (Without it the checks are milder than the key: a descriptor that could not be
\* read when the file was stored and can be read now passes them, and the view is
\* refused as already used.)
PolicyAgreesWithKey ==
    rec.stored /\ rec.sealed /\ DeviceOnly(rec) =>
        \A s \in Sticks : \A reading \in Readings(s) :
            /\ Opens(rec, reading) => DeviceFailures(rec, reading) = {}
            /\ DeviceFailures(rec, reading) = {} /\ (\A t \in Tokens : rec.tokens[t] # None)
                   => Opens(rec, reading)

\* A file whose binding was complete is open to the stick it was last bound to and to
\* no other, whatever of either stick can be read at the time and although sticks of
\* one make share all but their serial numbers.
OnlyHomeAccepted ==
    rec.stored /\ rec.bound /\ (\A t \in Tokens : rec.tokens[t] # None) =>
        /\ home # None
        /\ \E reading \in Readings(home) : DeviceFailures(rec, reading) = {}
        /\ \A s \in Sticks \ {home} : \A reading \in Readings(s) : DeviceFailures(rec, reading) # {}

\* The wait is the one that was imposed: the throttle has no other trace of it.
Mismatches == INSTANCE Paced WITH
    misses <- lock.failed, last <- missed, Volatile <- TRUE,
    wait <- Imposed(lock, missed)

\* Device mismatches are validated one at a time with twice as long between them each
\* time, whatever is attempted while the file is locked, until one matches or the
\* program is started anew.
PacedMismatches == Mismatches!Spec

\* Without its durations the throttle is the one that Access counts with, which
\* GateProofs proves (secure_access_service.py:301-361, device_mismatch_throttle.py:55-80).
StrikeCount == INSTANCE Strikes WITH
    Volatile <- TRUE,
    strikes <- Smaller(lock.failed, Threshold), locked <- IsLocked(lock, now)
LocksOut == StrikeCount!Spec
=============================================================================
