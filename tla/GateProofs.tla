----------------------------- MODULE GateProofs -----------------------------
(***************************************************************************)
(* What stands between a stored file and its content, for every number of  *)
(* sticks, machines and policies: the key and the policy are bound to the  *)
(* same device and no other device is accepted; and the throttle makes     *)
(* those who try other devices wait twice as long each time.               *)
(*                                                                         *)
(* Two invariants: one of the record, which the throttle plays no part in, *)
(* and one of the throttle, which the record plays no part in.             *)
(***************************************************************************)
EXTENDS Gate, FiniteSetTheorems, FunctionTheorems, TLAPS

Typed ==
    /\ rec \in Records
    /\ home \in Sticks \cup {None}

\* What the record says of a device is what one reading of its home said.
Homed(record, s) ==
    s \in Sticks /\ [id |-> record.usb, tokens |-> record.tokens] \in Readings(s)

\* The key is wrapped under the device the record names.
WrappedAsNamed(record) ==
    record.wrapped = IF DeviceOnly(record) THEN <<record.usb, record.tokens>> ELSE Plain

RecordInv ==
    /\ Typed
    /\ rec.bound /\ rec.stored => Homed(rec, home)
    /\ rec.stored /\ rec.sealed => WrappedAsNamed(rec)
    /\ ~rec.stored => ~rec.bound
    /\ ~rec.stored => rec.wrapped = Plain

-----------------------------------------------------------------------------
\* A reading of a stick is one of the presentations, with an identifier.
LEMMA ReadingTyped ==
    ASSUME NEW s \in Sticks, NEW reading \in Readings(s)
    PROVE  /\ reading \in Presentations
           /\ reading = [id |-> reading.id, tokens |-> reading.tokens]
           /\ reading.id \in Ids /\ reading.id # None
           /\ reading.tokens \in {TokensOf[s], Blank}
           /\ reading.tokens \in Descriptors
<1>1. IdOf[s] \in Ids /\ BlankOf[s] \in Ids /\ TokensOf[s] \in Descriptors
  BY GateAssumption DEF Descriptors
<1>2. Blank \in Descriptors
  BY DEF Blank, Descriptors
<1>3. reading \in [id : {IdOf[s], BlankOf[s]}, tokens : {TokensOf[s], Blank}]
  BY DEF Readings
<1>4. reading.id \in Ids /\ reading.tokens \in Descriptors
  BY <1>1, <1>2, <1>3
<1>5. reading.id # None
  BY <1>4, GateAssumption
<1> QED
  BY <1>3, <1>4, <1>5 DEF Presentations

\* Binding a record, when it is stored or rebound, names a reading of the device and
\* wraps the key under it.
LEMMA BindNames ==
    ASSUME NEW record \in Records, NEW s \in Sticks, NEW reading \in Readings(s)
    PROVE  /\ Bind(record, reading) \in Records
           /\ Homed(Bind(record, reading), s)
           /\ WrappedAsNamed(Bind(record, reading))
           /\ \A f \in {"stored", "bound", "machine", "policy", "count", "sealed"} :
                 Bind(record, reading)[f] = record[f]
<1> DEFINE named == [record EXCEPT !.usb = reading.id, !.tokens = reading.tokens]
           new == Bind(record, reading)
<1>1. /\ reading.id \in Ids \cup {None} /\ reading.tokens \in Descriptors
      /\ reading \in Presentations /\ reading = [id |-> reading.id, tokens |-> reading.tokens]
  BY ReadingTyped
<1>2. named \in Records /\ named.usb = reading.id /\ named.tokens = reading.tokens
  BY <1>1 DEF Records
<1>3. Material(reading) \in Materials
  BY <1>1 DEF Material, Materials
<1>4. Plain \in Materials
  <2>1. NoStick \in Presentations
    BY DEF NoStick, Presentations, Blank, Descriptors
  <2>2. Plain = <<NoStick.id, NoStick.tokens>>
    BY DEF Plain, NoStick
  <2> QED
    BY <2>1, <2>2 DEF Materials
<1>5. Rewrapped(named, reading) \in Materials \cup {Decoy}
  BY <1>3, <1>4 DEF Rewrapped
<1>6. new = [named EXCEPT !.wrapped = Rewrapped(named, reading)]
  BY DEF Bind
<1>7. /\ new \in Records
      /\ new.wrapped = Rewrapped(named, reading)
      /\ new.usb = reading.id /\ new.tokens = reading.tokens
      /\ \A f \in {"stored", "bound", "machine", "policy", "count", "sealed"} : new[f] = record[f]
      /\ new.bound = named.bound /\ new.machine = named.machine
  BY <1>2, <1>5, <1>6 DEF Records
<1>8. Homed(new, s)
  BY <1>1, <1>7 DEF Homed
<1>9. WrappedAsNamed(new)
  BY <1>7 DEF WrappedAsNamed, Rewrapped, DeviceOnly, Material
<1> HIDE DEF new
<1> QED
  BY <1>7, <1>8, <1>9 DEF new

-----------------------------------------------------------------------------
\* Before a file is stored there is nothing to protect.
LEMMA RecordInit == Init => RecordInv
<1> SUFFICES ASSUME Init PROVE RecordInv
  OBVIOUS
<1>1. PICK policy \in Policies :
         rec = [stored |-> FALSE, bound |-> FALSE, usb |-> None, tokens |-> Blank,
                machine |-> None, policy |-> policy, count |-> 0,
                wrapped |-> Plain, sealed |-> TRUE]
  BY DEF Init
<1>2. Plain \in Materials
  <2>1. NoStick \in Presentations
    BY DEF NoStick, Presentations, Blank, Descriptors
  <2>2. Plain = <<NoStick.id, NoStick.tokens>>
    BY DEF Plain, NoStick
  <2> QED
    BY <2>1, <2>2 DEF Materials
<1>3. Blank \in Descriptors
  BY DEF Blank, Descriptors
<1>4. rec \in Records
  BY <1>1, <1>2, <1>3 DEF Records
<1>5. ~rec.stored /\ ~rec.bound /\ rec.wrapped = Plain
  BY <1>1
<1> QED
  BY <1>4, <1>5 DEF Init, RecordInv, Typed

\* Storing a file, bound to a device or not.
LEMMA RecordStore ==
    ASSUME RecordInv, NEW s \in Sticks, NEW bound \in BOOLEAN,
           NEW machine \in Machines \cup {None}, NEW reading \in Readings(s),
           Store(s, reading, bound, machine)
    PROVE  RecordInv'
<1> DEFINE record == [rec EXCEPT !.stored = TRUE, !.bound = bound, !.machine = machine]
<1>1. /\ record \in Records
      /\ record.stored /\ record.bound = bound /\ record.wrapped = rec.wrapped
  BY DEF RecordInv, Typed, Records
<1>2. ~rec.stored /\ rec.wrapped = Plain
  BY DEF RecordInv, Store
<1>3. /\ rec' = IF bound THEN Bind(record, reading) ELSE record
      /\ home' = IF bound THEN s ELSE None
  BY DEF Store
<1> HIDE DEF record
<1>4. CASE bound
  <2>1. /\ rec' \in Records /\ Homed(rec', s) /\ WrappedAsNamed(rec')
        /\ rec'.stored = record.stored
    BY <1>1, <1>3, <1>4, BindNames
  <2> QED
    BY <1>1, <1>3, <1>4, <2>1 DEF RecordInv, Typed, Homed, WrappedAsNamed, DeviceOnly
<1>5. CASE ~bound
  <2>1. WrappedAsNamed(rec')
    BY <1>1, <1>2, <1>3, <1>5 DEF WrappedAsNamed, DeviceOnly
  <2> QED
    BY <1>1, <1>3, <1>5, <2>1 DEF RecordInv, Typed, WrappedAsNamed, DeviceOnly
<1> QED
  BY <1>4, <1>5

\* An attempt changes the record to burn it only: then it is not the sealed one.
LEMMA RecordAttempt ==
    ASSUME RecordInv, NEW reading, NEW machine, NEW intact, Attempt(reading, machine, intact)
    PROVE  RecordInv'
<1>1. home' = home /\ (rec' = rec \/ rec' = [rec EXCEPT !.wrapped = Decoy, !.sealed = FALSE])
  BY DEF Attempt
<1>2. CASE rec' = rec
  BY <1>1, <1>2 DEF RecordInv, Typed, Homed, WrappedAsNamed, DeviceOnly
<1>3. CASE rec' = [rec EXCEPT !.wrapped = Decoy, !.sealed = FALSE]
  <2>1. /\ rec' \in Records /\ ~rec'.sealed
        /\ rec'.stored = rec.stored /\ rec'.bound = rec.bound
        /\ rec'.usb = rec.usb /\ rec'.tokens = rec.tokens
    BY <1>3 DEF RecordInv, Typed, Records
  <2>2. rec.stored
    BY DEF Attempt
  <2> QED
    BY <1>1, <2>1, <2>2 DEF RecordInv, Typed, Homed
<1> QED
  BY <1>1, <1>2, <1>3

\* An access that the controller records changes its count only.
LEMMA RecordRecordAccess ==
    ASSUME RecordInv, RecordAccess
    PROVE  RecordInv'
<1>1. /\ rec.stored /\ rec.sealed
      /\ rec' = [rec EXCEPT !.count = @ + 1] /\ home' = home
  BY DEF RecordAccess
<1>2. rec \in Records /\ rec.count \in Nat
  BY DEF RecordInv, Typed, Records
<1>3. /\ rec' \in Records
      /\ rec'.stored = rec.stored /\ rec'.bound = rec.bound /\ rec'.sealed = rec.sealed
      /\ rec'.usb = rec.usb /\ rec'.tokens = rec.tokens /\ rec'.machine = rec.machine
      /\ rec'.wrapped = rec.wrapped
  <2>1. PICK n \in Nat : n = rec.count + 1
    BY <1>2
  <2>2. rec' = [rec EXCEPT !.count = n]
    BY <1>1, <2>1
  <2> QED
    BY <1>2, <2>1, <2>2 DEF Records
<1> QED
  BY <1>1, <1>3 DEF RecordInv, Typed, Homed, WrappedAsNamed, DeviceOnly

\* A rebind binds the record anew.
LEMMA RecordRebind ==
    ASSUME RecordInv, NEW t \in Sticks, NEW old, NEW new \in Readings(t), Rebind(t, old, new)
    PROVE  RecordInv'
<1>1. rec \in Records /\ rec.stored /\ rec' = Bind(rec, new) /\ home' = t
  BY DEF RecordInv, Typed, Rebind
<1>2. /\ rec' \in Records /\ Homed(rec', t) /\ WrappedAsNamed(rec')
      /\ rec'.stored = rec.stored
  BY <1>1, BindNames
<1> QED
  BY <1>1, <1>2 DEF RecordInv, Typed, Homed, WrappedAsNamed, DeviceOnly

\* Every step keeps the record invariant.
LEMMA RecordStep == RecordInv /\ [Next]_vars => RecordInv'
<1> SUFFICES ASSUME RecordInv, [Next]_vars PROVE RecordInv'
  OBVIOUS
<1>1. ASSUME NEW s \in Sticks, NEW bound \in BOOLEAN, NEW machine \in Machines \cup {None},
             NEW reading \in Readings(s), Store(s, reading, bound, machine)
      PROVE  RecordInv'
  BY <1>1, RecordStore
<1>2. ASSUME NEW reading, NEW machine, NEW intact, Attempt(reading, machine, intact)
      PROVE  RecordInv'
  BY <1>2, RecordAttempt
<1>3. CASE RecordAccess
  BY <1>3, RecordRecordAccess
<1>4. ASSUME NEW t \in Sticks, NEW old, NEW new \in Readings(t), Rebind(t, old, new)
      PROVE  RecordInv'
  BY <1>4, RecordRebind
<1>5. CASE Tick \/ Restart \/ UNCHANGED vars
  <2>1. rec' = rec /\ home' = home
    BY <1>5 DEF Tick, Restart, vars
  <2> QED
    BY <2>1 DEF RecordInv, Typed, Homed, WrappedAsNamed, DeviceOnly
<1> QED
  BY <1>1, <1>2, <1>3, <1>4, <1>5 DEF Next

\* The record invariant: a stored record names one reading of the device it is bound
\* to, and its key is wrapped under that reading or under nothing.
THEOREM RecordInvariant == Spec => []RecordInv
<1>1. Init => RecordInv
  BY RecordInit
<1>2. RecordInv /\ [Next]_vars => RecordInv'
  BY RecordStep
<1> QED
  BY <1>1, <1>2, PTL DEF Spec

-----------------------------------------------------------------------------
\* No check of the device fails exactly if the identifier and the descriptor match.
LEMMA DeviceAccepted ==
    ASSUME NEW record, NEW reading, record.bound
    PROVE  DeviceFailures(record, reading) = {} <=>
               reading.id # None /\ record.usb = reading.id /\ TokensMatch(record, reading)
  BY DEF DeviceFailures

\* The key opens exactly for the reading it was wrapped under.
LEMMA KeyAgrees ==
    ASSUME RecordInv, rec.stored, rec.sealed, DeviceOnly(rec),
           NEW s \in Sticks, NEW reading \in Readings(s)
    PROVE  /\ Opens(rec, reading) => DeviceFailures(rec, reading) = {}
           /\ DeviceFailures(rec, reading) = {} /\ (\A t \in Tokens : rec.tokens[t] # None)
                  => Opens(rec, reading)
<1>1. /\ reading.id # None /\ reading.tokens \in Descriptors
  BY ReadingTyped
<1>2. rec.bound /\ rec.tokens \in Descriptors
  BY DEF RecordInv, Typed, Records, DeviceOnly
<1>3. rec.wrapped = <<rec.usb, rec.tokens>>
  BY DEF RecordInv, WrappedAsNamed
<1>4. Opens(rec, reading) <=> <<rec.usb, rec.tokens>> = <<reading.id, reading.tokens>>
  BY <1>3 DEF Opens, Material
<1>5. Opens(rec, reading) <=> rec.usb = reading.id /\ rec.tokens = reading.tokens
  BY <1>4
<1>6. rec.tokens = reading.tokens => TokensMatch(rec, reading)
  BY DEF TokensMatch
<1>7. TokensMatch(rec, reading) /\ (\A t \in Tokens : rec.tokens[t] # None)
         => rec.tokens = reading.tokens
  <2>1. SUFFICES ASSUME \A t \in Tokens : rec.tokens[t] = reading.tokens[t]
                 PROVE  rec.tokens = reading.tokens
    BY DEF TokensMatch
  <2> QED
    BY <1>1, <1>2, <2>1 DEF Descriptors
<1> QED
  BY <1>1, <1>2, <1>5, <1>6, <1>7, DeviceAccepted

\* PolicyAgreesWithKey: validation and the wrapped key never disagree on the device of
\* a file with a complete descriptor, through every rebind.
THEOREM KeyAndPolicyAgree == Spec => []PolicyAgreesWithKey
<1>1. RecordInv => PolicyAgreesWithKey
  BY KeyAgrees DEF PolicyAgreesWithKey
<1> QED
  BY <1>1, RecordInvariant, PTL

\* OnlyHomeAccepted: a complete binding is met by the stick it was made for and by no
\* other, if complete descriptors tell sticks apart.
THEOREM OtherSticksRefused == Spec => []OnlyHomeAccepted
<1>1. ASSUME RecordInv, rec.stored, rec.bound, \A t \in Tokens : rec.tokens[t] # None
      PROVE  /\ home # None
             /\ \E reading \in Readings(home) : DeviceFailures(rec, reading) = {}
             /\ \A s \in Sticks \ {home} : \A reading \in Readings(s) :
                   DeviceFailures(rec, reading) # {}
  <2> DEFINE own == [id |-> rec.usb, tokens |-> rec.tokens]
  <2>1. home \in Sticks /\ own \in Readings(home)
    BY <1>1 DEF RecordInv, Homed
  <2>2. own.id # None /\ own.tokens \in {TokensOf[home], Blank}
    BY <2>1, ReadingTyped
  <2>3. DeviceFailures(rec, own) = {}
    BY <1>1, <2>2, DeviceAccepted DEF TokensMatch
  <2>4. PICK any \in Tokens : TRUE
    BY DistinctSticks
  <2>5. rec.tokens = TokensOf[home] /\ \A t \in Tokens : TokensOf[home][t] # None
    <3>1. Blank[any] = None
      BY DEF Blank
    <3> QED
      BY <1>1, <2>2, <3>1
  <2>6. ASSUME NEW s \in Sticks \ {home}, NEW reading \in Readings(s)
        PROVE  DeviceFailures(rec, reading) # {}
    <3>1. reading.tokens \in {TokensOf[s], Blank}
      BY ReadingTyped
    <3>2. PICK k \in Tokens : reading.tokens[k] # TokensOf[home][k]
      <4>1. CASE reading.tokens = TokensOf[s]
        BY <2>1, <2>5, <4>1, DistinctSticks
      <4>2. CASE reading.tokens = Blank
        BY <2>5, <4>2 DEF Blank
      <4> QED
        BY <3>1, <4>1, <4>2
    <3>3. ~TokensMatch(rec, reading)
      BY <2>5, <3>2 DEF TokensMatch
    <3> QED
      BY <1>1, <3>3, DeviceAccepted
  <2>7. home # None
    BY <1>1, <2>1, <2>2, GateAssumption
  <2> QED
    BY <2>1, <2>3, <2>6, <2>7
<1>2. RecordInv => OnlyHomeAccepted
  BY <1>1 DEF OnlyHomeAccepted
<1> QED
  BY <1>2, RecordInvariant, PTL

-----------------------------------------------------------------------------
(***************************************************************************)
(* How long a lock lasts.                                                  *)
(***************************************************************************)
\* A power of two is the number of subsets of a set, of which there are twice as many
\* with another element in it (2**overflow, device_mismatch_throttle.py:72-73).
LEMMA Power2 ==
    ASSUME NEW n \in Nat
    PROVE  2^n \in Nat \ {0} /\ 2^(n + 1) = 2 * 2^n
<1> DEFINE S == SUBSET (1..n)
           T == {s \cup {n + 1} : s \in S}
           add == [s \in S |-> s \cup {n + 1}]
<1>1. /\ IsFiniteSet(1..n) /\ Cardinality(1..n) = n
      /\ IsFiniteSet(1..(n + 1)) /\ Cardinality(1..(n + 1)) = n + 1
  BY FS_Interval
<1>2. IsFiniteSet(S) /\ Cardinality(S) = 2^n /\ Cardinality(SUBSET (1..(n + 1))) = 2^(n + 1)
  BY <1>1, FS_SUBSET
<1>3. SUBSET (1..(n + 1)) = S \cup T
  <2>1. 1..(n + 1) = (1..n) \cup {n + 1}
    OBVIOUS
  <2>2. ASSUME NEW s \in SUBSET (1..(n + 1)), n + 1 \in s PROVE s \in T
    <3>1. s \ {n + 1} \in S /\ s = (s \ {n + 1}) \cup {n + 1}
      BY <2>2
    <3> QED
      BY <3>1
  <2> QED
    BY <2>1, <2>2
<1>4. IsFiniteSet(T) /\ Cardinality(T) = Cardinality(S)
  <2>1. \A s, t \in S : s \cup {n + 1} = t \cup {n + 1} => s = t
    OBVIOUS
  <2>2. add \in [S -> T]
    OBVIOUS
  <2>3. \A s, t \in S : add[s] = add[t] => s = t
    BY <2>1
  <2>4. \A t \in T : \E s \in S : add[s] = t
    OBVIOUS
  <2> HIDE DEF add, S, T
  <2>5. add \in Bijection(S, T)
    BY <2>2, <2>3, <2>4, Fun_IsBij
  <2> QED
    BY <1>2, <2>5, FS_Bijection DEF ExistsBijection
<1>5. Cardinality(S) \in Nat /\ Cardinality(S) # 0
  <2>1. {} \in S
    OBVIOUS
  <2> QED
    BY <1>2, <2>1, FS_CardinalityType, FS_EmptySet
<1>6. Cardinality(S \cup T) = 2 * Cardinality(S)
  <2>1. S \cap T = {}
    OBVIOUS
  <2>2. Cardinality(S \cap T) = 0
    BY <2>1, FS_EmptySet
  <2>3. Cardinality(S \cup T) = Cardinality(S) + Cardinality(T) - Cardinality(S \cap T)
    BY <1>2, <1>4, FS_Union
  <2> HIDE DEF S, T
  <2> QED
    BY <1>4, <1>5, <2>2, <2>3
<1> HIDE DEF S, T
<1>7. 2^(n + 1) = 2 * Cardinality(S)
  BY <1>2, <1>3, <1>6
<1> QED
  BY <1>2, <1>5, <1>7

\* The seconds start with the base, and double with every failure up to the cap
\* (device_mismatch_throttle.py:71-74).
LEMMA SecondsDouble ==
    ASSUME NEW failed \in Nat, failed >= Threshold
    PROVE  /\ LockoutSeconds(failed) \in 1..Cap
           /\ failed = Threshold => LockoutSeconds(failed) = Base
           /\ LockoutSeconds(failed + 1) = Smaller(2 * LockoutSeconds(failed), Cap)
<1> DEFINE n == failed - Threshold
           m == 2^n
<1>1. n \in Nat /\ (failed + 1) - Threshold = n + 1
  BY LockoutAssumption
<1>2. m \in Nat \ {0} /\ 2^(n + 1) = 2 * m
  BY <1>1, Power2
<1>3. failed = Threshold => m = 1
  <2>1. 2^0 = 1
    OBVIOUS
  <2>2. failed = Threshold => n = 0
    BY LockoutAssumption
  <2> QED
    BY <2>1, <2>2
<1>4. LockoutSeconds(failed) = Smaller(Base * m, Cap)
      /\ LockoutSeconds(failed + 1) = Smaller(Base * (2 * m), Cap)
  BY <1>1, <1>2 DEF LockoutSeconds
<1> HIDE DEF m, n
<1>5. PICK b \in Nat \ {0} : b = Base * m
  BY <1>2, LockoutAssumption
<1>6. Base * (2 * m) = 2 * b /\ (failed = Threshold => b = Base)
  BY <1>2, <1>3, <1>5, LockoutAssumption
<1> QED
  BY <1>4, <1>5, <1>6, LockoutAssumption DEF Smaller

\* What a lock is, it remains when it is opened and after the next failure, which
\* waits twice as long.
LEMMA TimedWait ==
    ASSUME NEW k, NEW at, Timed(k, at)
    PROVE  /\ k.failed < Threshold => Imposed(k, at) = 0
           /\ k.failed >= Threshold => Imposed(k, at) = LockoutSeconds(k.failed)
           /\ k.until \in 0..(at + Cap)
           /\ \A time \in Nat : ~IsLocked(k, time) /\ time >= at => time >= at + Imposed(k, at)
<1>1. CASE k.failed < Threshold
  BY <1>1, LockoutAssumption DEF Timed, Imposed, IsLocked
<1>2. CASE k.failed >= Threshold
  <2>1. LockoutSeconds(k.failed) \in 1..Cap
    BY <1>2, SecondsDouble DEF Timed
  <2> QED
    BY <1>2, <2>1, LockoutAssumption DEF Timed, Imposed, IsLocked
<1> QED
  BY <1>1, <1>2, LockoutAssumption DEF Timed

LEMMA TimedUnlocked ==
    ASSUME NEW at \in Nat
    PROVE  Timed(Unlocked, at) /\ Unlocked.failed = 0 /\ Imposed(Unlocked, at) = 0
BY LockoutAssumption DEF Timed, Imposed, Unlocked

LEMMA TimedFailure ==
    ASSUME NEW k, NEW at, Timed(k, at), NEW time \in Nat
    PROVE  /\ Timed(AfterFailure(k, time), time)
           /\ AfterFailure(k, time).failed = k.failed + 1
           /\ Imposed(AfterFailure(k, time), time) = Mismatches!Longer(k.failed + 1, Imposed(k, at))
<1> DEFINE failed == k.failed + 1
           after  == AfterFailure(k, time)
<1>1. failed \in Nat /\ after.failed = failed
  BY DEF AfterFailure, Timed
<1>2. Timed(after, time)
  <2>1. after = [failed |-> failed,
                 until  |-> IF failed >= Threshold THEN time + LockoutSeconds(failed) ELSE k.until]
    BY DEF AfterFailure
  <2>2. failed >= Threshold => LockoutSeconds(failed) \in Nat
    BY <1>1, SecondsDouble
  <2> QED
    BY <1>1, <2>1, <2>2, LockoutAssumption DEF Timed
<1> HIDE DEF after
<1>3. Imposed(after, time) = IF failed < Threshold THEN 0 ELSE LockoutSeconds(failed)
  BY <1>1, <1>2, TimedWait, LockoutAssumption
<1>4. ASSUME failed > Threshold
      PROVE  LockoutSeconds(failed) = Smaller(2 * Imposed(k, at), Cap)
  BY <1>4, SecondsDouble, TimedWait, LockoutAssumption DEF Timed
<1>5. failed = Threshold => LockoutSeconds(failed) = Base
  BY <1>1, SecondsDouble
<1>6. Imposed(k, at) \in Nat
  BY TimedWait, SecondsDouble, LockoutAssumption DEF Timed
<1>7. Imposed(after, time) = Mismatches!Longer(failed, Imposed(k, at))
  BY <1>1, <1>3, <1>4, <1>5, <1>6, LockoutAssumption DEF Mismatches!Longer, Smaller
<1> QED
  BY <1>1, <1>2, <1>7 DEF after
-----------------------------------------------------------------------------
(***************************************************************************)
(* The throttle.                                                           *)
(***************************************************************************)
\* The lock is what the count of mismatches and the time of the last one make it.
ThrottleInv ==
    /\ now \in 0..MaxTime /\ missed <= now
    /\ Timed(lock, missed)

\* What a step does to the throttle: nothing but to let time pass, or count a mismatch
\* of a file that is not locked, or forgive or forget them all.
Idles   == UNCHANGED <<now, lock, missed>>
Counts  == ~IsLocked(lock, now) /\ lock' = AfterFailure(lock, now) /\ missed' = now /\ now' = now
Forgets == lock' = Unlocked /\ UNCHANGED <<now, missed>>

LEMMA ThrottleSteps == [Next]_vars => Idles \/ Tick \/ Counts \/ Forgets
<1> SUFFICES ASSUME [Next]_vars PROVE Idles \/ Tick \/ Counts \/ Forgets
  OBVIOUS
<1>1. ASSUME NEW s \in Sticks, NEW bound \in BOOLEAN, NEW machine \in Machines \cup {None},
             NEW reading \in Readings(s), Store(s, reading, bound, machine)
      PROVE  Idles
  BY <1>1 DEF Store, Idles
<1>2. ASSUME NEW reading, NEW machine, NEW intact, Attempt(reading, machine, intact)
      PROVE  Idles \/ Counts \/ Forgets
  BY <1>2 DEF Attempt, Idles, Counts, Forgets
<1>3. ASSUME RecordAccess \/ UNCHANGED vars PROVE Idles
  BY <1>3 DEF RecordAccess, vars, Idles
<1>4. ASSUME NEW t \in Sticks, NEW old, NEW new \in Readings(t), Rebind(t, old, new)
      PROVE  Idles
  BY <1>4 DEF Rebind, Idles
<1>5. ASSUME Restart PROVE Forgets
  BY <1>5 DEF Restart, Forgets
<1> QED
  BY <1>1, <1>2, <1>3, <1>4, <1>5 DEF Next

LEMMA ThrottleInit == Init => ThrottleInv
BY GateAssumption, TimedUnlocked DEF Init, ThrottleInv

LEMMA ThrottleStep == ThrottleInv /\ [Next]_vars => ThrottleInv'
<1> SUFFICES ASSUME ThrottleInv, [Next]_vars PROVE ThrottleInv'
  OBVIOUS
<1>1. now \in Nat /\ now <= MaxTime /\ missed \in Nat /\ missed <= now /\ Timed(lock, missed)
  BY GateAssumption DEF ThrottleInv, Timed
<1>2. CASE Idles
  BY <1>2 DEF Idles, ThrottleInv, Timed
<1>3. CASE Tick
  BY <1>1, <1>3, GateAssumption DEF Tick, ThrottleInv, Timed
<1>4. CASE Counts
  <2>1. Timed(lock', missed')
    BY <1>1, <1>4, TimedFailure DEF Counts
  <2> QED
    BY <1>1, <1>4, <2>1, GateAssumption DEF Counts, ThrottleInv, Timed
<1>5. CASE Forgets
  <2>1. Timed(lock', missed')
    BY <1>1, <1>5, TimedUnlocked DEF Forgets
  <2> QED
    BY <1>1, <1>5, <2>1, GateAssumption DEF Forgets, ThrottleInv, Timed
<1> QED
  BY <1>2, <1>3, <1>4, <1>5, ThrottleSteps

\* The throttle's invariant: below the threshold nothing is locked, from it on until
\* the last mismatch and the seconds for so many of them (device_mismatch_throttle.py:68-74).
THEOREM ThrottleInvariant == Spec => []ThrottleInv
<1>1. Init => ThrottleInv
  BY ThrottleInit
<1>2. ThrottleInv /\ [Next]_vars => ThrottleInv'
  BY ThrottleStep
<1> QED
  BY <1>1, <1>2, PTL DEF Spec

\* TypeOK: the record, its device and the throttle are what they should be, and no file
\* is locked for longer than the cap (device_mismatch_throttle.py:68-74).
THEOREM TypeCorrect == Spec => []TypeOK
<1>1. RecordInv /\ ThrottleInv => TypeOK
  <2> SUFFICES ASSUME RecordInv, ThrottleInv PROVE TypeOK
    OBVIOUS
  <2>1. rec \in Records /\ home \in Sticks \cup {None}
    BY DEF RecordInv, Typed
  <2>2. lock.failed \in Nat /\ missed \in 0..now /\ now \in 0..MaxTime
    BY GateAssumption DEF ThrottleInv, Timed
  <2>3. lock.until \in 0..(missed + Cap)
    BY TimedWait DEF ThrottleInv
  <2>4. lock.until \in 0..(now + Cap)
    BY <2>2, <2>3, LockoutAssumption, GateAssumption
  <2> QED
    BY <2>1, <2>2, <2>4 DEF TypeOK
<1> QED
  BY <1>1, RecordInvariant, ThrottleInvariant, PTL

\* Each step of the gate is a step of a paced lock or none of its business.
LEMMA PacedStep ==
    ASSUME ThrottleInv, [Next]_vars
    PROVE  [Mismatches!Pass \/ Mismatches!Miss \/ Mismatches!Forget]_<<now, lock.failed, missed, Imposed(lock, missed)>>
<1>1. now \in Nat /\ missed \in Nat /\ missed <= now /\ Timed(lock, missed)
  BY GateAssumption DEF ThrottleInv, Timed
<1>2. Imposed(lock, missed)' = Imposed(lock', missed')
  BY DEF Imposed
<1>3. CASE Idles
  BY <1>3, <1>2 DEF Idles
<1>4. CASE Tick
  BY <1>4, <1>2 DEF Tick, Mismatches!Pass
<1>5. CASE Counts
  <2>1. /\ lock'.failed = lock.failed + 1
        /\ Imposed(lock', missed') = Mismatches!Longer(lock.failed + 1, Imposed(lock, missed))
    BY <1>1, <1>5, TimedFailure DEF Counts
  <2>2. Mismatches!Due
    BY <1>1, <1>5, TimedWait DEF Counts, Mismatches!Due
  <2> QED
    BY <1>2, <1>5, <2>1, <2>2 DEF Counts, Mismatches!Miss
<1>6. CASE Forgets
  <2>1. lock'.failed = 0 /\ Imposed(lock', missed') = 0
    BY <1>1, <1>6, TimedUnlocked DEF Forgets
  <2> QED
    BY <1>2, <1>6, <2>1 DEF Forgets, Mismatches!Forget
<1> QED
  BY <1>3, <1>4, <1>5, <1>6, ThrottleSteps

\* PacedMismatches: the throttle of every file implements a paced lock, whatever the
\* threshold, the base and the cap (secure_access_service.py:301-361, device_mismatch_throttle.py:55-80).
THEOREM MismatchesArePaced == Spec => PacedMismatches
<1>1. Init => Mismatches!Init
  BY TimedUnlocked DEF Init, Mismatches!Init, Imposed, Unlocked
<1>2. ThrottleInv /\ [Next]_vars
         => [Mismatches!Pass \/ Mismatches!Miss \/ Mismatches!Forget]_<<now, lock.failed, missed, Imposed(lock, missed)>>
  BY PacedStep
<1> QED
  BY <1>1, <1>2, ThrottleInvariant, PTL DEF Spec, PacedMismatches, Mismatches!Spec

-----------------------------------------------------------------------------
(***************************************************************************)
(* The throttle without its durations.                                     *)
(***************************************************************************)
\* The failure that reaches the threshold, and every one after it, locks at once and for
\* some time; no other does.
LEMMA FailureLocks ==
    ASSUME NEW k, NEW at, Timed(k, at), NEW time \in Nat
    PROVE  IsLocked(AfterFailure(k, time), time) <=> k.failed + 1 >= Threshold
<1> DEFINE after == AfterFailure(k, time)
<1>1. /\ Timed(after, time) /\ after.failed = k.failed + 1
      /\ after.failed \in Nat
  BY TimedFailure DEF Timed
<1> SUFFICES IsLocked(after, time) <=> after.failed >= Threshold
  BY <1>1
<1> HIDE DEF after
<1>2. CASE after.failed < Threshold
  BY <1>1, <1>2, LockoutAssumption DEF Timed, IsLocked
<1>3. CASE after.failed >= Threshold
  <2>1. LockoutSeconds(after.failed) \in 1..Cap /\ after.until = time + LockoutSeconds(after.failed)
    BY <1>1, <1>3, SecondsDouble DEF Timed
  <2> QED
    BY <1>1, <1>3, <2>1, LockoutAssumption DEF IsLocked
<1> QED
  BY <1>1, <1>2, <1>3, LockoutAssumption

\* Each step of the gate is a step of the lock that Access counts with, or none of its
\* business: a lock runs out when the clock reaches its end.
LEMMA StrikeStep ==
    ASSUME ThrottleInv, [Next]_vars
    PROVE  [StrikeCount!Strike \/ StrikeCount!Forgive \/ StrikeCount!Expire]_<<Smaller(lock.failed, Threshold), IsLocked(lock, now)>>
<1> DEFINE strikes(k)    == Smaller(k.failed, Threshold)
           out(k, time) == IsLocked(k, time)
<1>1. /\ now \in Nat /\ missed \in Nat /\ missed <= now /\ Timed(lock, missed)
      /\ lock.failed \in Nat /\ lock.until \in Nat
  BY GateAssumption DEF ThrottleInv, Timed
<1>2. /\ Smaller(lock.failed, Threshold)' = strikes(lock')
      /\ IsLocked(lock, now)' = out(lock', now')
  BY DEF Smaller, IsLocked
<1>3. CASE Idles
  BY <1>2, <1>3 DEF Idles
<1>4. CASE Tick
  <2>1. now' = now + 1 /\ lock' = lock
    BY <1>4 DEF Tick
  <2>2. ~IsLocked(lock, now) => ~IsLocked(lock, now + 1)
    BY <1>1 DEF IsLocked
  <2>3. out(lock, now + 1) = out(lock, now) \/ (out(lock, now) /\ out(lock, now + 1) = FALSE)
    BY <2>2 DEF IsLocked
  <2> QED
    BY <1>2, <2>1, <2>3 DEF StrikeCount!Expire
<1>5. CASE Counts
  <2>1. lock' = AfterFailure(lock, now) /\ now' = now /\ ~IsLocked(lock, now)
    BY <1>5 DEF Counts
  <2>2. IsLocked(lock', now') <=> lock.failed + 1 >= Threshold
    BY <1>1, <2>1, FailureLocks
  <2>3. lock'.failed = lock.failed + 1
    BY <1>1, <2>1, TimedFailure
  <2>4. strikes(lock') = IF strikes(lock) < Threshold THEN strikes(lock) + 1 ELSE Threshold
    BY <1>1, <2>3, LockoutAssumption DEF Smaller
  <2>5. strikes(lock') = Threshold <=> lock.failed + 1 >= Threshold
    BY <1>1, <2>3, LockoutAssumption DEF Smaller
  <2>6. out(lock', now') = (strikes(lock') = Threshold)
    BY <2>2, <2>5 DEF IsLocked
  <2> QED
    BY <1>2, <2>1, <2>4, <2>6 DEF StrikeCount!Strike
<1>6. CASE Forgets
  <2>1. lock' = Unlocked /\ now' = now
    BY <1>6 DEF Forgets
  <2>2. strikes(Unlocked) = 0 /\ out(Unlocked, now) = FALSE
    BY <1>1, LockoutAssumption DEF Unlocked, Smaller, IsLocked
  <2> QED
    BY <1>2, <2>1, <2>2 DEF StrikeCount!Forgive
<1> QED
  BY <1>3, <1>4, <1>5, <1>6, ThrottleSteps

\* LocksOut: the throttle with its durations does what the one without them does that
\* Access has (secure_access_service.py:301-361, device_mismatch_throttle.py:55-80).
THEOREM ThrottleLocksOut == Spec => LocksOut
<1>1. Init => StrikeCount!Init
  BY GateAssumption, LockoutAssumption DEF Init, StrikeCount!Init, Unlocked, Smaller, IsLocked
<1>2. ThrottleInv /\ [Next]_vars
         => [StrikeCount!Strike \/ StrikeCount!Forgive \/ StrikeCount!Expire]_<<Smaller(lock.failed, Threshold), IsLocked(lock, now)>>
  BY StrikeStep
<1> QED
  BY <1>1, <1>2, ThrottleInvariant, PTL DEF Spec, LocksOut, StrikeCount!Spec
=============================================================================
