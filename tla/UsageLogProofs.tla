-------------------------- MODULE UsageLogProofs ---------------------------
(***************************************************************************)
(* Proofs about the usage log, for every number of accounts, entries and    *)
(* rewrites.                                                                *)
(***************************************************************************)
EXTENDS UsageLog, FiniteSetTheorems, SequenceTheorems, TLAPS

-----------------------------------------------------------------------------
(***************************************************************************)
(* Type correctness                                                         *)
(***************************************************************************)

Value == Nat \cup {Garbage}

\* What the log says of its last row, and of what that row was sealed behind.
LEMMA TailTyped ==
    ASSUME TypeOK
    PROVE  /\ LastEntryHmac \in Value
           /\ \A h \in Value : Behind(h) \in Seq(ChainedLogEntry)
<1>1. LastEntryHmac \in Value
  <2>1. CASE log = <<>>
    BY <2>1 DEF LastEntryHmac, GENESIS_HMAC, Value
  <2>2. CASE log # <<>>
    <3>1. Len(log) \in 1..Len(log)
      BY <2>2, EmptySeq DEF TypeOK, TablesTyped
    <3>2. log[Len(log)] \in ChainedLogEntry
      BY <3>1, ElementOfSeq DEF TypeOK, TablesTyped
    <3> QED
      BY <2>2, <3>2 DEF LastEntryHmac, ChainedLogEntry, Value
  <2> QED
    BY <2>1, <2>2
<1>2. ASSUME NEW h \in Value
      PROVE  Behind(h) \in Seq(ChainedLogEntry)
  <2>1. <<>> \in Seq(ChainedLogEntry)
    BY EmptySeq
  <2>2. h \in 1..Len(seals) => seals[h] \in Seals
    BY ElementOfSeq DEF TypeOK, TablesTyped
  <2> QED
    BY <2>1, <2>2 DEF Behind, Seals, Value
<1> QED
  BY <1>1, <1>2

\* An entry that is appended leaves the log and the seals typed.
LEMMA AppendTyped ==
    ASSUME TypeOK, NEW k \in Nat, AppendEntry(k)
    PROVE  /\ log' \in Seq(ChainedLogEntry)
           /\ seals' \in Seq(Seals)
           /\ strayed' \in BOOLEAN
<1> DEFINE n     == Len(seals) + 1
           entry == [prev_hmac |-> LastEntryHmac, body |-> n, entry_hmac |-> n]
           seal  == [keys |-> k, prev_hmac |-> LastEntryHmac,
                     chain |-> Append(Behind(LastEntryHmac), entry)]
<1>1. n \in Nat
  BY LenProperties DEF TypeOK, TablesTyped
<1>2. entry \in ChainedLogEntry
  BY <1>1, TailTyped DEF ChainedLogEntry, Value
<1>3. Append(Behind(LastEntryHmac), entry) \in Seq(ChainedLogEntry)
  BY <1>2, TailTyped
<1>4. seal \in Seals
  BY <1>3, TailTyped DEF Seals, Value
<1>5. log' = Append(log, entry) /\ seals' = Append(seals, seal)
  BY DEF AppendEntry
<1>6. strayed' \in BOOLEAN
  BY DEF AppendEntry
<1>7. seals \in Seq(Seals)
  BY DEF TypeOK, TablesTyped
<1> HIDE DEF seal, entry
<1> QED
  BY <1>2, <1>4, <1>5, <1>6, <1>7 DEF TypeOK, TablesTyped

\* A rewritten log is still a table of entries, and holds no HMAC of the future.
LEMMA TamperKept ==
    ASSUME TypeOK, Tamper
    PROVE  /\ log' \in Seq(ChainedLogEntry)
           /\ RowsKnown => \A i \in 1..Len(log') : log'[i].entry_hmac \in Known
           /\ edited' = TRUE
           /\ UNCHANGED <<seals, window, viewers, pc, strayed>>
           /\ edits' = edits + 1
<1> DEFINE Good == {e \in ChainedLogEntry : RowsKnown => e.entry_hmac \in Known}
<1>1. log \in Seq(ChainedLogEntry) /\ Len(log) \in Nat
  BY LenProperties DEF TypeOK, TablesTyped
<1>2. \A i \in 1..Len(log) : log[i] \in Good
  BY <1>1, ElementOfSeq DEF RowsKnown
<1>3. log \in Seq(Good)
  BY <1>1, <1>2, SeqDef, LenProperties
<1>4. \A v \in Known : v \in Value
  BY LenProperties DEF TypeOK, TablesTyped, Known, Value
<1>5. \A e \in KnownRows : e \in Good
  <2>1. ASSUME NEW n \in 1..Len(seals)
        PROVE  SealedEntry(n) \in Good
    <3>1. seals[n] \in Seals
      BY ElementOfSeq DEF TypeOK, TablesTyped
    <3>2. n \in Known /\ n \in Nat
      BY LenProperties DEF TypeOK, TablesTyped, Known
    <3> QED
      BY <3>1, <3>2 DEF SealedEntry, ChainedLogEntry, Seals, Value
  <2> QED
    BY <1>2, <2>1 DEF KnownRows
<1>6. ASSUME NEW e \in Good, NEW c \in Columns, NEW v \in Known
      PROVE  [e EXCEPT ![c] = v] \in Good
  BY <1>4 DEF Columns, ChainedLogEntry, Value
<1> HIDE DEF Good
<1>7. ASSUME NEW i \in 0..Len(log), NEW j \in 1..Len(log) + 1
      PROVE  /\ SubSeq(log, 1, i) \in Seq(Good)
             /\ SubSeq(log, j, Len(log)) \in Seq(Good)
  <2>1. \A m \in 1..i : log[m] \in Good
    BY <1>1, <1>2
  <2>2. \A m \in j..Len(log) : log[m] \in Good
    BY <1>1, <1>2
  <2> QED
    BY <1>1, <2>1, <2>2, SubSeqProperties
<1>8. PICK rows : Rewrite(rows) /\ rows \in Seq(Good)
  <2>1. CASE ModifyRow
    <3>1. PICK i \in 1..Len(log), c \in Columns, v \in Known :
              Rewrite([log EXCEPT ![i][c] = v])
      BY <2>1 DEF ModifyRow
    <3>2. [log[i] EXCEPT ![c] = v] \in Good
      BY <1>2, <1>6
    <3>3. [log EXCEPT ![i] = [log[i] EXCEPT ![c] = v]] \in Seq(Good)
      BY <1>3, <3>2, ExceptSeq
    <3>4. [log EXCEPT ![i][c] = v] = [log EXCEPT ![i] = [log[i] EXCEPT ![c] = v]]
      OBVIOUS
    <3> QED
      BY <3>1, <3>3, <3>4
  <2>2. CASE InsertRow
    <3>1. PICK i \in 0..Len(log), e \in KnownRows :
              Rewrite(SubSeq(log, 1, i) \o <<e>> \o SubSeq(log, i + 1, Len(log)))
      BY <2>2 DEF InsertRow
    <3>2. <<e>> \in Seq(Good)
      BY <1>5
    <3>3. i + 1 \in 1..Len(log) + 1
      BY <1>1
    <3>4. SubSeq(log, 1, i) \in Seq(Good) /\ SubSeq(log, i + 1, Len(log)) \in Seq(Good)
      BY <1>7, <3>3, <1>1
    <3>5. SubSeq(log, 1, i) \o <<e>> \o SubSeq(log, i + 1, Len(log)) \in Seq(Good)
      BY <3>2, <3>4, ConcatProperties
    <3> QED
      BY <3>1, <3>5
  <2>3. CASE RemoveRow
    <3>1. PICK i \in 1..Len(log) :
              Rewrite(SubSeq(log, 1, i - 1) \o SubSeq(log, i + 1, Len(log)))
      BY <2>3 DEF RemoveRow
    <3>2. i - 1 \in 0..Len(log) /\ i + 1 \in 1..Len(log) + 1
      BY <1>1
    <3>3. SubSeq(log, 1, i - 1) \o SubSeq(log, i + 1, Len(log)) \in Seq(Good)
      BY <1>7, <3>2, ConcatProperties
    <3> QED
      BY <3>1, <3>3
  <2>4. CASE SwapRows
    <3>1. PICK i \in 1..Len(log), j \in 1..Len(log) :
              Rewrite([log EXCEPT ![i] = log[j], ![j] = log[i]])
      BY <2>4 DEF SwapRows
    <3>2. [log EXCEPT ![i] = log[j]] \in Seq(Good) /\ Len([log EXCEPT ![i] = log[j]]) = Len(log)
      BY <1>2, <1>3, ExceptSeq
    <3>3. [log EXCEPT ![i] = log[j], ![j] = log[i]] \in Seq(Good)
      BY <1>2, <3>2, ExceptSeq
    <3> QED
      BY <3>1, <3>3
  <2> QED
    BY <2>1, <2>2, <2>3, <2>4 DEF Tamper
<1>9. log' \in Seq(Good)
  BY <1>8 DEF Rewrite
<1>10. \A i \in 1..Len(log') : log'[i] \in Good
  BY <1>9, ElementOfSeq
<1>11. log' \in Seq(ChainedLogEntry)
  BY <1>9, SeqMonotonic DEF Good
<1>12. RowsKnown => \A i \in 1..Len(log') : log'[i].entry_hmac \in Known
  BY <1>10 DEF Good
<1> QED
  BY <1>8, <1>11, <1>12 DEF Rewrite

\* The present account's tracker is current, and so every open view has one of the
\* keys that were drawn.
Framed == WindowsTyped /\ TrackerIsCurrent

LEMMA StepKeepsWindows ==
    ASSUME TypeOK, TrackerIsCurrent, [Next]_vars
    PROVE  Framed'
<1> USE DEF Framed, TypeOK, WindowsTyped, TrackerIsCurrent
<1>0. /\ pairs \in Nat /\ edits + 1 \in Nat /\ 0 \in 0..pairs
      /\ pairs + 1 \in Nat /\ pairs + 1 # 0 /\ pairs + 1 \in 0..pairs + 1
      /\ 1..pairs \subseteq 1..pairs + 1
  OBVIOUS
<1>1. CASE SignIn
  <2>1. CASE keys # 0
    BY <1>1, <2>1 DEF SignIn, LoadOrCreateKeys, Places
  <2>2. CASE keys = 0
    <3>1. pairs' = pairs + 1 /\ keys' = pairs + 1 /\ tracker' = pairs + 1
      BY <1>1, <2>2 DEF SignIn, LoadOrCreateKeys
    <3>2. viewers' = viewers /\ pc' = "main" /\ UNCHANGED <<edits, edited, strayed>>
      BY <1>1 DEF SignIn
    <3>3. WindowsTyped'
      BY <1>0, <3>1, <3>2 DEF Places
    <3> QED
      BY <1>0, <3>1, <3>2, <3>3
  <2> QED
    BY <2>1, <2>2
<1>2. CASE StartSession
  BY <1>2 DEF StartSession, window, Places
<1>3. ASSUME NEW k \in viewers, RecordClose(k)
      PROVE  Framed'
  BY <1>3 DEF RecordClose, AppendEntry, window
<1>4. ASSUME NEW k \in viewers, LoseSession(k)
      PROVE  Framed'
  BY <1>4 DEF LoseSession, window
<1>5. CASE RecordDeviceRebind
  BY <1>5 DEF RecordDeviceRebind, AppendEntry, window
<1>6. CASE Clear
  BY <1>6 DEF Clear, window, Places
<1>7. CASE DeleteAccountRow
  BY <1>0, <1>7 DEF DeleteAccountRow, Places
<1>8. CASE DeleteFails
  BY <1>8 DEF DeleteFails, window, Places
<1>9. CASE CloseWindow
  BY <1>9 DEF CloseWindow, Places
<1>10. CASE Exit
  BY <1>10 DEF Exit, Places
<1>11. CASE Tamper
  BY <1>0, <1>11, TamperKept DEF window
<1>12. CASE UNCHANGED vars
  BY <1>12 DEF vars, window
<1> QED
  BY <1>1, <1>2, <1>3, <1>4, <1>5, <1>6, <1>7, <1>8, <1>9, <1>10, <1>11, <1>12 DEF Next

\* What a step does to the rows and the seals: nothing, an append, a clearing, a
\* rewrite.
Quiet == UNCHANGED <<log, seals, edits, edited, strayed>>

LEMMA StepCases ==
    ASSUME TypeOK, TrackerIsCurrent, [Next]_vars
    PROVE  \/ /\ Quiet
              /\ \/ keys' = keys
                 \/ keys = 0 /\ pc = "signed out"
                 \/ keys' = 0 /\ pc = "cleared"
              /\ pc' = "cleared" => pc = "cleared"
           \/ /\ \E k \in Nat \ {0} : AppendEntry(k)
              /\ UNCHANGED <<window, pc, edits, edited>>
              /\ pc # "cleared"
           \/ /\ log' = <<>> /\ UNCHANGED <<seals, window, edits>>
              /\ edited' = FALSE /\ strayed' = FALSE /\ pc' = "cleared"
           \/ Tamper
<1>1. CASE SignIn
  BY <1>1 DEF SignIn, LoadOrCreateKeys, Quiet
<1>2. CASE StartSession
  BY <1>2 DEF StartSession, window, Quiet
<1>3. ASSUME NEW k \in viewers, RecordClose(k)
      PROVE  /\ k \in Nat \ {0} /\ AppendEntry(k)
             /\ UNCHANGED <<window, pc, edits, edited>>
             /\ pc # "cleared"
  BY <1>3 DEF RecordClose, TypeOK, WindowsTyped
<1>4. ASSUME NEW k \in viewers, LoseSession(k)
      PROVE  Quiet /\ keys' = keys /\ pc # "cleared" /\ pc' = pc
  BY <1>4 DEF LoseSession, window, Quiet
<1>5. CASE RecordDeviceRebind
  <2>1. tracker = keys /\ keys \in Nat \ {0} /\ pc # "cleared"
    BY <1>5 DEF RecordDeviceRebind, TrackerIsCurrent, TypeOK, WindowsTyped
  <2>2. AppendEntry(keys) /\ UNCHANGED <<window, pc, edits, edited>>
    BY <1>5, <2>1 DEF RecordDeviceRebind
  <2> QED
    BY <2>1, <2>2
<1>6. CASE Clear
  BY <1>6 DEF Clear
<1>7. CASE DeleteAccountRow
  BY <1>7 DEF DeleteAccountRow, Quiet
<1>8. CASE DeleteFails
  BY <1>8 DEF DeleteFails, window, Quiet
<1>9. CASE CloseWindow
  BY <1>9 DEF CloseWindow, Quiet
<1>10. CASE Exit
  BY <1>10 DEF Exit, Quiet
<1>11. CASE UNCHANGED vars
  BY <1>11 DEF vars, window, Quiet
<1> QED
  BY <1>1, <1>2, <1>3, <1>4, <1>5, <1>6, <1>7, <1>8, <1>9, <1>10, <1>11 DEF Next

\* Every step leaves the log and the seals typed.
LEMMA StepKeepsTables ==
    ASSUME TypeOK, TrackerIsCurrent, [Next]_vars
    PROVE  TablesTyped'
<1>1. CASE Quiet
  BY <1>1 DEF Quiet, TypeOK, TablesTyped
<1>2. ASSUME NEW k \in Nat, AppendEntry(k)
      PROVE  TablesTyped'
  BY <1>2, AppendTyped DEF TablesTyped
<1>3. CASE log' = <<>> /\ UNCHANGED seals
  BY <1>3, EmptySeq DEF TypeOK, TablesTyped
<1>4. CASE Tamper
  BY <1>4, TamperKept DEF TypeOK, TablesTyped
<1> QED
  BY <1>1, <1>2, <1>3, <1>4, StepCases

\* The tables, keys, windows and places of the program are always what they are
\* declared to be: every handler, and every rewrite from outside, keeps them so.
THEOREM TypeCorrect == Spec => [](TypeOK /\ TrackerIsCurrent)
<1>1. Init => TypeOK /\ TrackerIsCurrent
  <2> SUFFICES ASSUME Init
               PROVE  TypeOK /\ TrackerIsCurrent
    OBVIOUS
  <2>1. TablesTyped
    BY EmptySeq DEF Init, TablesTyped
  <2>2. WindowsTyped /\ TrackerIsCurrent
    <3>1. 0 \in 0..0 /\ {} \subseteq 1..0 /\ 0 \in Nat
      OBVIOUS
    <3> QED
      BY <3>1 DEF Init, WindowsTyped, Places, TrackerIsCurrent
  <2> QED
    BY <2>1, <2>2 DEF TypeOK
<1>2. TypeOK /\ TrackerIsCurrent /\ [Next]_vars => (TypeOK /\ TrackerIsCurrent)'
  BY StepKeepsWindows, StepKeepsTables DEF Framed, TypeOK
<1> QED
  BY <1>1, <1>2, PTL DEF Spec

-----------------------------------------------------------------------------
(***************************************************************************)
(* The inductive invariant                                                  *)
(***************************************************************************)

\* What an append does: one row and one seal more, both of the same number; what
\* was there stays, and what verified of it verifies.
LEMMA AppendEffect ==
    ASSUME TypeOK, RowsKnown, NEW k \in Nat, AppendEntry(k)
    PROVE  /\ Len(seals) \in Nat /\ Len(log) \in Nat
           /\ LastEntryHmac \in Known
           /\ Len(seals') = Len(seals) + 1
           /\ \A n \in 1..Len(seals) : seals'[n] = seals[n]
           /\ seals'[Len(seals) + 1].keys = k
           /\ seals'[Len(seals) + 1].prev_hmac = LastEntryHmac
           /\ seals'[Len(seals) + 1].chain =
                 Append(Behind(LastEntryHmac),
                        [prev_hmac |-> LastEntryHmac, body |-> Len(seals) + 1,
                         entry_hmac |-> Len(seals) + 1])
           /\ Len(log') = Len(log) + 1
           /\ \A i \in 1..Len(log) : log'[i] = log[i]
           /\ log'[Len(log) + 1].prev_hmac = LastEntryHmac
           /\ log'[Len(log) + 1].body = Len(seals) + 1
           /\ log'[Len(log) + 1].entry_hmac = Len(seals) + 1
           /\ strayed' = (strayed \/ k # keys)
<1>1. Len(seals) \in Nat /\ Len(log) \in Nat
  BY LenProperties DEF TypeOK, TablesTyped
<1>2. LastEntryHmac \in Known
  <2>1. CASE log = <<>>
    BY <1>1, <2>1 DEF LastEntryHmac, GENESIS_HMAC, Known
  <2>2. CASE log # <<>>
    <3>1. Len(log) \in 1..Len(log)
      BY <2>2, EmptySeq DEF TypeOK, TablesTyped
    <3> QED
      BY <2>2, <3>1 DEF LastEntryHmac, RowsKnown
  <2> QED
    BY <2>1, <2>2
<1> DEFINE entry == [prev_hmac |-> LastEntryHmac, body |-> Len(seals) + 1,
                     entry_hmac |-> Len(seals) + 1]
           seal  == [keys |-> k, prev_hmac |-> LastEntryHmac,
                     chain |-> Append(Behind(LastEntryHmac), entry)]
<1>3. log' = Append(log, entry) /\ seals' = Append(seals, seal)
      /\ strayed' = (strayed \/ k # keys)
  BY DEF AppendEntry
<1>4. seals \in Seq(Seals) /\ log \in Seq(ChainedLogEntry)
  BY DEF TypeOK, TablesTyped
<1> HIDE DEF entry, seal
<1>5. /\ Len(seals') = Len(seals) + 1
      /\ \A n \in 1..Len(seals) : seals'[n] = seals[n]
      /\ seals'[Len(seals) + 1] = seal
  BY <1>1, <1>3, <1>4
<1>6. /\ Len(log') = Len(log) + 1
      /\ \A n \in 1..Len(log) : log'[n] = log[n]
      /\ log'[Len(log) + 1] = entry
  BY <1>1, <1>3, <1>4
<1>7. /\ seal.keys = k /\ seal.prev_hmac = LastEntryHmac
      /\ seal.chain = Append(Behind(LastEntryHmac), entry)
  BY DEF seal
<1>8. /\ entry = [prev_hmac |-> LastEntryHmac, body |-> Len(seals) + 1,
                  entry_hmac |-> Len(seals) + 1]
      /\ entry.prev_hmac = LastEntryHmac /\ entry.body = Len(seals) + 1
      /\ entry.entry_hmac = Len(seals) + 1
  BY DEF entry
<1> QED
  BY <1>1, <1>2, <1>3, <1>5, <1>6, <1>7, <1>8

\* An append changes neither what lies behind an HMAC that existed, nor whether an
\* entry with such an HMAC verifies.
LEMMA AppendKeeps ==
    ASSUME TypeOK, RowsKnown, NEW k \in Nat, AppendEntry(k)
    PROVE  /\ \A h \in Known : Behind(h)' = Behind(h)
           /\ \A n \in 1..Len(seals) : SealedEntry(n)' = SealedEntry(n)
           /\ \A e, k0 : e.entry_hmac # Len(seals) + 1 =>
                  (VerifyEntry(k0, e)' <=> VerifyEntry(k0, e))
<1>1. Len(seals') = Len(seals) + 1 /\ Len(seals) \in Nat
      /\ \A n \in 1..Len(seals) : seals'[n] = seals[n]
  BY AppendEffect
<1>2. ASSUME NEW h \in Known
      PROVE  Behind(h)' = Behind(h)
  <2>1. h \in 1..Len(seals') <=> h \in 1..Len(seals)
    <3>1. CASE h \in 0..Len(seals)
      BY <1>1, <3>1
    <3>2. CASE h = Garbage
      <4>1. h \notin 1..Len(seals) /\ h \notin 1..Len(seals')
        BY <1>1, <3>2, UsageLogAssumption
      <4> QED
        BY <4>1
    <3> QED
      BY <3>1, <3>2 DEF Known
  <2> QED
    BY <1>1, <2>1 DEF Behind
<1>3. ASSUME NEW n \in 1..Len(seals)
      PROVE  SealedEntry(n)' = SealedEntry(n)
  BY <1>1 DEF SealedEntry
<1>4. ASSUME NEW e, NEW k0, e.entry_hmac # Len(seals) + 1
      PROVE  VerifyEntry(k0, e)' <=> VerifyEntry(k0, e)
  <2>0. ASSUME NEW m, NEW n \in Nat, m # n + 1
        PROVE  m \in 1..n + 1 <=> m \in 1..n
    BY <2>0
  <2>1. e.entry_hmac \in 1..Len(seals') <=> e.entry_hmac \in 1..Len(seals)
    BY <1>1, <1>4, <2>0
  <2> QED
    BY <1>1, <2>1 DEF VerifyEntry
<1> QED
  BY <1>2, <1>3, <1>4

\* A new seal links back, and the links of the others stay.
LEMMA StepKeepsSealsLinkBack ==
    ASSUME TypeOK, TrackerIsCurrent, RowsKnown, SealsLinkBack, [Next]_vars
    PROVE  SealsLinkBack'
<1>1. CASE UNCHANGED seals
  <2>1. \A h : Behind(h)' = Behind(h)
    BY <1>1 DEF Behind
  <2>2. \A n : SealedEntry(n)' = SealedEntry(n)
    BY <1>1 DEF SealedEntry
  <2> QED
    BY <1>1, <2>1, <2>2 DEF SealsLinkBack
<1>2. ASSUME NEW k \in Nat, AppendEntry(k)
      PROVE  SealsLinkBack'
  <2> DEFINE N == Len(seals) + 1
  <2>1. /\ Len(seals) \in Nat /\ Len(seals') = N
        /\ LastEntryHmac \in Known
        /\ \A n \in 1..Len(seals) : seals'[n] = seals[n]
        /\ seals'[N].prev_hmac = LastEntryHmac
        /\ seals'[N].chain = Append(Behind(LastEntryHmac),
                                    [prev_hmac |-> LastEntryHmac, body |-> N, entry_hmac |-> N])
    BY <1>2, AppendEffect
  <2>2. \A h \in Known : Behind(h)' = Behind(h)
    BY <1>2, AppendKeeps
  <2>3. \A n \in 1..Len(seals) : SealedEntry(n)' = SealedEntry(n)
    BY <1>2, AppendKeeps
  <2> SUFFICES ASSUME NEW n \in 1..Len(seals')
               PROVE  /\ seals'[n].prev_hmac \in 0..n - 1 \cup {Garbage}
                      /\ seals'[n].chain = Append(Behind(seals[n].prev_hmac)', SealedEntry(n)')
    BY DEF SealsLinkBack
  <2>4. CASE n \in 1..Len(seals)
    <3>1. seals[n].prev_hmac \in 0..n - 1 \cup {Garbage}
      BY <2>4 DEF SealsLinkBack
    <3>2. seals[n].prev_hmac \in Known
      BY <2>1, <2>4, <3>1 DEF Known
    <3>3. seals'[n] = seals[n]
      BY <2>1, <2>4
    <3>4. Behind(seals[n].prev_hmac)' = Behind(seals[n].prev_hmac)
      BY <2>2, <3>2, <3>3 DEF Behind
    <3>5. SealedEntry(n)' = SealedEntry(n)
      BY <2>3, <2>4
    <3>6. seals[n].chain = Append(Behind(seals[n].prev_hmac), SealedEntry(n))
      BY <2>4 DEF SealsLinkBack
    <3> QED
      BY <3>1, <3>3, <3>4, <3>5, <3>6
  <2>5. CASE n = N
    <3>1. seals'[n].prev_hmac \in 0..n - 1 \cup {Garbage}
      BY <2>1, <2>5 DEF Known
    <3>2. Behind(seals[n].prev_hmac)' = Behind(LastEntryHmac)
      BY <2>1, <2>2, <2>5 DEF Behind
    <3>3. SealedEntry(n)' = [prev_hmac |-> LastEntryHmac, body |-> N, entry_hmac |-> N]
      BY <2>1, <2>5 DEF SealedEntry
    <3> QED
      BY <2>1, <2>5, <3>1, <3>2, <3>3
  <2> QED
    BY <2>1, <2>4, <2>5
<1>3. CASE Tamper
  BY <1>1, <1>3, TamperKept
<1> QED
  BY <1>1, <1>2, <1>3, StepCases DEF Quiet

\* No step, and no rewrite, puts an HMAC of the future into a row.
LEMMA StepKeepsRowsKnown ==
    ASSUME TypeOK, TrackerIsCurrent, RowsKnown, [Next]_vars
    PROVE  RowsKnown'
<1>1. CASE Quiet
  BY <1>1 DEF Quiet, RowsKnown, Known
<1>2. ASSUME NEW k \in Nat, AppendEntry(k)
      PROVE  RowsKnown'
  <2>1. /\ Len(seals) \in Nat /\ Len(log) \in Nat
        /\ Len(seals') = Len(seals) + 1 /\ Len(log') = Len(log) + 1
        /\ \A i \in 1..Len(log) : log'[i] = log[i]
        /\ log'[Len(log) + 1].entry_hmac = Len(seals) + 1
    BY <1>2, AppendEffect
  <2>2. Known \subseteq Known' /\ Len(seals) + 1 \in Known'
    BY <2>1 DEF Known
  <2> SUFFICES ASSUME NEW i \in 1..Len(log')
               PROVE  log'[i].entry_hmac \in Known'
    BY DEF RowsKnown
  <2>3. CASE i \in 1..Len(log)
    BY <2>1, <2>2, <2>3 DEF RowsKnown
  <2>4. CASE i = Len(log) + 1
    BY <2>1, <2>2, <2>4
  <2> QED
    BY <2>1, <2>3, <2>4
<1>3. CASE log' = <<>>
  <2>1. Len(log') = 0
    BY <1>3, EmptySeq
  <2> QED
    BY <2>1 DEF RowsKnown
<1>4. CASE Tamper
  BY <1>4, TamperKept DEF RowsKnown, Known
<1> QED
  BY <1>1, <1>2, <1>3, <1>4, StepCases

\* Appending with the account's keys to rows that follow each other under them gives
\* rows that do.
LEMMA AppendFollows ==
    ASSUME TypeOK, RowsKnown, NEW k \in Nat, AppendEntry(k), NEW k0 \in Nat
    PROVE  /\ \A i \in 1..Len(log) : Follows(k0, log, i)' <=> Follows(k0, log, i)
           /\ k0 = k => Follows(k0, log, Len(log))'
<1>1. /\ Len(seals) \in Nat /\ Len(log) \in Nat
      /\ Len(seals') = Len(seals) + 1
      /\ \A i \in 1..Len(log) : log'[i] = log[i]
      /\ Len(log') = Len(log) + 1
      /\ log'[Len(log) + 1].prev_hmac = LastEntryHmac
      /\ log'[Len(log) + 1].body = Len(seals) + 1
      /\ log'[Len(log) + 1].entry_hmac = Len(seals) + 1
      /\ seals'[Len(seals) + 1].keys = k
      /\ seals'[Len(seals) + 1].prev_hmac = LastEntryHmac
  BY AppendEffect
<1>2. ASSUME NEW i \in 1..Len(log)
      PROVE  Follows(k0, log, i)' <=> Follows(k0, log, i)
  <2>1. log[i].entry_hmac # Len(seals) + 1
    <3>1. log[i].entry_hmac \in 0..Len(seals) \cup {Garbage}
      BY DEF RowsKnown, Known
    <3> QED
      BY <1>1, <3>1, UsageLogAssumption
  <2>2. VerifyEntry(k0, log[i])' <=> VerifyEntry(k0, log[i])
    <3>1. log'[i] = log[i]
      BY <1>1
    <3> QED
      BY <2>1, <3>1, AppendKeeps DEF VerifyEntry
  <2>3. i # 1 => log'[i - 1] = log[i - 1]
    BY <1>1
  <2> QED
    BY <1>1, <2>2, <2>3 DEF Follows
<1>3. Follows(k, log, Len(log))'
  <2>1. VerifyEntry(k, log[Len(log)])'
    BY <1>1 DEF VerifyEntry
  <2>2. CASE log = <<>>
    <3>1. Len(log) = 0 /\ LastEntryHmac = GENESIS_HMAC
      BY <2>2, EmptySeq DEF LastEntryHmac
    <3> QED
      BY <1>1, <2>1, <3>1 DEF Follows, GENESIS_HMAC
  <2>3. CASE log # <<>>
    <3>1. Len(log) \in 1..Len(log) /\ LastEntryHmac = log[Len(log)].entry_hmac
      BY <2>3, EmptySeq DEF LastEntryHmac, TypeOK, TablesTyped
    <3>2. Len(log) + 1 # 1 /\ (Len(log) + 1) - 1 = Len(log)
      BY <3>1
    <3>3. log'[Len(log)].entry_hmac = LastEntryHmac
      BY <1>1, <3>1
    <3> QED
      BY <1>1, <2>1, <3>2, <3>3 DEF Follows
  <2> QED
    BY <2>2, <2>3
<1> QED
  BY <1>2, <1>3

\* Of the untouched log: an append by a tracker of the present account extends it, any
\* other makes it strayed, and it is empty before the keys of an account go.
LEMMA StepKeepsUntouched ==
    ASSUME TypeOK, TrackerIsCurrent, RowsKnown, Untouched, [Next]_vars
    PROVE  Untouched'
<1> SUFFICES ASSUME ~edited', ~strayed'
             PROVE  /\ \A i \in 1..Len(log') : Follows(keys, log, i)'
                    /\ (keys' = 0 \/ pc' = "cleared") => log' = <<>>
  BY DEF Untouched
<1>0. log' = <<>> => \A i \in 1..Len(log') : Follows(keys, log, i)'
  BY EmptySeq
<1>1. CASE /\ Quiet
           /\ \/ keys' = keys
              \/ keys = 0 /\ pc = "signed out"
              \/ keys' = 0 /\ pc = "cleared"
           /\ pc' = "cleared" => pc = "cleared"
  <2>1. /\ \A i \in 1..Len(log) : Follows(keys, log, i)
        /\ (keys = 0 \/ pc = "cleared") => log = <<>>
    BY <1>1 DEF Quiet, Untouched
  <2>2. log' = log /\ seals' = seals
    BY <1>1 DEF Quiet
  <2>3. CASE keys' = keys
    BY <1>1, <2>1, <2>2, <2>3 DEF Follows, VerifyEntry
  <2>4. CASE log = <<>>
    BY <1>0, <2>2, <2>4
  <2> QED
    BY <1>1, <2>1, <2>3, <2>4
<1>2. ASSUME NEW k \in Nat \ {0}, AppendEntry(k), UNCHANGED <<window, pc, edits, edited>>,
             pc # "cleared"
      PROVE  /\ \A i \in 1..Len(log') : Follows(keys, log, i)'
             /\ (keys' = 0 \/ pc' = "cleared") => log' = <<>>
  <2>1. ~edited /\ ~strayed /\ k = keys /\ keys' = keys /\ pc' = pc
    BY <1>2, AppendEffect DEF window
  <2>2. \A i \in 1..Len(log) : Follows(keys, log, i)
    BY <2>1 DEF Untouched
  <2>3. Len(log') = Len(log) + 1 /\ Len(log) \in Nat
    BY <1>2, AppendEffect
  <2>4. \A i \in 1..Len(log) : Follows(k, log, i)'
    BY <1>2, <2>1, <2>2, AppendFollows
  <2>5. Follows(k, log, Len(log))'
    BY <1>2, AppendFollows
  <2>6. \A i \in 1..Len(log') : Follows(k, log, i)'
    BY <2>3, <2>4, <2>5
  <2>7. \A i \in 1..Len(log') : Follows(keys, log, i)'
    BY <2>1, <2>6 DEF Follows, VerifyEntry
  <2> QED
    BY <1>2, <2>1, <2>7
<1>3. CASE log' = <<>>
  BY <1>0, <1>3
<1>4. CASE Tamper
  BY <1>4, TamperKept
<1> QED
  BY <1>1, <1>2, <1>3, <1>4, StepCases

\* Any sequence of rows that verifies is what was written up to its last row: an
\* entry's past is fixed when it is sealed, and no other rows verify in its place.
Traced ==
    \A k \in Nat : \A s \in Seq(ChainedLogEntry) :
        (s # <<>> /\ \A i \in 1..Len(s) : Follows(k, s, i))
            => s = Behind(s[Len(s)].entry_hmac)

\* A sequence that verifies with a new entry in it has that entry last, and before it
\* what verified before.
LEMMA AppendKeepsTraced ==
    ASSUME TypeOK, RowsKnown, SealsLinkBack, Traced, NEW k \in Nat, AppendEntry(k)
    PROVE  Traced'
<1> DEFINE N == Len(seals) + 1
<1>1. /\ Len(seals) \in Nat /\ Len(seals') = N
      /\ LastEntryHmac \in Known
      /\ \A n \in 1..Len(seals) : seals'[n] = seals[n]
      /\ seals'[N].prev_hmac = LastEntryHmac
      /\ seals'[N].chain = Append(Behind(LastEntryHmac),
                                  [prev_hmac |-> LastEntryHmac, body |-> N, entry_hmac |-> N])
  BY AppendEffect
<1> SUFFICES ASSUME NEW k0 \in Nat, NEW s \in Seq(ChainedLogEntry),
                    s # <<>>, \A i \in 1..Len(s) : Follows(k0, s, i)'
             PROVE  s = Behind(s[Len(s)].entry_hmac)'
  BY DEF Traced
<1>2. Len(s) \in 1..Len(s) /\ Len(s) \in Nat
  BY EmptySeq, LenProperties
<1>3. \A i \in 1..Len(s) : /\ s[i].entry_hmac \in 1..N
                           /\ seals'[s[i].entry_hmac].prev_hmac = s[i].prev_hmac
                           /\ s[i].body = s[i].entry_hmac
                           /\ i # 1 => s[i].prev_hmac = s[i - 1].entry_hmac
                           /\ i = 1 => s[i].prev_hmac = 0
  BY <1>1 DEF Follows, VerifyEntry, GENESIS_HMAC
<1>4. \A n \in 1..N : seals'[n].prev_hmac \in 0..n - 1 \cup {Garbage}
  <2>1. \A n \in 1..Len(seals) : seals[n].prev_hmac \in 0..n - 1 \cup {Garbage}
    BY DEF SealsLinkBack
  <2>2. LastEntryHmac \in 0..N - 1 \cup {Garbage}
    BY <1>1 DEF Known
  <2> QED
    BY <1>1, <2>1, <2>2
\* Every row but the last was sealed before this append.
<1>5. ASSUME NEW i \in 1..Len(s) - 1
      PROVE  s[i].entry_hmac \in 1..Len(seals)
  <2>1. i + 1 \in 1..Len(s) /\ i \in 1..Len(s) /\ i + 1 # 1 /\ (i + 1) - 1 = i
    BY <1>2
  <2>2. s[i].entry_hmac = s[i + 1].prev_hmac /\ s[i].entry_hmac \in 1..N
    BY <1>3, <2>1
  <2>3. PICK m \in 1..N : s[i + 1].entry_hmac = m /\ s[i + 1].prev_hmac = seals'[m].prev_hmac
    BY <1>3, <2>1
  <2>4. s[i].entry_hmac \in 0..m - 1 \cup {Garbage}
    BY <1>4, <2>2, <2>3
  <2> QED
    BY <1>1, <2>2, <2>4, UsageLogAssumption
<1>6. ASSUME NEW i \in 1..Len(s), s[i].entry_hmac \in 1..Len(seals)
      PROVE  Follows(k0, s, i)
  <2>1. s[i].entry_hmac # N
    BY <1>1, <1>6
  <2>2. VerifyEntry(k0, s[i])'
    BY DEF Follows
  <2>3. VerifyEntry(k0, s[i])
    BY <2>1, <2>2, AppendKeeps
  <2> QED
    BY <2>3 DEF Follows
<1>7. CASE s[Len(s)].entry_hmac \in 1..Len(seals)
  <2>1. \A i \in 1..Len(s) : Follows(k0, s, i)
    BY <1>2, <1>5, <1>6, <1>7
  <2>2. s = Behind(s[Len(s)].entry_hmac)
    BY <2>1 DEF Traced
  <2>3. s[Len(s)].entry_hmac \in Known
    BY <1>1, <1>7 DEF Known
  <2> QED
    BY <2>2, <2>3, AppendKeeps
<1>8. CASE s[Len(s)].entry_hmac = N
  <2> DEFINE last == [prev_hmac |-> LastEntryHmac, body |-> N, entry_hmac |-> N]
             r    == SubSeq(s, 1, Len(s) - 1)
  <2>1. Behind(s[Len(s)].entry_hmac)' = Append(Behind(LastEntryHmac), last)
    <3>1. N \in 1..Len(seals')
      BY <1>1
    <3> QED
      BY <1>1, <1>8, <3>1 DEF Behind
  <2>2. s[Len(s)] = last
    <3>1. s[Len(s)] \in ChainedLogEntry
      BY <1>2, ElementOfSeq
    <3>2. /\ s[Len(s)].prev_hmac = LastEntryHmac /\ s[Len(s)].body = N
          /\ s[Len(s)].entry_hmac = N
      BY <1>1, <1>2, <1>3, <1>8
    <3> QED
      BY <3>1, <3>2 DEF ChainedLogEntry
  <2>3. /\ r \in Seq(ChainedLogEntry) /\ Len(r) = Len(s) - 1
        /\ \A i \in 1..Len(s) - 1 : r[i] = s[i]
        /\ s = Append(r, last)
    <3>1. \A i \in 1..Len(s) - 1 : s[i] \in ChainedLogEntry
      BY <1>2, ElementOfSeq
    <3>2. /\ r \in Seq(ChainedLogEntry) /\ Len(r) = Len(s) - 1
          /\ \A i \in 1..Len(s) - 1 : r[i] = s[i]
      <4> DEFINE n == Len(s) - 1
      <4>1. n \in Int /\ n \in Nat /\ n - 1 + 1 = n
        BY <1>2
      <4>2. \A i \in 1..n : s[i] \in ChainedLogEntry
        BY <3>1
      <4>3. /\ SubSeq(s, 1, n) \in Seq(ChainedLogEntry)
            /\ Len(SubSeq(s, 1, n)) = IF 1 <= n THEN n - 1 + 1 ELSE 0
            /\ \A i \in 1..n - 1 + 1 : SubSeq(s, 1, n)[i] = s[1 + i - 1]
        <5> HIDE DEF n
        <5>1. 1 \in Int
          OBVIOUS
        <5> QED
          BY <4>1, <4>2, <5>1, SubSeqProperties
      <4>4. /\ r \in Seq(ChainedLogEntry)
            /\ Len(r) = n
            /\ \A i \in 1..n : r[i] = s[1 + i - 1]
        BY <4>1, <4>3
      <4>5. \A i \in 1..n : 1 + i - 1 = i
        BY <4>1
      <4> QED
        BY <4>4, <4>5
    <3>3. Append(r, last) \in Seq(ChainedLogEntry) /\ Len(Append(r, last)) = Len(s)
      <4>1. last \in ChainedLogEntry
        BY <1>2, <2>2, ElementOfSeq
      <4> HIDE DEF last, r
      <4> QED
        BY <1>2, <3>2, <4>1
    <3>4. \A i \in 1..Len(s) : s[i] = Append(r, last)[i]
      <4> HIDE DEF last, r
      <4> QED
        BY <1>2, <2>2, <3>2
    <3>5. s = Append(r, last)
      <4> HIDE DEF last, r
      <4> QED
        BY <3>3, <3>4, SeqEqual
    <3> QED
      BY <3>2, <3>5
  <2>4. r = Behind(LastEntryHmac)
    <3> HIDE DEF r
    <3>1. CASE Len(s) = 1
      <4>1. LastEntryHmac = 0
        BY <1>3, <2>2, <3>1
      <4>2. Behind(LastEntryHmac) = <<>>
        BY <4>1 DEF Behind
      <4>3. Len(r) = 0
        BY <2>3, <3>1
      <4> QED
        BY <2>3, <4>2, <4>3, EmptySeq
    <3>2. CASE Len(s) # 1
      <4>1. /\ Len(s) - 1 \in 1..Len(s) - 1 /\ Len(r) = Len(s) - 1
            /\ Len(s) - 1 \in 1..Len(s)
        BY <1>2, <2>3, <3>2
      <4>2. r # <<>>
        BY <4>1, EmptySeq
      <4>3. \A i \in 1..Len(r) : Follows(k0, r, i)
        <5> SUFFICES ASSUME NEW i \in 1..Len(r)
                     PROVE  Follows(k0, r, i)
          OBVIOUS
        <5>1. i \in 1..Len(s) - 1 /\ i \in 1..Len(s) /\ r[i] = s[i]
          BY <1>2, <2>3
        <5>2. i # 1 => r[i - 1] = s[i - 1]
          BY <1>2, <2>3, <5>1
        <5>3. Follows(k0, s, i)
          BY <1>5, <1>6, <5>1
        <5> QED
          BY <5>1, <5>2, <5>3 DEF Follows
      <4>4. r = Behind(r[Len(r)].entry_hmac)
        BY <2>3, <4>2, <4>3 DEF Traced
      <4>5. r[Len(r)].entry_hmac = LastEntryHmac
        <5>1. r[Len(r)] = s[Len(s) - 1]
          BY <2>3, <4>1
        <5>2. s[Len(s)].prev_hmac = s[Len(s) - 1].entry_hmac
          BY <1>2, <1>3, <3>2
        <5>3. s[Len(s)].prev_hmac = LastEntryHmac
          BY <2>2
        <5> QED
          BY <5>1, <5>2, <5>3
      <4> QED
        BY <4>4, <4>5
    <3> QED
      BY <3>1, <3>2
  <2> QED
    BY <2>1, <2>3, <2>4
<1>9. s[Len(s)].entry_hmac \in 1..Len(seals) \/ s[Len(s)].entry_hmac = N
  BY <1>1, <1>2, <1>3
<1> QED
  BY <1>7, <1>8, <1>9

\* Only an append makes seals; rewriting rows makes none.
LEMMA StepKeepsTraced ==
    ASSUME TypeOK, TrackerIsCurrent, RowsKnown, SealsLinkBack, Traced, [Next]_vars
    PROVE  Traced'
<1>1. CASE UNCHANGED seals
  <2>1. \A k, s, i : Follows(k, s, i)' <=> Follows(k, s, i)
    BY <1>1 DEF Follows, VerifyEntry
  <2>2. \A h : Behind(h)' = Behind(h)
    BY <1>1 DEF Behind
  <2> SUFFICES ASSUME NEW k \in Nat, NEW s \in Seq(ChainedLogEntry),
                      s # <<>>, \A i \in 1..Len(s) : Follows(k, s, i)'
               PROVE  s = Behind(s[Len(s)].entry_hmac)'
    BY DEF Traced
  <2>3. \A i \in 1..Len(s) : Follows(k, s, i)
    BY <2>1
  <2>4. s = Behind(s[Len(s)].entry_hmac)
    BY <2>3 DEF Traced
  <2> QED
    BY <2>2, <2>4
<1>2. ASSUME NEW k \in Nat, AppendEntry(k)
      PROVE  Traced'
  BY <1>2, AppendKeepsTraced
<1>3. CASE Tamper
  BY <1>1, <1>3, TamperKept
<1> QED
  BY <1>1, <1>2, <1>3, StepCases DEF Quiet

\* The seals form a tree that grows at its leaves, and each verified sequence of rows
\* is a path from its root: what makes the log's promises inductive.
THEOREM Inductive == Spec => [](IInv /\ Traced)
<1>1. Init => IInv /\ Traced
  <2> SUFFICES ASSUME Init
               PROVE  IInv /\ Traced
    OBVIOUS
  <2>1. seals = <<>> /\ log = <<>> /\ Len(seals) = 0 /\ Len(log) = 0
    BY EmptySeq DEF Init
  <2>2. SealsLinkBack /\ RowsKnown /\ Untouched
    BY <2>1 DEF SealsLinkBack, RowsKnown, Untouched
  <2>3. TrackerIsCurrent
    BY DEF Init, TrackerIsCurrent
  <2>4. TypeOK
    <3>1. 0 \in 0..0 /\ {} \subseteq 1..0 /\ 0 \in Nat
      OBVIOUS
    <3>2. WindowsTyped
      BY <3>1 DEF Init, WindowsTyped, Places
    <3>3. TablesTyped
      BY EmptySeq DEF Init, TablesTyped
    <3> QED
      BY <3>2, <3>3 DEF TypeOK
  <2>5. Traced
    <3> SUFFICES ASSUME NEW k \in Nat, NEW s \in Seq(ChainedLogEntry),
                        s # <<>>, \A i \in 1..Len(s) : Follows(k, s, i)
                 PROVE  FALSE
      BY DEF Traced
    <3>1. Len(s) \in 1..Len(s)
      BY EmptySeq
    <3>2. s[Len(s)].entry_hmac \in 1..0
      BY <2>1, <3>1 DEF Follows, VerifyEntry
    <3> QED
      BY <3>2
  <2> QED
    BY <2>2, <2>3, <2>4, <2>5 DEF IInv
<1>2. IInv /\ Traced /\ [Next]_vars => (IInv /\ Traced)'
  <2> SUFFICES ASSUME IInv, Traced, [Next]_vars
               PROVE  (IInv /\ Traced)'
    OBVIOUS
  <2>1. TypeOK /\ TrackerIsCurrent /\ RowsKnown /\ SealsLinkBack /\ Untouched
    BY DEF IInv
  <2>2. TypeOK' /\ TrackerIsCurrent'
    BY <2>1, StepKeepsWindows, StepKeepsTables DEF Framed, TypeOK
  <2>3. SealsLinkBack' /\ RowsKnown' /\ Untouched' /\ Traced'
    BY <2>1, StepKeepsSealsLinkBack, StepKeepsRowsKnown, StepKeepsUntouched, StepKeepsTraced
  <2> QED
    BY <2>2, <2>3 DEF IInv
<1> QED
  BY <1>1, <1>2, PTL DEF Spec

\* A log that verify_chain accepts is what the program wrote up to its last row.
THEOREM VerifiedLogIsWritten == Spec => []VerifiedIsWritten
<1>1. IInv /\ Traced => VerifiedIsWritten
  <2> SUFFICES ASSUME TypeOK, Traced, log # <<>>, VerifyChain(keys, log).ok
               PROVE  log = Behind(LastEntryHmac)
    BY DEF IInv, VerifiedIsWritten
  <2>1. \A i \in 1..Len(log) : Follows(keys, log, i)
    BY DEF VerifyChain
  <2>2. keys \in Nat /\ log \in Seq(ChainedLogEntry)
    BY DEF TypeOK, TablesTyped, WindowsTyped
  <2>3. log = Behind(log[Len(log)].entry_hmac)
    BY <2>1, <2>2 DEF Traced
  <2> QED
    BY <2>3 DEF LastEntryHmac
<1> QED
  BY <1>1, Inductive, PTL

\* Closing views, rebinding, restarting and a deletion that stops half way raise no
\* alarm: the log verifies to its last row.
THEOREM UntouchedLogVerifies == Spec => []UntouchedVerifies
<1>1. IInv => UntouchedVerifies
  <2> SUFFICES ASSUME TypeOK, Untouched, ~edited, ~strayed
               PROVE  VerifyChain(keys, log) = [ok |-> TRUE, verified_count |-> Len(log)]
    BY DEF IInv, UntouchedVerifies
  <2>1. \A i \in 1..Len(log) : Follows(keys, log, i)
    BY DEF Untouched
  <2>2. Len(log) \in Nat
    BY LenProperties DEF TypeOK, TablesTyped
  <2>3. {n \in 1..Len(log) : \A i \in 1..n : Follows(keys, log, i)} = 1..Len(log)
    BY <2>1, <2>2
  <2>4. Cardinality(1..Len(log)) = Len(log)
    <3>1. 1 \in Int /\ Len(log) \in Int
      BY <2>2
    <3>2. Cardinality(1..Len(log)) = IF 1 > Len(log) THEN 0 ELSE Len(log) - 1 + 1
      BY <3>1, FS_Interval
    <3> QED
      BY <2>2, <3>2
  <2> QED
    BY <2>1, <2>3, <2>4 DEF VerifyChain
<1> QED
  BY <1>1, Inductive, PTL

\* What the program appends to a log that fails its check neither mends it nor moves
\* the entry that the check reports.
THEOREM AlarmStays == Spec => AlarmPersists
<1> DEFINE Step == (keys' = keys /\ edits' = edits /\ pc' # "cleared"
                        /\ ~VerifyChain(keys, log).ok)
                    => VerifyChain(keys, log)' = VerifyChain(keys, log)
<1>1. IInv /\ [Next]_vars => [Step]_vars
  <2> SUFFICES ASSUME TypeOK, TrackerIsCurrent, RowsKnown, [Next]_vars,
                      keys' = keys, edits' = edits, pc' # "cleared",
                      ~VerifyChain(keys, log).ok
               PROVE  VerifyChain(keys, log)' = VerifyChain(keys, log)
    BY DEF IInv
  <2>1. CASE Quiet
    BY <2>1 DEF Quiet, VerifyChain, Follows, VerifyEntry
  <2>2. ASSUME NEW k \in Nat, AppendEntry(k)
        PROVE  VerifyChain(keys, log)' = VerifyChain(keys, log)
    <3>1. Len(log') = Len(log) + 1 /\ Len(log) \in Nat
      BY <2>2, AppendEffect
    <3>2. PICK k1 \in Nat : k1 = keys
      BY DEF TypeOK, WindowsTyped
    <3>3. \A i \in 1..Len(log) : Follows(k1, log, i)' <=> Follows(k1, log, i)
      BY <2>2, AppendFollows
    <3>4. \A i \in 1..Len(log) : Follows(keys, log, i)' <=> Follows(keys, log, i)
      <4>1. keys' = k1
        BY <3>2
      <4> QED
        BY <3>2, <3>3, <4>1 DEF Follows, VerifyEntry
    <3>5. PICK j \in 1..Len(log) : ~Follows(keys, log, j)
      BY DEF VerifyChain
    <3> DEFINE S  == {n \in 1..Len(log) : \A i \in 1..n : Follows(keys, log, i)}
               S1 == {n \in 1..Len(log') : \A i \in 1..n : Follows(keys, log, i)'}
    <3>6. S1 = S
      <4>1. ASSUME NEW n \in S
            PROVE  n \in S1
        BY <3>1, <3>4
      <4>2. ASSUME NEW n \in S1
            PROVE  n \in S
        <5>1. n \in 1..Len(log')
          OBVIOUS
        <5>2. \A i \in 1..n : Follows(keys, log, i)'
          OBVIOUS
        <5>3. n # Len(log) + 1
          BY <3>1, <3>4, <3>5, <5>2
        <5>4. n \in 1..Len(log)
          BY <3>1, <5>1, <5>3
        <5> QED
          BY <3>1, <3>4, <5>2, <5>4
      <4> QED
        BY <4>1, <4>2
    <3>7. ~VerifyChain(keys, log).ok /\ ~(VerifyChain(keys, log).ok)'
      <4>1. j \in 1..Len(log') /\ ~Follows(keys, log, j)'
        BY <3>1, <3>4, <3>5
      <4> QED
        BY <4>1 DEF VerifyChain
    <3> QED
      BY <3>6, <3>7 DEF VerifyChain
  <2>3. Quiet \/ \E k \in Nat : AppendEntry(k)
    <3>1. ASSUME Tamper
          PROVE  FALSE
      <4>1. edits \in Nat
        BY DEF TypeOK, WindowsTyped
      <4>2. edits' = edits + 1
        BY <3>1, TamperKept
      <4> QED
        BY <4>1, <4>2
    <3> QED
      BY <3>1, StepCases
  <2> QED
    BY <2>1, <2>2, <2>3
<1> QED
  BY <1>1, Inductive, PTL DEF Spec, AlarmPersists
=============================================================================
