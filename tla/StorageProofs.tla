--------------------------- MODULE StorageProofs ----------------------------
(***************************************************************************)
(* Proofs about the write path, for every number of files, passphrases,     *)
(* exports and faults.                                                      *)
(***************************************************************************)
EXTENDS Storage, FiniteSetTheorems, TLAPS

USE StorageAssumption

Phrases == Passphrases \cup {NoPassphrase}

-----------------------------------------------------------------------------
(***************************************************************************)
(* Type correctness                                                         *)
(***************************************************************************)

\* The conjuncts of TypeOK by what they are about: the page and its exports, the
\* files and their records, the drive, and the writer.
PageTyped ==
    /\ pairs \in Nat
    /\ key \in 0..pairs
    /\ remembered \in Phrases
    /\ latest \in 0..made
    /\ exported \subseteq Exports
    /\ faults \in Nat

StoreTyped ==
    /\ made \in 0..MaxFiles
    /\ file \in [Files -> Sealed]
    /\ records \subseteq 1..made
    /\ written \subseteq 1..made

DriveTyped ==
    /\ attached \in BOOLEAN
    /\ dest \in [Files -> Contents]
    /\ medium \in [Files -> SUBSET Contents]
    /\ settled \subseteq Files
    /\ unlinked \subseteq Files

WriterTyped ==
    /\ temp \in Temps
    /\ pc \in Places
    /\ at \in 0..made
    /\ pc # "idle" <=> at # 0

LEMMA TypeParts == TypeOK <=> PageTyped /\ StoreTyped /\ DriveTyped /\ WriterTyped
  BY DEF TypeOK, PageTyped, StoreTyped, DriveTyped, WriterTyped, Phrases

\* A key pair is one that was generated.
LEMMA PairTyped ==
    ASSUME pairs \in Nat, key \in 0..pairs, GetKeyWrapper
    PROVE  pairs' \in Nat /\ key' \in 1..pairs'
  BY DEF GetKeyWrapper

\* The page: a write and an export leave their passphrases and keys typed.
LEMMA StepKeepsPage ==
    ASSUME TypeOK, [Next]_vars
    PROVE  PageTyped'
<1> USE TypeParts DEF PageTyped, StoreTyped
<1>1. ASSUME NEW p \in Phrases, ClickWrite(p)
      PROVE  PageTyped'
  BY <1>1, PairTyped DEF ClickWrite
<1>2. ASSUME NEW p \in Passphrases, Export(p)
      PROVE  PageTyped'
  <2>1. [key |-> key', pass |-> p, after |-> latest]
            \in Exports
    BY <1>2, PairTyped DEF Export, Exports
  <2> QED
    BY <1>2, <2>1, PairTyped DEF Export, store
<1>3. CASE CancelExport
  BY <1>3, PairTyped DEF CancelExport, store
<1>4. CASE SaveRecord \/ WriteTemp \/ Sync \/ Replace \/ Verify \/ Unlink
  BY <1>4 DEF SaveRecord, WriteTemp, Sync, Replace, Verify, Unlink, page, store
<1>5. ASSUME NEW n \in Files, Burn(n) \/ Flush(n)
      PROVE  PageTyped'
  BY <1>5 DEF Burn, Flush, page, store
<1>6. CASE StepFails \/ Unplug \/ Plug
  BY <1>6 DEF StepFails, Fault, Unplug, Plug, page, store
<1>7. CASE EndProgram
  BY <1>7 DEF EndProgram, Fault, store, Phrases
<1>8. CASE UNCHANGED vars
  BY <1>8 DEF vars, page, store
<1> QED
  BY <1>1, <1>2, <1>3, <1>4, <1>5, <1>6, <1>7, <1>8 DEF Next, Phrases

\* The files and their records.
LEMMA StepKeepsStore ==
    ASSUME TypeOK, [Next]_vars
    PROVE  StoreTyped'
<1> USE TypeParts DEF PageTyped, StoreTyped, WriterTyped
<1>1. ASSUME NEW p \in Phrases, ClickWrite(p)
      PROVE  StoreTyped'
  <2>1. [key |-> key', pass |-> p] \in Sealed
    BY <1>1, PairTyped DEF ClickWrite, Sealed, Phrases
  <2> QED
    BY <1>1, <2>1 DEF ClickWrite, Files
<1>2. CASE SaveRecord
  BY <1>2 DEF SaveRecord
<1>3. CASE Verify
  BY <1>3 DEF Verify
<1>4. ASSUME UNCHANGED store
      PROVE  StoreTyped'
  BY <1>4 DEF store
<1>5. ASSUME NEW p \in Passphrases, Export(p)
      PROVE  StoreTyped'
  BY <1>4, <1>5 DEF Export
<1>6. ASSUME NEW n \in Files, Burn(n) \/ Flush(n)
      PROVE  StoreTyped'
  BY <1>4, <1>6 DEF Burn, Flush
<1>7. CASE \/ CancelExport \/ WriteTemp \/ Sync \/ Replace \/ Unlink
           \/ StepFails \/ EndProgram \/ Unplug \/ Plug \/ UNCHANGED vars
  BY <1>4, <1>7 DEF CancelExport, WriteTemp, Sync, Replace, Unlink, StepFails, EndProgram,
                    Unplug, Plug, vars
<1> QED
  BY <1>1, <1>2, <1>3, <1>5, <1>6, <1>7 DEF Next, Phrases

\* A writer that is not idle is at a file.
LEMMA WriterPlace ==
    ASSUME TypeOK, pc # "idle"
    PROVE  at \in Files /\ at \in 1..made
  BY TypeParts DEF StoreTyped, WriterTyped, Files

\* The drive: what may be found on it is a content of a container.
LEMMA StepKeepsDrive ==
    ASSUME TypeOK, [Next]_vars
    PROVE  DriveTyped'
<1> USE TypeParts DEF DriveTyped, WriterTyped, StoreTyped
<1>1. CASE Replace
  <2>1. temp.what \in Contents /\ "torn" \in Contents
    BY DEF Temps, Contents
  <2>2. Replaced(medium[at], temp) \in SUBSET Contents
    <3>1. at \in Files
      BY <1>1, WriterPlace DEF Replace, Files
    <3>2. medium[at] \subseteq Contents
      BY <3>1
    <3> QED
      BY <2>1, <3>2 DEF Replaced
  <2> QED
    BY <1>1, <2>1, <2>2 DEF Replace
<1>2. CASE Unlink
  <2>1. at \in Files
    BY <1>2, WriterPlace DEF Unlink
  <2> QED
    BY <1>2, <2>1 DEF Unlink, Contents
<1>3. ASSUME NEW n \in Files, Flush(n)
      PROVE  DriveTyped'
  BY <1>3 DEF Flush
<1>4. CASE Unplug
  BY <1>4 DEF Unplug
<1>5. CASE Plug
  BY <1>5 DEF Plug
<1>6. ASSUME UNCHANGED drive
      PROVE  DriveTyped'
  BY <1>6 DEF drive
<1>7. ASSUME NEW p \in Phrases, ClickWrite(p)
      PROVE  DriveTyped'
  BY <1>6, <1>7 DEF ClickWrite
<1>8. ASSUME NEW p \in Passphrases, Export(p)
      PROVE  DriveTyped'
  BY <1>6, <1>8 DEF Export
<1>9. ASSUME NEW n \in Files, Burn(n)
      PROVE  DriveTyped'
  BY <1>6, <1>9 DEF Burn
<1>10. CASE \/ CancelExport \/ SaveRecord \/ WriteTemp \/ Sync \/ Verify
            \/ StepFails \/ EndProgram \/ UNCHANGED vars
  BY <1>6, <1>10 DEF CancelExport, SaveRecord, WriteTemp, Sync, Verify, StepFails, EndProgram, vars
<1> QED
  BY <1>1, <1>2, <1>3, <1>4, <1>5, <1>7, <1>8, <1>9, <1>10 DEF Next, Phrases

\* The writer: it is at a file except when it is idle.
LEMMA StepKeepsWriter ==
    ASSUME TypeOK, [Next]_vars
    PROVE  WriterTyped'
<1> USE TypeParts DEF WriterTyped, StoreTyped
<1>1. ASSUME NEW p \in Phrases, ClickWrite(p)
      PROVE  WriterTyped'
  BY <1>1 DEF ClickWrite, Places
<1>2. ASSUME NEW n \in Files, Burn(n)
      PROVE  WriterTyped'
  BY <1>2 DEF Burn, Places, Files, store
<1>3. CASE SaveRecord
  BY <1>3 DEF SaveRecord, Places
<1>4. ASSUME made' = made, at' = at, temp' \in Temps, pc # "idle", pc' # "idle", pc' \in Places
      PROVE  WriterTyped'
  BY <1>4
<1>5. CASE WriteTemp
  <2>1. temp' \in Temps
    <3>1. \A w \in {"stored", "rewritten"} : [what |-> w, synced |-> FALSE] \in Temps
      BY DEF Temps, Contents
    <3>2. \E w \in {"stored", "rewritten"} : temp' = [what |-> w, synced |-> FALSE]
      BY <1>5 DEF WriteTemp
    <3> QED
      BY <3>1, <3>2
  <2>2. pc # "idle" /\ pc' # "idle" /\ pc' \in Places
    BY <1>5 DEF WriteTemp, Places
  <2> QED
    BY <1>4, <1>5, <2>1, <2>2 DEF WriteTemp, store
<1>6. CASE Sync
  <2>1. temp' \in Temps
    BY <1>6 DEF Sync, Synced, Temps
  <2> QED
    BY <1>4, <1>6, <2>1 DEF Sync, Places, store
<1>7. CASE Replace
  <2>1. temp' \in Temps
    BY <1>7 DEF Replace, NoTemp, Temps, Contents
  <2> QED
    BY <1>4, <1>7, <2>1 DEF Replace, Places, store
<1>8. ASSUME made' = made, at' = 0, pc' = "idle", temp' \in Temps
      PROVE  WriterTyped'
  <2>1. 0 \in 0..made
    BY DEF Files
  <2>2. "idle" \in Places
    BY DEF Places
  <2> QED
    BY <1>8, <2>1, <2>2
<1>9. CASE Verify \/ Unlink
  BY <1>8, <1>9 DEF Verify, Unlink, store
<1>10. CASE StepFails \/ EndProgram
  <2>1. temp' = NoTemp /\ NoTemp \in Temps
    BY <1>10 DEF StepFails, EndProgram, Temps, NoTemp, Contents
  <2> QED
    BY <1>8, <1>10, <2>1 DEF StepFails, EndProgram, store
<1>11. CASE Unplug
  BY <1>11 DEF Unplug, Temps, NoTemp, Contents, store
<1>12. ASSUME UNCHANGED writer, made' = made
      PROVE  WriterTyped'
  BY <1>12 DEF writer
<1>13. ASSUME NEW p \in Passphrases, Export(p)
       PROVE  WriterTyped'
  BY <1>12, <1>13 DEF Export, store
<1>14. ASSUME NEW n \in Files, Flush(n)
       PROVE  WriterTyped'
  BY <1>12, <1>14 DEF Flush, store
<1>15. CASE CancelExport \/ Plug \/ UNCHANGED vars
  BY <1>12, <1>15 DEF CancelExport, Plug, vars, store
<1> QED
  BY <1>1, <1>2, <1>3, <1>5, <1>6, <1>7, <1>9, <1>10, <1>11, <1>13, <1>14, <1>15 DEF Next, Phrases

\* The four parts together.
LEMMA StepKeepsType ==
    ASSUME TypeOK, [Next]_vars
    PROVE  TypeOK'
<1>1. PageTyped' /\ StoreTyped' /\ DriveTyped' /\ WriterTyped'
  BY StepKeepsPage, StepKeepsStore, StepKeepsDrive, StepKeepsWriter
<1> QED
  BY <1>1 DEF TypeOK, PageTyped, StoreTyped, DriveTyped, WriterTyped, Phrases

\* Every reachable state of the write path is well typed: each handler of the page,
\* each step of the writers and each fault of the drive keeps it so.
THEOREM TypeCorrect == Spec => []TypeOK
<1>1. Init => TypeOK
  BY DEF Init, TypeOK, Files, Sealed, Exports, Contents, Temps, NoTemp, Places
<1>2. TypeOK /\ [Next]_vars => TypeOK'
  BY StepKeepsType
<1> QED
  BY <1>1, <1>2, PTL DEF Spec

-----------------------------------------------------------------------------
(***************************************************************************)
(* The inductive invariant                                                  *)
(***************************************************************************)

\* A step that leaves the drive alone, and takes no record away, leaves what may be
\* found on the drive safe.
LEMMA QuietDrive ==
    ASSUME MediumSafe, UNCHANGED drive, records \subseteq records'
    PROVE  MediumSafe'
  BY DEF MediumSafe, drive

\* What the drive may hold stays safe: only Replace and Unlink change a destination,
\* only Flush and Unplug decide what is there.
LEMMA StepKeepsMedium ==
    ASSUME IInv, [Next]_vars
    PROVE  MediumSafe'
<1>1. CASE Replace
  <2>1. at \in Files /\ at \in records
    BY <1>1, WriterPlace DEF Replace, IInv, TempSafe
  <2>2. temp.what \in Whole /\ temp.synced
    BY <1>1 DEF Replace, IInv, TempSafe
  <2>3. Replaced(medium[at], temp) = medium[at] \cup {temp.what}
    BY <2>2 DEF Replaced
  <2>4. /\ dest' = [dest EXCEPT ![at] = temp.what]
        /\ medium' = [medium EXCEPT ![at] = medium[at] \cup {temp.what}]
        /\ UNCHANGED <<records, settled, unlinked>>
    BY <1>1, <2>3 DEF Replace, store
  <2>5. temp.what # "absent" /\ temp.what # "torn"
    BY <2>2 DEF Whole
  <2>6. dest \in [Files -> Contents] /\ medium \in [Files -> SUBSET Contents]
    BY DEF IInv, TypeOK
  <2> SUFFICES ASSUME NEW n \in Files
               PROVE  /\ dest'[n] \in medium'[n]
                      /\ "torn" \notin medium'[n]
                      /\ medium'[n] # {"absent"} => n \in records
                      /\ dest'[n] = "absent" => medium'[n] = {"absent"} \/ n \in unlinked
                      /\ n \in settled \ unlinked => "absent" \notin medium'[n]
    BY <2>4 DEF MediumSafe
  <2>7. CASE n = at
    <3>1. dest'[n] = temp.what /\ medium'[n] = medium[n] \cup {temp.what}
      BY <2>4, <2>6, <2>7
    <3> QED
      BY <2>1, <2>5, <2>7, <3>1 DEF IInv, MediumSafe
  <2>8. CASE n # at
    BY <2>4, <2>6, <2>8 DEF IInv, MediumSafe
  <2> QED
    BY <2>7, <2>8
<1>2. CASE Unlink
  <2>1. at \in Files /\ at \in records
    BY <1>2, WriterPlace DEF Unlink, IInv, TempSafe
  <2>2. dest \in [Files -> Contents] /\ medium \in [Files -> SUBSET Contents]
    BY DEF IInv, TypeOK
  <2> QED
    BY <1>2, <2>1, <2>2 DEF Unlink, IInv, MediumSafe, store
<1>3. ASSUME NEW m \in Files, Flush(m)
      PROVE  MediumSafe'
  <2>1. medium \in [Files -> SUBSET Contents]
    BY DEF IInv, TypeOK
  <2> QED
    BY <1>3, <2>1 DEF Flush, IInv, MediumSafe, store
<1>4. CASE Unplug
  BY <1>4 DEF Unplug, IInv, MediumSafe, store
<1>5. CASE Plug
  BY <1>5 DEF Plug, IInv, MediumSafe, store
<1>6. ASSUME NEW p \in Phrases, ClickWrite(p)
      PROVE  MediumSafe'
  BY <1>6, QuietDrive DEF ClickWrite, IInv
<1>7. ASSUME NEW p \in Passphrases, Export(p)
      PROVE  MediumSafe'
  BY <1>7, QuietDrive DEF Export, IInv, store
<1>8. ASSUME NEW n \in Files, Burn(n)
      PROVE  MediumSafe'
  BY <1>8, QuietDrive DEF Burn, IInv, store
<1>9. CASE SaveRecord
  BY <1>9, QuietDrive DEF SaveRecord, IInv
<1>10. CASE \/ CancelExport \/ WriteTemp \/ Sync \/ Verify
            \/ StepFails \/ EndProgram \/ UNCHANGED vars
  BY <1>10, QuietDrive DEF CancelExport, WriteTemp, Sync, Verify, StepFails, EndProgram, vars,
                          IInv, store
<1> QED
  BY <1>1, <1>2, <1>3, <1>4, <1>5, <1>6, <1>7, <1>8, <1>9, <1>10 DEF Next, Phrases

\* The temporary file stays safe, and the file the writer is at has its record.
LEMMA StepKeepsTemp ==
    ASSUME IInv, [Next]_vars
    PROVE  TempSafe'
<1> USE DEF IInv, TempSafe
<1>1. ASSUME NEW p \in Phrases, ClickWrite(p)
      PROVE  TempSafe'
  BY <1>1 DEF ClickWrite
<1>2. ASSUME NEW n \in Files, Burn(n)
      PROVE  TempSafe'
  <2>1. n \in records
    BY <1>2 DEF Burn, MediumSafe
  <2> QED
    BY <1>2, <2>1 DEF Burn, store
<1>3. CASE SaveRecord
  BY <1>3 DEF SaveRecord
<1>4. CASE WriteTemp
  <2>1. temp'.what \in Whole
    <3>1. PICK w \in {"stored", "rewritten"} : temp' = [what |-> w, synced |-> FALSE]
      BY <1>4 DEF WriteTemp
    <3>2. temp'.what = w
      BY <3>1
    <3> QED
      BY <3>2 DEF Whole
  <2>2. at' \in records'
    BY <1>4 DEF WriteTemp, store
  <2> QED
    BY <1>4, <2>1, <2>2 DEF WriteTemp
<1>5. CASE Sync
  <2>1. temp'.what = temp.what /\ temp'.synced
    BY <1>5 DEF Sync, Synced, TypeOK, Temps
  <2>2. at' \in records'
    BY <1>5 DEF Sync, store
  <2>3. temp.what \in Whole
    BY <1>5 DEF Sync
  <2> QED
    BY <1>5, <2>1, <2>2, <2>3
<1>6. CASE Replace
  <2>1. at' \in records'
    BY <1>6 DEF Replace, store
  <2> QED
    BY <1>6, <2>1 DEF Replace
<1>7. CASE Verify \/ Unlink \/ StepFails \/ EndProgram
  BY <1>7 DEF Verify, Unlink, StepFails, EndProgram
<1>8. CASE Unplug
  BY <1>8 DEF Unplug, store
<1>9. ASSUME UNCHANGED <<writer, records>>
      PROVE  TempSafe'
  BY <1>9 DEF writer
<1>10. ASSUME NEW p \in Passphrases, Export(p)
       PROVE  TempSafe'
  BY <1>9, <1>10 DEF Export, store
<1>11. ASSUME NEW n \in Files, Flush(n)
       PROVE  TempSafe'
  BY <1>9, <1>11 DEF Flush, store
<1>12. CASE CancelExport \/ Plug \/ UNCHANGED vars
  BY <1>9, <1>12 DEF CancelExport, Plug, vars, store
<1> QED
  BY <1>1, <1>2, <1>3, <1>4, <1>5, <1>6, <1>7, <1>8, <1>10, <1>11, <1>12 DEF Next, Phrases

\* A page that has written keeps its key pair.
LEMMA KeyKept ==
    ASSUME IInv, latest # 0, GetKeyWrapper
    PROVE  key' = key
  BY DEF IInv, PageSafe, GetKeyWrapper

\* The page remembers the passphrase and the key pair of its latest write, and what
\* it exports opens it.
LEMMA StepKeepsPageSafe ==
    ASSUME IInv, [Next]_vars
    PROVE  PageSafe' /\ ExportOpensLatest'
<1> USE DEF IInv
<1>1. ASSUME NEW p \in Phrases, ClickWrite(p)
      PROVE  PageSafe' /\ ExportOpensLatest'
  <2>1. made' \in Files /\ made' = made + 1 /\ made \in Nat
    BY <1>1 DEF ClickWrite, TypeOK, Files
  <2>2. file'[made'] = [key |-> key', pass |-> p] /\ \A n \in Files : n # made' => file'[n] = file[n]
    BY <1>1, <2>1 DEF ClickWrite, TypeOK
  <2>3. key' # 0
    BY <1>1, PairTyped DEF ClickWrite, TypeOK
  <2>4. \A e \in exported : e.after \in Nat /\ e.after <= made
    BY DEF TypeOK, Exports, PageSafe
  <2>5. \A e \in exported : e.after # 0 => e.after \in Files /\ e.after # made'
    BY <2>1, <2>4 DEF Files, TypeOK
  <2>6. PageSafe'
    BY <1>1, <2>1, <2>2, <2>3, <2>4 DEF ClickWrite, PageSafe
  <2>7. ExportOpensLatest'
    BY <1>1, <2>2, <2>5 DEF ClickWrite, ExportOpensLatest, Opens
  <2> QED
    BY <2>6, <2>7
<1>2. ASSUME NEW p \in Passphrases, Export(p)
      PROVE  PageSafe' /\ ExportOpensLatest'
  <2> DEFINE new == [key |-> key', pass |-> p, after |-> latest]
  <2>1. /\ exported' = exported \cup {new}
        /\ UNCHANGED <<remembered, latest, made, file>>
        /\ GetKeyWrapper
        /\ p \in ExportPassphrase
    BY <1>2 DEF Export, store
  <2>2. latest # 0 => key' = key
    BY <2>1, KeyKept
  <2>3. latest # 0 => Opens(key', p, latest)
    BY <2>1, <2>2 DEF Opens, PageSafe, ExportPassphrase
  <2>4. latest <= made
    BY DEF TypeOK
  <2>5. new.after = latest /\ new.key = key' /\ new.pass = p
    OBVIOUS
  <2> HIDE DEF new
  <2>6. PageSafe'
    BY <2>1, <2>2, <2>4, <2>5 DEF PageSafe
  <2>7. ExportOpensLatest'
    BY <2>1, <2>3, <2>5 DEF ExportOpensLatest, Opens
  <2> QED
    BY <2>6, <2>7
<1>3. CASE CancelExport
  <2>1. UNCHANGED <<remembered, latest, made, file, exported>> /\ GetKeyWrapper
    BY <1>3 DEF CancelExport, store
  <2>2. latest # 0 => key' = key
    BY <2>1, KeyKept
  <2> QED
    BY <2>1, <2>2 DEF PageSafe, ExportOpensLatest, Opens
<1>4. CASE EndProgram
  BY <1>4 DEF EndProgram, PageSafe, ExportOpensLatest, Opens, store
<1>5. ASSUME UNCHANGED <<page, made, file, exported>>
      PROVE  PageSafe' /\ ExportOpensLatest'
  BY <1>5 DEF page, PageSafe, ExportOpensLatest, Opens
<1>6. CASE SaveRecord \/ Verify
  BY <1>5, <1>6 DEF SaveRecord, Verify
<1>7. ASSUME NEW n \in Files, Burn(n) \/ Flush(n)
      PROVE  PageSafe' /\ ExportOpensLatest'
  BY <1>5, <1>7 DEF Burn, Flush, store
<1>8. CASE WriteTemp \/ Sync \/ Replace \/ Unlink \/ StepFails \/ Unplug \/ Plug \/ UNCHANGED vars
  BY <1>5, <1>8 DEF WriteTemp, Sync, Replace, Unlink, StepFails, Unplug, Plug, vars, store
<1> QED
  BY <1>1, <1>2, <1>3, <1>4, <1>6, <1>7, <1>8 DEF Next, Phrases

\* A file is reported after its record was saved.
LEMMA StepKeepsWritten ==
    ASSUME IInv, [Next]_vars
    PROVE  (written \subseteq records)'
<1>1. CASE SaveRecord
  BY <1>1 DEF SaveRecord, IInv
<1>2. CASE Verify
  BY <1>2 DEF Verify, IInv, TempSafe
<1>3. ASSUME UNCHANGED <<written, records>>
      PROVE  (written \subseteq records)'
  BY <1>3 DEF IInv
<1>4. ASSUME NEW p \in Phrases, ClickWrite(p)
      PROVE  (written \subseteq records)'
  BY <1>3, <1>4 DEF ClickWrite
<1>5. ASSUME NEW p \in Passphrases, Export(p)
      PROVE  (written \subseteq records)'
  BY <1>3, <1>5 DEF Export, store
<1>6. ASSUME NEW n \in Files, Burn(n) \/ Flush(n)
      PROVE  (written \subseteq records)'
  BY <1>3, <1>6 DEF Burn, Flush, store
<1>7. CASE \/ CancelExport \/ WriteTemp \/ Sync \/ Replace \/ Unlink
           \/ StepFails \/ EndProgram \/ Unplug \/ Plug \/ UNCHANGED vars
  BY <1>3, <1>7 DEF CancelExport, WriteTemp, Sync, Replace, Unlink, StepFails, EndProgram,
                    Unplug, Plug, vars, store
<1> QED
  BY <1>1, <1>2, <1>4, <1>5, <1>6, <1>7 DEF Next, Phrases

\* What the handlers of the page, the two writers and the faults of the drive all keep:
\* the types, the safety of the drive and of the temporary file, and the page's memory.
THEOREM Inductive == Spec => []IInv
<1>1. Init => IInv
  <2> SUFFICES ASSUME Init
               PROVE  IInv
    OBVIOUS
  <2>1. TypeOK
    BY DEF Init, TypeOK, Files, Sealed, Exports, Contents, Temps, NoTemp, Places
  <2>2. MediumSafe
    BY DEF Init, MediumSafe
  <2>3. TempSafe /\ PageSafe /\ written \subseteq records /\ ExportOpensLatest
    BY DEF Init, TempSafe, PageSafe, ExportOpensLatest
  <2> QED
    BY <2>1, <2>2, <2>3 DEF IInv
<1>2. TypeOK /\ [Next]_vars => TypeOK'
  BY StepKeepsType
<1>3. IInv /\ [Next]_vars => IInv'
  <2> SUFFICES ASSUME IInv, [Next]_vars
               PROVE  IInv'
    OBVIOUS
  <2>1. TypeOK'
    BY <1>2 DEF IInv
  <2>2. MediumSafe' /\ TempSafe'
    BY StepKeepsMedium, StepKeepsTemp
  <2>3. PageSafe' /\ ExportOpensLatest' /\ (written \subseteq records)'
    BY StepKeepsPageSafe, StepKeepsWritten
  <2> QED
    BY <2>1, <2>2, <2>3 DEF IInv
<1> QED
  BY <1>1, <1>3, PTL DEF Spec

-----------------------------------------------------------------------------
(***************************************************************************)
(* The promises                                                             *)
(***************************************************************************)

\* write_container and rewrite_container_in_place: no container is torn, wherever a
\* write stops and whenever the drive is pulled out.
THEOREM NoContainerTorn == Spec => []NeverTorn
<1>1. IInv => NeverTorn
  BY DEF IInv, MediumSafe, NeverTorn
<1> QED
  BY <1>1, Inductive, PTL

\* rewrite_container_in_place: a rewrite that is cut off leaves the container as it was
\* or as it was to be.
THEOREM RewriteLosesNothing == Spec => []KeptThroughRewrite
<1>1. IInv => KeptThroughRewrite
  <2> SUFFICES ASSUME IInv, NEW n \in settled \ unlinked
               PROVE  dest[n] \in Whole
    BY DEF KeptThroughRewrite
  <2>1. n \in Files /\ dest[n] \in Contents
    BY DEF IInv, TypeOK
  <2>2. dest[n] # "absent" /\ dest[n] # "torn"
    BY <2>1 DEF IInv, MediumSafe
  <2> QED
    BY <2>1, <2>2 DEF Contents, Whole
<1> QED
  BY <1>1, Inductive, PTL

\* store_file saves the record before it writes the container: no container and no
\* reported write is without one.
THEOREM EveryContainerRecorded == Spec => []RecordOfEveryContainer
<1>1. IInv => RecordOfEveryContainer
  BY DEF IInv, MediumSafe, RecordOfEveryContainer
<1> QED
  BY <1>1, Inductive, PTL

\* _on_export_key_clicked: a key exported after a write opens the file of that write.
THEOREM ExportOpens == Spec => []ExportOpensLatest
<1>1. IInv => ExportOpensLatest
  BY DEF IInv
<1> QED
  BY <1>1, Inductive, PTL
=============================================================================
