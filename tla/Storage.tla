------------------------------ MODULE Storage -------------------------------
(***************************************************************************)
(* The write path: the Encrypt page stores a file as a container on a USB   *)
(* drive and exports the private key that opens it; a view of a one-time    *)
(* file rewrites the container and then removes it.                         *)
(*                                                                          *)
(* Both writers go through a temporary file: write, sync, replace.  The     *)
(* drive can be pulled out, and the program can die, between any two steps. *)
(* What was synced is on the medium; a name that was replaced or removed is *)
(* there only once the operating system has written its directory, so       *)
(* medium[n] is the set of what may be found under the n-th name when the   *)
(* drive comes back.                                                        *)
(*                                                                          *)
(* An operator whose name begins with Slip is a plausible slip in the code  *)
(* of the operator after it; no action uses it.                             *)
(***************************************************************************)
EXTENDS Naturals, FiniteSets

CONSTANTS
    Passphrases,    \* passphrases the user may type, all long enough
    NoPassphrase,   \* a prompt that was cancelled or answered too short
    MaxFiles,       \* bound: how many writes are begun
    MaxFaults,      \* bound: how many steps fail, drives are pulled, programs end
    MaxExports,     \* bound: how many keys are exported
    MaxPairs        \* bound: how many pairs exist when an export is cancelled

ASSUME StorageAssumption ==
    /\ NoPassphrase \notin Passphrases
    /\ MaxFiles \in Nat
    /\ MaxFaults \in Nat
    /\ MaxExports \in Nat
    /\ MaxPairs \in Nat

VARIABLES
    pairs,      \* how many key pairs were ever generated
    key,        \* the page's key pair, 0 before its first use
    remembered, \* the page's _last_write_passphrase
    latest,     \* the last write this page began, 0 if none
    made,       \* how many writes were begun; a write draws a fresh file id
    file,       \* what each was sealed with
    records,    \* the files that the metadata table has a record of
    written,    \* the files that the page reported as written
    attached,   \* the drive is plugged in
    dest,       \* what programs read at the destination of each file
    medium,     \* what may be found there if the drive is pulled now
    settled,    \* the files that were ever on the medium for certain
    unlinked,   \* the files that were removed on purpose
    temp,       \* the temporary file of the writer
    pc,         \* where the writer is
    at,         \* the file it writes
    exported,   \* the private keys that were exported, and when
    faults      \* how many faults there were

page   == <<pairs, key, remembered, latest>>
drive  == <<attached, dest, medium, settled, unlinked>>
writer == <<temp, pc, at>>
store  == <<made, file, records, written>>
vars   == <<page, store, drive, writer, exported, faults>>

Files == 1..MaxFiles

\* What may be at a name: nothing, a torn file, a container as it was stored, or
\* one whose portable section was rewritten.
Contents == {"absent", "torn", "stored", "rewritten"}
Whole    == {"stored", "rewritten"}

Sealed  == [key : Nat, pass : Passphrases \cup {NoPassphrase}]
Exports == [key : Nat, pass : Passphrases, after : Nat]
Temps   == [what : Contents, synced : BOOLEAN]
NoTemp  == [what |-> "absent", synced |-> FALSE]
Places  == {"idle", "saving", "validating", "syncing", "replacing", "verifying",
            "rewriting", "resyncing", "replacing again", "unlinking"}

TypeOK ==
    /\ pairs \in Nat
    /\ key \in 0..pairs
    /\ remembered \in Passphrases \cup {NoPassphrase}
    /\ made \in 0..MaxFiles
    /\ latest \in 0..made
    /\ file \in [Files -> Sealed]
    /\ records \subseteq 1..made
    /\ written \subseteq 1..made
    /\ attached \in BOOLEAN
    /\ dest \in [Files -> Contents]
    /\ medium \in [Files -> SUBSET Contents]
    /\ settled \subseteq Files
    /\ unlinked \subseteq Files
    /\ temp \in Temps
    /\ pc \in Places
    /\ at \in 0..made
    /\ pc # "idle" <=> at # 0
    /\ exported \subseteq Exports
    /\ faults \in Nat

Init ==
    /\ pairs = 0 /\ key = 0
    /\ remembered = NoPassphrase
    /\ latest = 0
    /\ made = 0
    /\ file = [n \in Files |-> [key |-> 0, pass |-> NoPassphrase]]
    /\ records = {} /\ written = {}
    /\ attached = TRUE
    /\ dest = [n \in Files |-> "absent"]
    /\ medium = [n \in Files |-> {"absent"}]
    /\ settled = {} /\ unlinked = {}
    /\ temp = NoTemp
    /\ pc = "idle"
    /\ at = 0
    /\ exported = {}
    /\ faults = 0

-----------------------------------------------------------------------------
(***************************************************************************)
(* The page                                                                 *)
(***************************************************************************)

\* _get_key_wrapper: one pair per page, generated at its first use.
GetKeyWrapper ==
    \/ key # 0 /\ UNCHANGED <<pairs, key>>
    \/ key = 0 /\ pairs' = pairs + 1 /\ key' = pairs'

\* A click on Write: the passphrase is remembered as it was typed, before anything
\* is written; a cancelled prompt clears the memory.
ClickWrite(p) ==
    /\ pc = "idle"
    /\ made < MaxFiles
    /\ GetKeyWrapper
    /\ remembered' = p
    /\ made' = made + 1
    /\ latest' = made'
    /\ at' = made'
    /\ file' = [file EXCEPT ![made'] = [key |-> key', pass |-> p]]
    /\ pc' = "saving"
    /\ UNCHANGED <<records, written, drive, temp, exported, faults>>

\* Export asks for a passphrase only if none is remembered.
SlipExportPassphrase == Passphrases
ExportPassphrase == IF remembered = NoPassphrase THEN Passphrases ELSE {remembered}

Export(p) ==
    /\ pc = "idle"
    /\ Cardinality(exported) < MaxExports
    /\ GetKeyWrapper
    /\ p \in ExportPassphrase
    /\ exported' = exported \cup {[key    |-> key',
                                  pass   |-> p,
                                  after  |-> latest]}
    /\ UNCHANGED <<remembered, latest, store, drive, writer, faults>>

\* The key pair is generated before anything is asked: a cancelled export leaves it.
CancelExport ==
    /\ pc = "idle"
    /\ pairs < MaxPairs
    /\ GetKeyWrapper
    /\ UNCHANGED <<remembered, latest, store, drive, writer, exported, faults>>

-----------------------------------------------------------------------------
(***************************************************************************)
(* The writer                                                               *)
(***************************************************************************)

\* store_file: the source is read and encrypted, and the record is saved before
\* the drive is touched.
SlipSaveRecord ==
    /\ pc = "saving"
    /\ pc' = "validating"
    /\ UNCHANGED <<page, store, drive, temp, at, exported, faults>>
SaveRecord ==
    /\ pc = "saving"
    /\ records' = records \cup {at}
    /\ pc' = "validating"
    /\ UNCHANGED <<page, made, file, written, drive, temp, at, exported, faults>>

\* A one-time file was viewed: through its portable section, which is rewritten, or
\* through the local record.  Either way its container is removed afterwards.
Burn(n) ==
    /\ pc = "idle"
    /\ attached
    /\ n <= made
    /\ dest[n] = "stored"
    /\ at' = n
    /\ pc' = IF file[n].pass = NoPassphrase THEN "unlinking" ELSE "rewriting"
    /\ UNCHANGED <<page, store, drive, temp, exported, faults>>

\* The device is found to be attached, and the temporary file is written.
WriteTemp ==
    /\ attached
    /\ \/ pc = "validating" /\ pc' = "syncing" /\ temp' = [what |-> "stored", synced |-> FALSE]
       \/ pc = "rewriting" /\ pc' = "resyncing" /\ temp' = [what |-> "rewritten", synced |-> FALSE]
    /\ UNCHANGED <<page, store, drive, at, exported, faults>>

\* flush and fsync.
SlipSynced(t) == t
Synced(t) == [t EXCEPT !.synced = TRUE]
Sync ==
    /\ attached
    /\ temp # NoTemp
    /\ \/ pc = "syncing" /\ pc' = "replacing"
       \/ pc = "resyncing" /\ pc' = "replacing again"
    /\ temp' = Synced(temp)
    /\ UNCHANGED <<page, store, drive, at, exported, faults>>

\* What a drive pulled out after os.replace may hold: what it held, or the
\* temporary file as far as it was synced.
SlipReplaced(found, t) == found \cup {"absent", t.what}
Replaced(found, t) == found \cup {t.what} \cup (IF t.synced THEN {} ELSE {"torn"})
Replace ==
    /\ attached
    /\ temp # NoTemp
    /\ \/ pc = "replacing" /\ pc' = "verifying"
       \/ pc = "replacing again" /\ pc' = "unlinking"
    /\ dest' = [dest EXCEPT ![at] = temp.what]
    /\ medium' = [medium EXCEPT ![at] = Replaced(medium[at], temp)]
    /\ temp' = NoTemp
    /\ UNCHANGED <<page, store, attached, settled, unlinked, at, exported, faults>>

\* verify_container: what was written is read back, and the page reports it.
Verify ==
    /\ pc = "verifying"
    /\ attached
    /\ dest[at] = "stored"
    /\ written' = written \cup {at}
    /\ pc' = "idle"
    /\ at' = 0
    /\ UNCHANGED <<page, made, file, records, drive, temp, exported, faults>>

\* The container of a burned file is removed, if it can be.
Unlink ==
    /\ pc = "unlinking"
    /\ attached
    /\ dest' = [dest EXCEPT ![at] = "absent"]
    /\ medium' = [medium EXCEPT ![at] = @ \cup {"absent"}]
    /\ unlinked' = unlinked \cup {at}
    /\ pc' = "idle"
    /\ at' = 0
    /\ UNCHANGED <<page, store, attached, settled, temp, exported, faults>>

\* The next step cannot but fail.
Doomed ==
    \/ ~attached
    \/ temp = NoTemp /\ pc \in {"syncing", "resyncing", "replacing", "replacing again"}
    \/ dest[at] # "stored" /\ pc = "verifying"

Fault == faults < MaxFaults /\ faults' = faults + 1

\* A step fails: the source or the device cannot be read or written, the commit is
\* refused, the verification finds another content.  The temporary file is removed;
\* a saved record, a replaced destination and the remembered passphrase stay.
StepFails ==
    /\ pc # "idle"
    /\ \/ Doomed /\ UNCHANGED faults
       \/ ~Doomed /\ Fault
    /\ temp' = NoTemp
    /\ pc' = "idle"
    /\ at' = 0
    /\ UNCHANGED <<page, store, drive, exported>>

\* The program ends or dies, or its window is replaced: the page's key pair and
\* passphrase were in memory only.
EndProgram ==
    /\ \/ pc = "idle" /\ UNCHANGED faults
       \/ pc # "idle" /\ Fault
    /\ key' = 0
    /\ remembered' = NoPassphrase
    /\ latest' = 0
    /\ temp' = NoTemp
    /\ pc' = "idle"
    /\ at' = 0
    /\ UNCHANGED <<pairs, store, drive, exported>>

-----------------------------------------------------------------------------
(***************************************************************************)
(* The drive                                                                *)
(***************************************************************************)

\* The operating system has written the directory.
Flush(n) ==
    /\ attached
    /\ medium[n] # {dest[n]}
    /\ medium' = [medium EXCEPT ![n] = {dest[n]}]
    /\ settled' = settled \cup {n}
    /\ UNCHANGED <<page, store, attached, dest, unlinked, writer, exported, faults>>

Unplug ==
    /\ attached
    /\ Fault
    /\ attached' = FALSE
    /\ dest' \in {d \in [Files -> Contents] : \A n \in Files : d[n] \in medium[n]}
    /\ medium' = [n \in Files |-> {dest'[n]}]
    /\ settled' = settled \cup {n \in Files : dest'[n] # "absent"}
    /\ temp' = NoTemp
    /\ UNCHANGED <<page, store, unlinked, pc, at, exported>>

Plug ==
    /\ ~attached
    /\ attached' = TRUE
    /\ UNCHANGED <<page, store, dest, medium, settled, unlinked, writer, exported, faults>>

-----------------------------------------------------------------------------
Next ==
    \/ \E p \in Passphrases \cup {NoPassphrase} : ClickWrite(p)
    \/ \E p \in Passphrases : Export(p)
    \/ CancelExport
    \/ SaveRecord \/ WriteTemp \/ Sync \/ Replace \/ Verify
    \/ \E n \in Files : Burn(n)
    \/ Unlink
    \/ StepFails \/ EndProgram
    \/ \E n \in Files : Flush(n)
    \/ Unplug \/ Plug

Spec == Init /\ [][Next]_vars

-----------------------------------------------------------------------------
(***************************************************************************)
(* What the write path promises                                             *)
(***************************************************************************)

\* "a crash or an unplugged drive mid-write never leaves a half-written, corrupt
\* container in place of a good one": no container is torn, whichever step of a
\* write or a rewrite the drive was pulled out at.
NeverTorn == \A n \in Files : dest[n] # "torn"

\* A container that was once on the medium is there, as it was stored or as it was
\* rewritten, until it is removed on purpose: a rewrite that is cut off loses nothing.
KeptThroughRewrite == \A n \in settled \ unlinked : dest[n] \in Whole

\* The local record is saved first: every container at a destination, and every
\* file that was reported as written, has one to be validated against.
RecordOfEveryContainer ==
    \A n \in Files : dest[n] # "absent" \/ n \in written => n \in records

\* The key pair opens a file's content; the passphrase it was exported under opens
\* the file's portable section, which a view of a file that has one goes by.
Opens(k, p, n) == file[n].key = k /\ file[n].pass \in {p, NoPassphrase}

\* A key exported after a write opens that file, with the passphrase it was
\* exported under: no write, export or restart in between changes the key pair,
\* and a remembered passphrase is never that of an earlier file.
ExportOpensLatest ==
    \A e \in exported : e.after # 0 => Opens(e.key, e.pass, e.after)

(***************************************************************************)
(* The inductive invariant                                                  *)
(***************************************************************************)

\* What may be on the medium: nothing torn, nothing without a record, and, of a
\* container that was there for certain, a whole one.
MediumSafe ==
    \A n \in Files :
        /\ dest[n] \in medium[n]
        /\ "torn" \notin medium[n]
        /\ medium[n] # {"absent"} => n \in records
        /\ dest[n] = "absent" => medium[n] = {"absent"} \/ n \in unlinked
        /\ n \in settled \ unlinked => "absent" \notin medium[n]

\* A temporary file that is about to replace a container is synced, or is gone.
TempSafe ==
    /\ temp = NoTemp \/ temp.what \in Whole
    /\ pc \in {"replacing", "replacing again"} => temp = NoTemp \/ temp.synced
    /\ pc \notin {"idle", "saving"} => at \in records

\* The latest write of the page was sealed with the page's key pair and under the
\* passphrase it remembers; no key was exported after a write that is yet to come.
PageSafe ==
    /\ latest # 0 => file[latest] = [key |-> key, pass |-> remembered] /\ key # 0
    /\ \A e \in exported : e.after <= made

IInv ==
    /\ TypeOK
    /\ MediumSafe
    /\ TempSafe
    /\ PageSafe
    /\ written \subseteq records
    /\ ExportOpensLatest
=============================================================================
