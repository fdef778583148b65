------------------------------ MODULE UsageLog ------------------------------
(***************************************************************************)
(* The tamper-evident usage log: rows of SQLite, each encrypted and chained *)
(* to the row before it by an HMAC over that row's HMAC, its own nonce and  *)
(* its own ciphertext.                                                      *)
(*                                                                          *)
(* A row is appended when the window of a view closes, or at once for a     *)
(* rebind, by the UsageTracker that the main window was built with.  The    *)
(* log outlives windows and is cleared when the account is deleted, while   *)
(* a view's window is a window of its own and outlives the main window.     *)
(* Whoever can write to the database file can rewrite rows; the chain is    *)
(* there to notice.                                                         *)
(*                                                                          *)
(* The n-th seal draws a fresh nonce, so n stands for its nonce, for its    *)
(* ciphertext and for its HMAC; seals[n] says what that HMAC was computed   *)
(* over.  An HMAC that was never computed verifies for nothing.             *)
(*                                                                          *)
(* An operator whose name begins with Slip is a plausible slip in the code  *)
(* of the operator after it; no action uses it.                             *)
(***************************************************************************)
EXTENDS Naturals, Sequences, FiniteSets

CONSTANTS
    Garbage,    \* bytes that are no HMAC and no ciphertext of this program
    MaxAccounts,\* bound: how many accounts are registered, one after the other
    MaxSeals,   \* bound: how many entries are sealed
    MaxEdits    \* bound: how many rows are rewritten from outside

ASSUME UsageLogAssumption ==
    /\ Garbage \notin Nat
    /\ MaxAccounts \in Nat
    /\ MaxSeals \in Nat
    /\ MaxEdits \in Nat

VARIABLES
    log,        \* the rows of usage_log, by id
    seals,      \* per seal: the keys, the link it was computed over, and its past
    pairs,      \* how many pairs of tracking keys were ever drawn
    keys,       \* the pair stored for the account, 0 if there is no account
    tracker,    \* the pair of the main window's UsageTracker, 0 without a window
    viewers,    \* the pairs whose tracker awaits the closing of a view
    pc,         \* where the program is
    edits,      \* how many rows were rewritten from outside
    edited,     \* the log was rewritten from outside since it was last empty
    strayed     \* an entry of an account that is gone was appended since then

window == <<pairs, keys, tracker>>
vars   == <<log, seals, window, viewers, pc, edits, edited, strayed>>

GENESIS_HMAC == 0

\* What may stand in a field of a row: a seal's value, zeros, or garbage.
Known == (0..Len(seals)) \cup {Garbage}
ChainedLogEntry == [prev_hmac : Nat \cup {Garbage},
                    body      : Nat \cup {Garbage},
                    entry_hmac: Nat \cup {Garbage}]

Places == {"signed out", "main", "cleared", "leaving"}

Seals == [keys : Nat, prev_hmac : Nat \cup {Garbage}, chain : Seq(ChainedLogEntry)]

TablesTyped ==
    /\ log \in Seq(ChainedLogEntry)
    /\ seals \in Seq(Seals)

WindowsTyped ==
    /\ pairs \in Nat
    /\ keys \in 0..pairs
    /\ tracker \in {0, keys}
    /\ viewers \subseteq 1..pairs
    /\ pc \in Places
    /\ edits \in Nat
    /\ edited \in BOOLEAN
    /\ strayed \in BOOLEAN

TypeOK == TablesTyped /\ WindowsTyped

Init ==
    /\ log = <<>>
    /\ seals = <<>>
    /\ pairs = 0
    /\ keys = 0
    /\ tracker = 0
    /\ viewers = {}
    /\ pc = "signed out"
    /\ edits = 0
    /\ edited = FALSE
    /\ strayed = FALSE

-----------------------------------------------------------------------------
(***************************************************************************)
(* TamperEvidentLog                                                         *)
(***************************************************************************)

\* The HMAC of an entry is the one computed with these keys over its fields.
VerifyEntry(k, e) ==
    /\ e.entry_hmac \in 1..Len(seals)
    /\ seals[e.entry_hmac].keys = k
    /\ seals[e.entry_hmac].prev_hmac = e.prev_hmac
    /\ e.body = e.entry_hmac

\* The i-th entry links to the one before it, and its HMAC verifies.
SlipFollows(k, s, i) == VerifyEntry(k, s[i])
Follows(k, s, i) ==
    /\ s[i].prev_hmac = IF i = 1 THEN GENESIS_HMAC ELSE s[i - 1].entry_hmac
    /\ VerifyEntry(k, s[i])

\* The first verified_count entries follow from each other.
SlipVerifyChain(k, s) ==
    [ok             |-> \A i \in 1..Len(s) : i + 1 >= Len(s) => Follows(k, s, i),
     verified_count |-> Len(s)]
VerifyChain(k, s) ==
    [ok             |-> \A i \in 1..Len(s) : Follows(k, s, i),
     verified_count |-> Cardinality({n \in 1..Len(s) : \A i \in 1..n : Follows(k, s, i)})]

\* The row that the n-th seal made.
SealedEntry(n) == [prev_hmac |-> seals[n].prev_hmac, body |-> n, entry_hmac |-> n]

\* TrackingRepository.last_entry_hmac: what the next entry is chained to, unverified.
SlipLastEntryHmac == IF log = <<>> THEN GENESIS_HMAC ELSE log[1].entry_hmac
LastEntryHmac == IF log = <<>> THEN GENESIS_HMAC ELSE log[Len(log)].entry_hmac

\* History: the rows that a row with this HMAC was sealed behind, and that row.
Behind(hmac) == IF hmac \in 1..Len(seals) THEN seals[hmac].chain ELSE <<>>

\* seal and append: nothing runs between reading the last HMAC and the insert.
AppendEntry(k) ==
    LET n     == Len(seals) + 1
        entry == [prev_hmac |-> LastEntryHmac, body |-> n, entry_hmac |-> n]
    IN /\ Len(seals) < MaxSeals
       /\ seals' = Append(seals, [keys      |-> k,
                                  prev_hmac |-> LastEntryHmac,
                                  chain     |-> Append(Behind(LastEntryHmac), entry)])
       /\ log' = Append(log, entry)
       /\ strayed' = (strayed \/ k # keys)

-----------------------------------------------------------------------------
(***************************************************************************)
(* The windows that write to it                                             *)
(***************************************************************************)

\* load_or_create_tracking_protection_keys: the stored pair, or a new one.
SlipLoadOrCreateKeys ==
    /\ tracker' = IF keys = 0 THEN pairs + 1 ELSE keys
    /\ UNCHANGED <<keys, pairs>>
LoadOrCreateKeys ==
    \/ /\ keys # 0
       /\ tracker' = keys
       /\ UNCHANGED <<keys, pairs>>
    \/ /\ keys = 0
       /\ pairs < MaxAccounts
       /\ pairs' = pairs + 1
       /\ keys' = pairs'
       /\ tracker' = pairs'

\* Signing in or registering: a main window and its tracker are built.
SignIn ==
    /\ pc = "signed out"
    /\ LoadOrCreateKeys
    /\ pc' = "main"
    /\ UNCHANGED <<log, seals, viewers, edits, edited, strayed>>

\* A view is validated: its record is closed when its window is.  The page keeps
\* one window; opening another drops the one before it, unclosed.
StartSession ==
    /\ pc = "main"
    /\ viewers' = viewers \cup {tracker}
    /\ UNCHANGED <<log, seals, window, pc, edits, edited, strayed>>

\* The window of a view closes, by the user or by the capture watcher: the
\* tracker it was opened with seals its record.
RecordClose(k) ==
    /\ pc # "cleared"
    /\ k \in viewers
    /\ viewers' = viewers \ {k}
    /\ AppendEntry(k)
    /\ UNCHANGED <<window, pc, edits, edited>>

\* The insert fails, or the window goes without being closed: no entry.
LoseSession(k) ==
    /\ pc # "cleared"
    /\ k \in viewers
    /\ viewers' = viewers \ {k}
    /\ UNCHANGED <<log, seals, window, pc, edits, edited, strayed>>

\* A rebind is an entry of its own, sealed at once.
RecordDeviceRebind ==
    /\ pc = "main"
    /\ AppendEntry(tracker)
    /\ UNCHANGED <<window, viewers, pc, edits, edited>>

\* delete_account, first part: every row of the log goes.
Clear ==
    /\ pc = "main"
    /\ log' = <<>>
    /\ edited' = FALSE
    /\ strayed' = FALSE
    /\ pc' = "cleared"
    /\ UNCHANGED <<seals, window, viewers, edits>>

\* Second part: the account's row goes, the main window is hidden and a new
\* account is awaited.  The window of a view stays as it is.
DeleteAccountRow ==
    /\ pc = "cleared"
    /\ keys' = 0
    /\ tracker' = 0
    /\ pc' = "signed out"
    /\ UNCHANGED <<log, seals, pairs, viewers, edits, edited, strayed>>

\* A commit after the clearing fails: the account stays, with an empty log.
DeleteFails ==
    /\ pc = "cleared"
    /\ pc' = "main"
    /\ UNCHANGED <<log, seals, window, viewers, edits, edited, strayed>>

\* The main window closes; the program ends when its last window has.
CloseWindow ==
    /\ pc = "main"
    /\ tracker' = 0
    /\ pc' = "leaving"
    /\ UNCHANGED <<log, seals, pairs, keys, viewers, edits, edited, strayed>>

\* The program ends or dies; records in memory are lost.
Exit ==
    /\ viewers' = {}
    /\ tracker' = 0
    /\ pc' = "signed out"
    /\ UNCHANGED <<log, seals, pairs, keys, edits, edited, strayed>>

-----------------------------------------------------------------------------
(***************************************************************************)
(* Rows rewritten from outside the program                                  *)
(***************************************************************************)
Rewrite(rows) ==
    /\ edits < MaxEdits
    /\ log' = rows
    /\ edits' = edits + 1
    /\ edited' = TRUE
    /\ UNCHANGED <<seals, window, viewers, pc, strayed>>

\* A field of a row is set to a value that is known; a row that was ever sealed, or is
\* there, is put anywhere; a row is removed; two rows change places.
Columns == {"prev_hmac", "body", "entry_hmac"}
KnownRows == {log[i] : i \in 1..Len(log)}
                \cup {SealedEntry(n) : n \in 1..Len(seals)}

ModifyRow == \E i \in 1..Len(log), c \in Columns, v \in Known : Rewrite([log EXCEPT ![i][c] = v])
InsertRow == \E i \in 0..Len(log), e \in KnownRows :
                 Rewrite(SubSeq(log, 1, i) \o <<e>> \o SubSeq(log, i + 1, Len(log)))
RemoveRow == \E i \in 1..Len(log) : Rewrite(SubSeq(log, 1, i - 1) \o SubSeq(log, i + 1, Len(log)))
SwapRows  == \E i, j \in 1..Len(log) :
                 i < j /\ Rewrite([log EXCEPT ![i] = log[j], ![j] = log[i]])

Tamper == ModifyRow \/ InsertRow \/ RemoveRow \/ SwapRows

-----------------------------------------------------------------------------
Next ==
    \/ SignIn
    \/ StartSession
    \/ \E k \in viewers : RecordClose(k) \/ LoseSession(k)
    \/ RecordDeviceRebind
    \/ Clear \/ DeleteAccountRow \/ DeleteFails
    \/ CloseWindow \/ Exit
    \/ Tamper

Spec == Init /\ [][Next]_vars

-----------------------------------------------------------------------------
(***************************************************************************)
(* What the log promises                                                    *)
(***************************************************************************)

\* A log that verify_chain accepts is, row by row, what the program wrote up to its
\* last row: no row was modified, inserted, reordered or removed before it, in
\* however many rewrites, and whatever was appended in between.
VerifiedIsWritten ==
    (log # <<>> /\ VerifyChain(keys, log).ok) => log = Behind(LastEntryHmac)

\* A log nobody rewrote, with entries of the present account only, verifies to its
\* last row: closing views, rebinding, restarting and a deletion that stops half
\* way raise no alarm.
UntouchedVerifies ==
    (keys # 0 /\ ~edited /\ ~strayed) =>
        VerifyChain(keys, log) = [ok |-> TRUE, verified_count |-> Len(log)]

\* What the program appends to a log that fails its check does not mend it, nor
\* does it move the entry that verify_chain reports: only clearing the log, a
\* further rewrite or another account's keys can change the verdict.
AlarmPersists ==
    [][(keys' = keys /\ edits' = edits /\ pc' # "cleared" /\ ~VerifyChain(keys, log).ok)
       => VerifyChain(keys, log)' = VerifyChain(keys, log)]_vars

(***************************************************************************)
(* The inductive invariant, but for the part about every sequence of rows,  *)
(* which is in module UsageLogProofs                                        *)
(***************************************************************************)

\* A seal is linked to an earlier one, to zeros or to garbage, and its past is what
\* that earlier one's was, and itself.
SealsLinkBack ==
    \A n \in 1..Len(seals) :
        /\ seals[n].prev_hmac \in 0..n - 1 \cup {Garbage}
        /\ seals[n].chain = Append(Behind(seals[n].prev_hmac), SealedEntry(n))

\* No row holds an HMAC that is yet to be computed.
RowsKnown == \A i \in 1..Len(log) : log[i].entry_hmac \in Known

\* The tracker of the main window has the account's keys.
TrackerIsCurrent == pc \in {"main", "cleared"} => (keys # 0 /\ tracker = keys)

\* An untouched log is the present account's, and empty where there is none or
\* where it was just cleared.
Untouched ==
    (~edited /\ ~strayed) =>
        /\ \A i \in 1..Len(log) : Follows(keys, log, i)
        /\ (keys = 0 \/ pc = "cleared") => log = <<>>

\* TypeOK and what makes the log's promises inductive: the seals form a tree, rows
\* hold no HMAC of the future, and an untouched log is a path of the tree.
IInv == TypeOK /\ SealsLinkBack /\ RowsKnown /\ TrackerIsCurrent /\ Untouched

-----------------------------------------------------------------------------
(***************************************************************************)
(* What the documentation says of it                                        *)
(***************************************************************************)

\* Clearing the log with the account keeps a new account from a false alarm
\* (auth_controller.py:276-285, repository.py:10-17): a log that nobody
\* rewrote passes the check.
NoFalseAlarm == (keys # 0 /\ ~edited) => VerifyChain(keys, log).ok
=============================================================================
