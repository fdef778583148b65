# crypto-usb: specifications, model checking and proofs

crypto-usb is a desktop program (Python, PySide6, SQLite) that encrypts files
into `.cusc` containers on USB drives and shows them again in a guarded window.
Access is governed by metadata kept apart from the content, wrong credentials
lead to fabricated ("deceptive") content instead of an error, one-time files are
"burned" at their first view, and every view is sealed into a hash-chained log.

This directory holds TLA+ models of the program, the TLC configurations that
check them on small instances, and TLAPS proofs of what holds for all of them.
Paths below are relative to `src/`.

Run from here: `tlc -config MCVault.cfg MCVault`, `tlapm VaultProofs.tla`.

## 1. Inventory

| component | source | state | operations | modelled in |
|---|---|---|---|---|
| Account, authentication | `security/auth_controller.py`, `account_repository.py`, `models.py` | one `accounts` row: method, hash, wrap salt, recovery hash, failed attempts, lock | register, sign in, verify, change or reset the password, delete | `Vault` |
| Dialogs of an account | `ui/dialogs/`, `ui/pages/settings_page.py` | the pair and passphrase of a pending registration, the countdown of the deletion | the same, with what the user is shown and told | `SignIn` |
| Vault master key, protection keys | `app/protection_keys.py` | rows of `app_meta`: two slots of the vault master key (VMK), four wrapped protection keys | open or mint the VMK, load or create key pairs, rewrap | `Vault` |
| Lockout | `security/lockout_policy.py` | two fields of the account | register failure or success, is locked | `Lockout`, run by `SignIn` |
| Metadata store | `metadata/repository.py`, `controller.py`, `protection.py`, `portable_*` | sealed record per file: a database row, and a portable section inside a container | save, load, seal, unseal, record an access | `Access`, `Vault`; policy: `Gate` |
| File access | `usb/secure_access_service.py`, `crypto/secure_decryptor.py` | none of its own | `attempt_access` | `Access`; its checks: `Gate` |
| Validation | `validation/` | none | policy, device and machine checks; identifier, descriptor | `Gate` |
| One-time access | `metadata/one_time_access.py` | writes every copy of a record | `burn` | `Access` |
| Device rebind | `metadata/device_rebind.py` | writes the record | `rebind` | `Gate`; as the page calls it: `Access` |
| Mismatch throttle | `security/device_mismatch_throttle.py` | in memory, per file: count and lock | register mismatch or success, is locked | `Lockout`, run by `Gate` |
| Decryption page | `ui/pages/decryption_page.py` | tables of drives and containers, loaded key, selection, open windows | load key, view, rebind, close, 2-second drive poll | `Page`; source and mirrors of a view: `Access` |
| Secure store | `usb/secure_storage_service.py`, `storage_writer.py` | a container file, its temporary file, a record | `store_file`, write, rewrite, verify | `Storage` |
| Encryption page | `ui/pages/encryption_page.py` | key pair and last passphrase in memory, selection | write, export the key, 2-second drive poll | `Storage` (all but the poll) |
| Usage log | `tracking/`, `ui/pages/tracking_page.py` | rows of a hash chain; open sessions in memory | start, close, rebind entry, clear, verify | `UsageLog`; when a session is sealed: `Access` |
| Deception | `deception/` | event rows | activate, list, clear | triggers in `Access` and `Gate`, rows in `Vault` |
| Viewer | `viewer/` | what is displayed, its zoom, capture protection, the watcher's timer | display, zoom, show, poll, close | `Viewer` |
| USB detection | `usb/` detection modules | the last result | detect | `Page`, `Storage` |
| Start-up, main window | `app/`, `ui/main_window.py` | the shared services | build, sign out, close | `Vault`, `UsageLog`, `SignIn` |
| Cryptography | `crypto/` | file key handles | encrypt, wrap, unwrap, destroy | abstracted |
| File queue | `core/file_queue.py` | a list | add, remove, reorder | not modelled |
| Dashboards, widgets, theme | `ui/` | displays | refresh | not modelled |
| Configuration, logging, database file key | `app/config.py`, `core/`, `database/file_key.py` | files | read, write | not modelled |

**Interactions.** Sign-in hands a *vault key* to the main window, which opens the
password slot, gets the VMK, and unwraps one pair of protection keys for the
metadata and one for the usage log; those pairs go to every page. The encryption
page saves a record and then writes a container that may embed a *portable
section*, a copy of the record sealed with keys derived from the private key and
its passphrase. The decryption page picks one copy as the source of a view, lists
the other as its mirror, and calls `attempt_access`, which asks the throttle,
validates, decrypts, burns, deletes the container and returns callbacks that the
window calls when it closes.

**Concurrency and failure.** Everything runs in one thread, yet not one step at a
time: `progress_dialog` and modal prompts run the Qt event loop, so timers (the
drive poll, the capture watcher, the countdown) run between a click and what it
does, and between what it does and the end of its handler. SQLite commits and file renames are atomic one by one and never as a group; the
interesting failures lie between two of them. Nothing is retried.

What makes each component correct, and where it is stated:

- account and vault: records stay readable across every credential change;
  a code the user holds opens the vault, once; a deletion leaves nothing of what was
  stored and its vault never comes back, though view windows outlive it (`Vault`). The user is told the code there is, the key file of
  an account exists, a deletion is deliberate (`SignIn`).
- lockout: misses come at a pace, wherever they are made (`SignIn`, `Gate`, against
  the abstract `Paced`); what finds a lock is neither counted nor forgiven, whatever is
  interrupted (`Vault`, `SignIn`, `Access`, `Gate`, against the abstract `Strikes`).
- access: a one-time file is shown once, a granted view is shown, the usage log
  has one entry per validated view when its window is closed, content bound to a drive does not follow
  the record elsewhere (`Access`, which implements the abstract `OneTime`).
- validation: what the checks accept is what the key opens for, a binding accepts one
  stick (`Gate`).
- usage log: a log that passes `verify_chain` is row by row what was once written,
  up to its last row; an untouched one passes; appending never hides an alarm
  (`UsageLog`).
- store: no container is torn and none that was on the drive is lost, wherever a write
  or a rewrite stops; every container has its local record; an exported key opens the
  file it was exported after (`Storage`).
- page: a view works on what was selected at its click, whatever the poll rebuilt
  since; the tables fit together and catch up; no key outlives a window (`Page`).
- viewer: a closed window holds nothing, its label tells the zoom, a capture is in the
  record (`Viewer`).

The hazards these serve are listed, with their lines, in `PROJECT.json`.

## 2. Modules

| module | what it is |
|---|---|
| `Vault` | the account row, the two slots, the protection keys, the records sealed with them, each commit a step |
| `VaultInv` | the inductive invariant `IInv` of `Vault` |
| `VaultProofs` | its theorems |
| `Access` | one file: stored, viewed, burned, mirrored, unlinked, shown, closed, rebound |
| `AccessInv` | the inductive invariant `IInv` of `Access` |
| `AccessProofs` | its theorems, the refinement of `OneTime` among them |
| `OneTime` | an abstract one-time file: unburned, burned, shown, or without a promise |
| `UsageLog` | the hash-chained log, the windows that append to it, and rewrites of its rows |
| `UsageLogProofs` | its theorems; the part of the invariant that speaks of every sequence of rows |
| `Storage` | the write path: record, temporary file, sync, replace, verify; rewrite and removal after a view; the page's key pair and its export |
| `StorageProofs` | its theorems |
| `Page` | the Decrypt page: tables and poll, selection, key, buttons, views, windows and rebinds |
| `PageProofs` | its theorems |
| `Viewer` | one viewer window: contents, zoom, capture protection and watcher, teardown |
| `ViewerProofs` | its theorems |
| `Lockout` | how failures are counted and turned into a lock, for accounts and files alike |
| `Paced` | what a lockout promises, as an abstract specification |
| `Strikes` | a lock without a clock, as an abstract specification of the four modules that have one |
| `Gate` | one file's policy, device binding and wrapped key, with what can be read of a stick; the throttle with its durations; the rebind |
| `GateProofs` | its theorems |
| `SignIn` | the dialogs of an account, with a clock |
| `SignInProofs` | its theorems |
| `MCVault`, `MCAccess`, `MCStorage`, `MCPage`, `MCViewer`, `MCGate`, `MCSignIn` | constants for TLC |

An operator whose name begins with `Slip` is a plausible slip in the code of
the operator after it. No action uses it; putting it in that operator's place
shows that a property notices, which is how each property was tried.

### Vault

`account`, `failed` and `locked` are the `accounts` row. `passwordSlot` and
`recoverySlot` are the two wrapped VMKs in `app_meta`, each a record of the VMK and
of the key it was wrapped under; `encWrap` and `hmacWrap` are the wrapped protection
keys per store. `records[s]` is the set of key pairs that some row of store `s` is
sealed with. `held` is what the open window keeps in memory, `viewers` the tracking keys
that open view windows will record with. `pc` names the commit
the program makes next: a rotation is `account row; password slot; recovery slot;
reveal`, opening a window is `slot; encryption key; HMAC key` twice, a deletion
clears three tables and then the row. `revealed`, `used`, `retired`, `torn` and `outlived` are
history.

A view window has no parent, keeps the tracker of the page it was opened from, and appends its
row when it closes. `_on_account_deleted` (`main_window.py:216-261`) hides and replaces the main
window only. So `CloseView` may come wherever the event loop runs (`EventLoop`): in the main window,
in the dialogs, with no account at all after a deletion, or under the next one.
`outlived` are the keys of the windows that were open when an account went, `Own(s)` the rows that
are not theirs; the properties speak of `Own`, and `UsageLog` of what the other rows do to the log.

Abstractions:

- Randomness is the counter `fresh`; one number stands for the salts and the code a
  rotation draws together, because they are committed together.
- A ciphertext is the pair of its plaintext and its key; nothing opens under another
  key.
- A lock lasts until `LockExpires` (its durations are in `Lockout`); failures beyond the threshold count as one,
  since every one of them locks again. That `SignIn`, which has the durations, runs the same lock is
  what `Strikes` is for.
- A commit that fails has no effect and raises; `app/error_handling.py` keeps the
  program running, hence `CommitFails` beside `Crash`. Building the window has no
  fallback, so a failure there is a crash.
- `viewers` is a set of keys: several windows with the same keys are one member, which closing
  may or may not remove. A window that is dropped, or whose append fails, is `LoseView`.
- `CloseWindow` ends the program. A view window that the user closes after the main window seals its
  row while the process is still there, which is the same as closing it before.
- The self-heal of a missing salt and the save of the sign-in are one step: a stop
  between them leaves a salt that no slot was written under yet, which is the state
  before it with one more random value.
- Registration signs the user in and then shows the code; this module shows the code and then
  signs in (`SignIn` has the order of the dialogs). Both happen before the window opens, and the sign-in in between
  writes only the lockout fields.
- Not modelled: password strength, password accounts without a wrap salt (written by
  versions before it existed).

### Access

One file, one user, one machine. `local` is the copy of the record in the
database, `section[d]` the portable section of the container on drive `d`, `onDrive`
the drives that hold a container. A copy is what it is sealed with, whether its
wrapped key is the file's (`real`) and the drive it is bound to. `task` holds the
locals of the view in progress, taken at the click; `pc` is where it is. `attempt[n]`
is the history of the n-th view: what became of it, its window, whether its usage record has a
time of opening, how often it was sealed into the log.

A view is cut where the program can die or a save can fail:
`ClickView` (source and mirrors), one of `ForcedDeception`, `Throttled`,
`ValidationFails`, `ValidationPasses` (the attempt up to decryption), `BurnPrimary`,
`BurnMirror`, `Unlink`, `Show`. `CloseWindow` may come between the click and the
attempt, because the capture watcher's timer runs in `progress_dialog`.

Abstractions:

- The drive fingerprint is the drive; the machine is always the one the file was
  stored on, so a machine-bound file differs from a free one only in how its key is
  wrapped. What makes up a fingerprint is in `Gate`.
- Expiry times and access counts are in `Gate`; the pages set them to nothing but
  their defaults.
- Whatever fails before it changes anything (an unreadable container, a cancelled
  dialog) is no step. Appending to the usage log does not fail in the model.
- The page is assumed to have a drive selected once one was plugged in.
- A decoy session has no repositories (`main_window.py:143-183`), so it sees neither
  copy; a file stored from it has no local row.
- Copying a container with the operating system is the action `Duplicate`: nothing
  in the program prevents it, and the comments of the code speak of such copies.

### UsageLog

`log` is the table `usage_log` by `id`; `keys` is the pair of tracking keys stored
for the account (0 without an account), `tracker` the pair the main window's
`UsageTracker` was built with, `viewers` the pairs of the trackers that view
windows hold for their closing. The two are kept apart because `_on_account_deleted`
replaces the main window only: a view's window has no parent and stays open, with its
old tracker. `pc` stands between the commits of `delete_account`. `seals`, `edited`
and `strayed` are history: what each HMAC was computed over, whether a row was
rewritten from outside and whether a departed account appended since the log was
last empty.

`Tamper` is whatever a writer of the database file can do to a row: set a field to
any known value or to garbage, insert a row that is or was there at any place, remove
or exchange rows. `LastEntryHmac` reads the last row without verifying it, as
`last_entry_hmac` does, so the program appends to rewritten logs as well.

Abstractions:

- A seal draws a fresh nonce; its number stands for its nonce, its ciphertext and its
  HMAC. An HMAC that no seal computed verifies for nothing.
- What a record says is left out: every field of it is in the ciphertext.
- Reading the last HMAC, sealing and inserting are one step: one thread, no event
  loop in between. Two instances of the program on one database are not modelled.
- A decoy session has no tracker (`main_window.py:165-168`) and appends nothing.
- The page keeps one viewer, and a viewer dropped unclosed is `LoseSession`, which also
  stands for a failed insert.

### Storage

The n-th write of all pages draws the n-th file id; `file[n]` is the key pair and the
passphrase it was sealed with (`NoPassphrase`: the prompt was cancelled, and the
container has no portable section). `key`, `remembered` and `latest` are the page's
`_key_wrapper`, `_last_write_passphrase` and the write it last began; a program that
starts again has none. `records` is the metadata table, `written` the files the page
reported. `pc` is where the one writer is: `store_file` goes through `saving` (encrypt,
save the record), `validating` (check the device, write the temporary file), `syncing`,
`replacing`, `verifying`; the rewrite of a burned file through `rewriting`,
`resyncing`, `replacing again`, and its removal is `unlinking`. A burn that goes by the
local record starts at `unlinking`: its save is a commit of the database (`Access`).

What a drive holds is told at two places. `dest[n]` is what programs read at the name.
`medium[n]` is the set of what may be found there if the drive is pulled now: `fsync`
settles the content of the temporary file, and nothing in the code settles the directory
that names it, so a replaced or removed name stays open until the operating system
has written it (`Flush`). `Replaced` adds the temporary file to what may be found, and a
torn one if it was not synced. `Unplug` picks one of these for every file. `settled` and
`unlinked` are history: the files that were on the medium for certain and those
removed on purpose.

`StepFails` is any failure of the step at hand: the source or the drive cannot be
read or written, the commit is refused, the verification finds something else. It
removes the temporary file and leaves what was done before it. When the drive is gone the
next step cannot do otherwise (`Doomed`), and that costs no fault of the bound.

Abstractions:

- File ids are fresh, so the destination never exists before a write:
  `ContainerOverwriteError` and the question behind it cannot occur and are left out.
- `_deep_verify` only displays what it found. Which of the device checks failed is
  not told apart.
- A temporary file that a crash leaves on the drive is not kept track of: its name is
  drawn anew each time and nothing reads it.
- `Burn` is the view of a one-time file, for which `Access` has the details; here it may
  happen to any stored file at any time, in the same thread as the writes.
- The export is one step: it writes its own file after the prompts, and one that fails
  exports nothing.
- A decoy session has no metadata table and saves no record; deleting the account
  empties the table. Neither is in this module, and `RecordOfEveryContainer` speaks of one
  account in its own session.

### Page

`plugged` and `files` are the world: which stick is under which letter, what is on it.
`devices`, `selected`, `listing` and `chosen` are the page's fields for the last
detection, the selected drive, the listed containers and the selected one. `key` is the
number of the load that `_key_wrapper` is from. `task` is what a view or a rebind was
clicked for; `acted` keeps the last of them with what it acted on. `expired` says how many
keys had been loaded when a window last closed.

A click and its act are two steps, because the event loop runs in between
(`progress_dialog`, and the passphrase prompt of a rebind), and an act and what follows it are two
where a message box is shown before the handler is done: a load sets the key, reports it, and then
sets the buttons (`LoadKey`, `FinishLoad`); a rebind moves the binding, reports it, and then refreshes
(`AnswerRebind`, `FinishRebind`). Any poll and any closing of a window may come between them: a window
that closes under the box of a load takes the key that was just loaded with it. `Poll(missed)` is one tick of the two-second timer, the
detection missing some drives; it compares with the last result and rebuilds everything
if it differs. `RefreshContainers` runs after a view that was granted, after a rebind and when a
drive is selected.

Abstractions:

- The free space that the comparison looks at is the set of files on the stick.
- What `attempt_access` decides is an outcome (`denied`, `granted`, `deleted`, `failed`);
  `Access` and `Gate` have how.
- Selecting and loading are not offered while a modal dialog is up (`pc = "idle"`).
- A drive is known by its letter, as in the code: a stick that takes the place of another
  under the same letter between two polls keeps the selection
  (`decryption_page.py:383-393`).
- What a detection returns of a stick is the stick and its files here. `USBDevice` compares letter,
  label, size and free space (`usb/device_detector.py:44-54`), so two sticks that agree in all
  of these, or a file exchanged for one of the same size, go unnoticed by the poll of the code and not by
  that of the model: `CatchesUp` is about sticks that differ in what is compared.

### Viewer

`current` is the widget on top of `_stack`, `held` those that hold a content, `zoom` their
zoom factors, `pixmap` the factor the picture was drawn with, `label` the text of the
zoom label. A factor stands for its logarithm, so that zooming adds and subtracts and the bounds
clamp. `phase` says whether the page has connected the window to its view's record, shown it,
closed it. `captures`, `sealed` and `written` are that record; `told` is the message the
page leaves.

`Display` is `display` for each kind of content, `ZoomBy` and `ZoomFit` the buttons, `Show`
the show event (a restored window has one too: protection is applied and the watcher is
reset again), `Poll` the watcher's timer with the handler of a detected key, `Close` the
close event. The last two share `Teardown`, in the order of the code: note the capture, clear, stop
the watcher, seal.

Abstractions:

- The contents are their kinds. An image that does not decode is `ShowUnsupported`.
- How large a picture is against the window is any value (`Rooms`).
- A press shorter than the poll interval of 150 ms is missed: `Release` before `Poll`.
- The pdf view steps from its last custom factor, fitted or not, as the code does.
- Playing a video, the shortcuts and menus that are switched off, and `SecureViewSession`,
  which no page uses, are not modelled. The player's buffers stay parented to the widget
  until it is destroyed; the model says when the player lets go of them.

### Lockout, Paced and Strikes

`Lockout` is the arithmetic that `lockout_policy.py` and `device_mismatch_throttle.py`
share: count, threshold, duration `min(base * 2^(n - threshold), cap)`. `Paced` is what a
user may rely on: every attempt, right or wrong, waits until `wait` has passed since the last
miss, and from the threshold on each miss doubles `wait` up to the cap; there is no arithmetic
with exponents in it. `Imposed` reads that wait off a lock, and `Timed` is what a lock says of
the last failure; both serve the refinement and the proofs and no action. `Volatile` says that misses are also
forgotten at a restart, which is so for the throttle of devices (in memory) and not for the
account (in the database).

`Strikes` is the lock that `Vault` and `Access` use: a count up to the threshold and a flag that
may drop at any time. `LocksOut` says of each of the four modules that it implements `Strikes`;
in `SignIn` and `Gate` the count is cut off at the threshold and the flag is `IsLocked` at the present
time. So leaving out the durations, as `Vault` and `Access` do, loses no behaviour of the lock: with
them it still does nothing but strike, forgive and expire. And none of the
four lets a step count or forgive anything while locked, except that a restart forgets the throttle.
(The runs check it for `Vault` and `Access`; for all four it is proved.)

### Gate

`rec` is the record of one file with its policy, binding, machine, count of accesses and what
its key is wrapped under (`wrapped`); `home` is the stick it was last bound to; `lock` its
entry in the throttle. A *reading* is what a stick says of itself at a moment: its identifier,
with the volume serial or without, and its descriptor, with its tokens or blank. A file is bound
under one reading and presented under another.

`Store`, `Attempt`, `RecordAccess`, `Rebind`, `Tick` and `Restart` are the operations. `Failures`
is `ValidationEngine.validate`, `Trigger` the mapping of failed checks to a trigger, `Opens`
the unwrapping of the key. A save is one step here; what happens between two of them is in
`Access`.

Abstractions:

- One file: files have separate throttle entries and records and do not interact.
- The right key pair is used; wrong ones are in `Access`.
- Whether a mismatch is reported under the label or the serial makes no difference.
- Records without a `usb_serial`, written by earlier versions, are not modelled.
- `RecordAccess` is `MetadataController.record_access`, which no page calls; `Attempt` never counts.
  A limit comes from the expiry rules of `store_file`, which no page sets.
- `DistinctSticks` is the premise of device binding: two complete descriptors differ in some
  token, the serial number. The code cannot check it.

### SignIn

`screen` is the dialog or page the user sees, `account` the row, `lock` its two lockout
fields, `told` the last recovery code the user was shown, `pending` and `passphrase` the
fields of the key registration, `files` the key files, `countdown` the seconds left in the
deletion prompt. Every place that asks for a secret goes through `Check`: two kinds of sign-in,
the sign-in after a registration, the reset, the change, the deletion before and after its
prompt.

Abstractions:

- The account row is saved at once; the commits are in `Vault`.
- A handler may be stopped after its save (`Stopped`), by an error that
  `app/error_handling.py` reports or by the end of the program; `lost` marks an account whose
  code was never shown.
- Passwords and passphrases too weak to be accepted, and accounts from before the wrap
  salt, are left out.
- A save of a key file that fails leaves it empty.

## 3. What is checked

| run | instance | shows |
|---|---|---|
| `vault` | 2 passwords, 1 key file, threshold 2, 8 draws, 2 interruptions | five safety properties of `Vault`, its lock implements `Strikes` |
| `vault_orphans` | the same | a torn rotation orphans the records |
| `access` | 2 drives, threshold 1, 2 views, 1 interruption | four safety properties, liveness of a granted view, `Access` implements `OneTime` and `Strikes` |
| `access_rebind` | 2 drives, 2 views, no interruption | a rebound file is refused where it was rebound to |
| `log` | 2 accounts, 4 entries, 2 rewrites | types, two safety properties and one action property of `UsageLog` |
| `log_false_alarm` | 2 accounts, 2 entries, 1 rewrite | an entry of a departed account breaks the new account's log |
| `storage` | 2 passphrases (symmetric), 2 writes, 3 faults, 1 export | four safety properties of `Storage` |
| `page` | 2 letters, 2 sticks with 2 files each, 3 changes, 2 views, 2 keys | three safety properties and liveness of `Page` |
| `viewer` | 3 contents, zoom in steps of 2 between -3 and 3 | types, three safety properties and liveness of `Viewer` |
| `gate` | 3 sticks, 2 policies, threshold 2, cap 3 seconds, 8 seconds, 2 accesses | two safety properties of `Gate`, its throttle implements `Paced` |
| `signin` | 2 passwords, 2 key files (symmetric), threshold 2, 5 seconds, 2 codes, 2 pairs, 1 stop | two safety properties and one action property of `SignIn`, its lock implements `Paced` |
| `signin_decoy` | the same | a new account may be accepted with a decoy session |

The types of `Vault`, `Access`, `Storage`, `Page`, `Gate` and `SignIn` and the inductive invariants are proved and have no run of
their own: TLC can check them with the same modules and an `INVARIANT TypeOK` or `IInv`.

**Why the bounds are enough.** Two passwords distinguish "the same again" from
"another one" in every rotation and in a new account after a deletion; one key
file suffices in `Vault` since an account enrols one. Eight draws allow a registration, the
first window (VMK and two key pairs), a rotation, and a second account with a window;
`MaxFresh` bounds only the operations of the user, so that no operation is cut off
in the middle by the bound. Two interruptions reach a crash in the recovery from
a crash. Two drives give a home and another; two views are a first one and a repeat, and
at threshold 1 the second mismatch is one more than allowed. One interruption, at every
step of every handler, is what the burn's order is about; the theorems about `Access` hold
for any number.
Four entries give a chain with a first, a last and two inner rows, so that a link into
the middle, a skipped row and a branch grown behind a removed one all occur; two
rewrites allow one before and one after an append; two accounts are one that left
and one that is there.
Two writes are an earlier and a later one, under the same or another passphrase; of
three faults one may cut off the write, one the rewrite of the same file and one
the other file. Files do not share a name, so a third adds nothing. `MaxPairs` of `Storage`
bounds only cancelled exports, which generate a key pair before anything is asked.
Two letters and two sticks let a selection move, survive and be taken over; three changes are a
stick that arrives, leaves and is replaced, before or during a view; two views make the second
window close while the first is open, and two keys one that is newer than a closed window.
Three contents are two in a row and one more on top of both; two zoom steps lead past both
bounds, which are no whole number of steps away.
Of three sticks two differ in nothing but their serial numbers and one has none; at threshold 2
with a cap of 3 the lock is 1, 2 and then 3 seconds where doubling would give 4, and eight
seconds are enough for all of them. `MaxAccesses` equals the limit of the policy that has one, and the
other policy is the one-time one.
In `SignIn` five seconds hold two locks or a countdown of 2 after a lock, two codes are one
that is replaced by another, two pairs a pending one and its successor, over the same file or
another.

**Fairness.** Each `FairSpec` assumes weak fairness of what the program schedules by itself
and of nothing else. In `Access` it is `Handler`: the steps of
a view after its click. They are the body of one synchronous Python call, so
once entered they run unless the process dies or a save raises; both are actions
of their own and the property names them. In `Page` and `Viewer` it is `Poll`, a timer of the
Qt event loop, which runs under modal dialogs too. Nothing is assumed of the user, of
drives, of windows being closed or of a lockout being waited for.

**Refinements.** `Access` implements `OneTime` under `OneTimeState`: seen from outside, a
one-time file whose container was not copied is unburned as long as some copy can be opened,
then burned, and shown only after that, which is final. `Gate` and `SignIn` implement `Paced` with
the count of failures, the time of the last one and the wait the lock was set for; they share the code in `Lockout` and
differ in `Volatile`. `Vault`, `SignIn`, `Access` and `Gate` implement `Strikes`, so that the locks
with and without durations keep to one description; for `SignIn` and `Gate`, whose runs check
the stronger `Paced`, this is proved and not run.

**Disagreements found.** Each `violation` run checks one sentence the repository
says of itself:

- `vault_orphans`: `protection_keys.py:25-31` has records readable across every rotation;
  a rotation cut off between its first two commits orphans them. `Vault` keeps the
  ghost `torn` for exactly this, and `RecordsReadable` holds everywhere else.
- `access_rebind`: `decryption_page.py` says that a rebind moves the file's binding to the
  selected device; it moves that of the local row only, and a view prefers the portable
  section. (In the page the old and the new device are both the selected one.)
- `log_false_alarm`: `auth_controller.py:276-285` and `tracking/repository.py:10-18` clear the
  log with the account so that no entry of the old account raises a false alarm; a view
  closed after the deletion appends such an entry to the cleared log. The ghost
  `strayed` marks it, and `UntouchedVerifies` holds everywhere else; `Vault` has the same windows, and
  its properties say that this row is all they leave.
- `signin_decoy`: `auth_dialog.py` signs a new account in with what it was created with, "rather
  than assuming registration implies a valid session"; the passphrase is read from its field
  a second time, and one that was edited after the key was generated gives a decoy session, which
  is accepted. The key file opens the account afterwards.

More are read from the code and left out of the runs:

- A throttled view leaves no entry in the usage log: the return at `secure_access_service.py:301-312`
  comes before the session is started, while lines 69-72 have every attempt, granted or denied,
  recorded, and lines 193-196 except a forced deception only. `ClosedViewsLogged` says what holds: a
  view that was validated has one entry when its window is closed.
- By the same lines 69-72 a session records when the file was opened for granted attempts only. The code
  notes it before the decryption (line 389), which may then refuse the view. `ClosedViewsLogged` has the
  other direction: a granted view has its time of opening.
- A burn reaches the copy it went through and its mirror (`one_time_access.py:115`), and no
  other container with its own portable section, while `secure_access_service.py:371-374`
  speaks of every copy. `OneView` and `OneTimeState` exclude such files, and those a burn fell back from
  a section of to the local row, by the ghost `loose`.
- `validation_engine.py:20-22` expects the caller of a granted access to count it with
  `record_access`; no code outside the tests calls it, so that a maximum access count is compared with
  zero for ever. No page sets one; `store_file` takes one in its expiry rules.
- A repeated view of a burned file reads as tampering, its keys having been dropped
  (`one_time_access.py:111`), while `secure_access_service.py:17-22` announces "already used".
- An export reuses the passphrase of a write that failed (`encryption_page.py:502` against
  43-47). `ExportOpensLatest` says what does hold: the export opens the file of
  the latest write that was begun.
- `_loaded_key_passphrase` is not cleared with the key (`decryption_page.py:700-712` against
  202-212); nothing reads it without a key.
- `tracking/__init__.py:9-10` says that any deleted entry is detectable. A chain has no
  length stored anywhere, so rows removed from its end are not; `VerifiedIsWritten` states
  exactly what a passed check means, the last row being the last one that is there.
- A descriptor that could not be read when a file was bound and can be read later passes the
  checks and does not open the key (`PolicyAgreesWithKey` says so in its second part).

## 4. What is proved

For every value of the constants allowed by the named assumptions
`VaultAssumption` (the absent secret is no secret, passwords are not key files, the
threshold is at least one), `AccessAssumption` (the absent drive is no drive, the
threshold is at least one, there is at least one view), `UsageLogAssumption`
(garbage is the number of no seal), `StorageAssumption` (no passphrase is none of the
passphrases), `PageAssumption` (nothing is no letter, stick or path), `ViewerAssumption` (the
bounds of the zoom enclose 100%, steps and sizes are positive), `GateAssumption` and
`DistinctSticks` (types; complete descriptors tell sticks apart), `LockoutAssumption` (types;
the base is within the cap) and `SignInAssumption` (nothing is no password and no key file, the
countdown is positive); all bounds are natural numbers.

| theorem | states |
|---|---|
| `VaultProofs!TypeCorrect`, `Inductive` | `Spec => []TypeOK`, `Spec => []IInv` |
| `VaultProofs!RecordsStayReadable` | `Spec => []RecordsReadable` |
| `VaultProofs!RevealedCodeOpens` | `Spec => []RevealedCodeOpensVault` |
| `VaultProofs!UsedOnce` | `Spec => []RecoveryCodeUsedOnce` |
| `VaultProofs!FreshVault` | `Spec => []FreshVaultPerAccount` |
| `VaultProofs!DeletionComplete` | `Spec => []DeletionLeavesNothing` |
| `VaultProofs!AccountLocksOut` | `Spec => LocksOut`, that is, `Strikes` with the account's lock |
| `AccessProofs!TypeCorrect`, `Inductive` | `Spec => []TypeOK`, `Spec => []IInv` |
| `AccessProofs!ShownOnce` | `Spec => []OneView` |
| `AccessProofs!SealedOnce` | `Spec => []ClosedViewsLogged` |
| `AccessProofs!DueGranted` | `Spec => []DueViewsGranted` |
| `AccessProofs!BoundToDrive` | `Spec => []DriveBoundContent` |
| `AccessProofs!MismatchesStayBounded` | `Spec => []MismatchesBounded` |
| `AccessProofs!ImplementsOneTime` | `Spec => OneTimeFile!Spec` |
| `AccessProofs!ThrottleLocksOut` | `Spec => LocksOut`, that is, `Strikes` with the throttle |
| `UsageLogProofs!TypeCorrect`, `Inductive` | `Spec => [](TypeOK /\ TrackerIsCurrent)`, `Spec => [](IInv /\ Traced)` |
| `UsageLogProofs!VerifiedLogIsWritten` | `Spec => []VerifiedIsWritten` |
| `UsageLogProofs!UntouchedLogVerifies` | `Spec => []UntouchedVerifies` |
| `UsageLogProofs!AlarmStays` | `Spec => AlarmPersists` |
| `StorageProofs!TypeCorrect`, `Inductive` | `Spec => []TypeOK`, `Spec => []IInv` |
| `StorageProofs!NoContainerTorn` | `Spec => []NeverTorn` |
| `StorageProofs!RewriteLosesNothing` | `Spec => []KeptThroughRewrite` |
| `StorageProofs!EveryContainerRecorded` | `Spec => []RecordOfEveryContainer` |
| `StorageProofs!ExportOpens` | `Spec => []ExportOpensLatest` |
| `PageProofs!PageInvariant`, `PageTyped` | `Spec => []PInv`, `Spec => []TypeOK` |
| `PageProofs!TablesFit` | `Spec => []Coherent` |
| `PageProofs!ClickedIsActedOn` | `Spec => []ActsOnClicked` |
| `PageProofs!KeysExpire` | `Spec => []KeyExpires` |
| `ViewerProofs!ViewInvariant`, `ViewTyped` | `Spec => []ViewInv`, `Spec => []TypeOK` |
| `ViewerProofs!ClosingEmpties` | `Spec => []ClosedIsEmpty` |
| `ViewerProofs!LabelTells` | `Spec => []LabelTruthful` |
| `ViewerProofs!CapturesAreSealed` | `Spec => []CaptureSealed` |
| `GateProofs!RecordInvariant` | `Spec => []RecordInv` |
| `GateProofs!KeyAndPolicyAgree` | `Spec => []PolicyAgreesWithKey` |
| `GateProofs!OtherSticksRefused` | `Spec => []OnlyHomeAccepted` |
| `GateProofs!ThrottleInvariant`, `TypeCorrect` | `Spec => []ThrottleInv`, `Spec => []TypeOK` |
| `GateProofs!MismatchesArePaced` | `Spec => PacedMismatches`, that is, `Paced` with the throttle's waits |
| `GateProofs!ThrottleLocksOut` | `Spec => LocksOut` |
| `SignInProofs!DialogInvariant`, `LockInvariant` | `Spec => []DialogInv`, `Spec => []LockInv` |
| `SignInProofs!TypeCorrect` | `Spec => []TypeOK` |
| `SignInProofs!CodeIsKnown` | `Spec => []CodeKnown` |
| `SignInProofs!KeyIsOnFile` | `Spec => []KeyOnFile` |
| `SignInProofs!DeletionIsDeliberate` | `Spec => DeletedDeliberately` |
| `SignInProofs!GuessesArePaced` | `Spec => PacedGuesses`, that is, `Paced` with the account's waits |
| `SignInProofs!AccountLocksOut` | `Spec => LocksOut` |

**The argument for `Vault`.** None of the safety properties is inductive by itself. `IInv` adds:
every number in use is below `fresh`, so that a new draw differs from all that
exist; where each commit sequence is when `pc` names one of its steps, and what `carry`
then holds; that a slot written under the present vault key holds no retired VMK; that
what is wrapped under the VMK the slot opens to is the pair the records were
sealed with, except in the window of a torn rotation; that a revealed code is the
code of the present account only if both slots agree; and about view windows, that those which have not
outlived an account record with the keys of the open session (`ViewersAreOfTheSession`), while the
keys of those which have are wrapped, if they still are, under a VMK that no account opens
(`OutlivedKeys`), so that no later session gets hold of them and no row of theirs is taken for one of
its own. The proof takes each action once
and, under it, each conjunct the action can disturb.

**The argument for `Access`.** A one-time file is shown once because of what its
copies are between views. `IInv` says: while no container was copied, at most one drive
holds a section that still opens with the file's key, and it is the container's, so
that burning the source and its mirror leaves no such copy; once the file was
shown no copy with the real key verifies; the section a view works with is the one on
the drive until its burn; a granted view in progress is the first; a copy with the
real key is bound to the drive its key was wrapped for; mismatches in a row are
those of views, no more than the throttle counted. Each action preserves each part; the
safety properties follow from single parts.
`ImplementsOneTime` adds two facts about steps: no step makes a copy open again once none
does, and a window is shown only when none does.

**The argument for `UsageLog`.** The seals form a tree: each is linked to an earlier
one, to the genesis or to garbage, and keeps the path that leads to it
(`SealsLinkBack`). A sequence of rows that verifies is a path from the root. Rewrites
are arbitrary, so this is proved for every sequence of rows and not for those that
occur: `Traced` quantifies over all of them and is the only part of the invariant that
TLC does not evaluate. It is preserved because a seal is only ever added and an HMAC is
never computed twice. `VerifiedIsWritten` is `Traced` for the rows that are there.
`AlarmPersists` follows since an append leaves the rows before it and their verdicts as
they are. Verification is a universally quantified formula over the rows, so no
induction is needed.

**The argument for `Storage`.** What a program reads is not enough: a drive that is pulled
out chooses again among what may be found on it. So `MediumSafe` speaks of that whole
set: never torn, empty of anything without a record, and, for a file that was there for
certain and not removed, never without it. `Unplug` then preserves everything by
choosing within the set, and `Replace` must show that what it adds is whole, which is
`TempSafe`: a temporary file about to be renamed is synced or gone, and the file the writer is at
has its record since `SaveRecord` comes first. `PageSafe` ties the page's memory to the
latest write: its key pair and its passphrase are what the file was sealed with, until
the program ends and forgets all three; so an export under them opens it, and later
writes change neither the file nor what was exported.

**The argument for `Page`.** `PInv` is `TypeOK`, the three safety properties and what a task in
progress may rely on: a rebind that was clicked finds its own file selected, or none, because
only the user selects and the user is at the prompt; every rebuild either keeps the selection or
empties it. A view needs nothing of the kind, as it goes by its locals. `Coherent` is inductive
because each place that changes one of the four tables brings the others up to date, the load being the one
that leaves the buttons for later: until its message box is closed they may be disabled beside
a file and a key, and never the other way round. `KeyExpires` holds because
closing clears the key whatever its number is.

**The argument for `Viewer`.** `OnScreen` ties what is drawn to what is kept: a picture is drawn
with the zoom it has, its zoom is known exactly while it is held, a text has its base size from its
first display on. With it each kind of display and each zoom leaves a label that tells the
truth, and a widget that comes back to the top is rendered anew. `StillOpen` says that nothing is
noted in the record before the teardown, so that it is sealed with what the teardown notes.

**The argument for `Gate`.** The record names one reading of its home, and its key is wrapped under
that same reading or under nothing, because `Bind` does both and is used by `Store` and
`Rebind` alike; the burn wraps it under a decoy's and breaks the seal. Then the
checks and the key are compared with the same reading, and two sticks with complete descriptors cannot
both match it.

**The argument for `SignIn`.** A pending pair was saved and is on file; key files are written in
the registration dialog only, where no account for a key exists, so the pair of an account is
overwritten by no save but one that failed. What is left of the countdown and what has passed of it
make up the whole, and the button is offered at zero.

**The argument for the locks.** `Timed` is the invariant of a lock: below the threshold it says
nothing, from there on it ends `LockoutSeconds(failed)` after the last failure. The count and the
end of the lock alone are not enough, because the wait is counted from the last failure. Whatever
a handler does besides, a step lets time pass, counts a failure while nothing is locked, forgives
it all while nothing is locked (or, for the throttle, at a restart), or leaves the lock alone
(`ThrottleSteps`, `LockSteps`). That a failure doubles the wait of the one before it is
`SecondsDouble`: `Smaller` of a doubled and a capped term, and `2^(n+1) = 2 * 2^n`. The provers
know nothing of exponents, and an induction over n is out of their reach; but 2^n is the
number of subsets of a set of n elements, by the library's theorem on `SUBSET`, and adding an element
doubles them (`Power2`). `GateProofs` and `SignInProofs` both state these lemmas, since both
modules extend `Lockout` for different variables.
`Strikes` needs of them only that a failure from the threshold on locks at once, for some time
(`FailureLocks`: the seconds are at least one), and that the clock reaches the end of every lock
in a step of its own. In `Vault` two steps write the lock without a look at it, registering an account and
deleting its row; `OpenWhenForgiven` says that nothing is locked there, because a deletion begins
with a password that was verified.

**Only model-checked:** liveness (`GrantedIsShown`, `CatchesUp`, `HeldIsNoticed`), because
fairness is out of the prover's reach. Every other property of a passing run is a theorem.

## 5. Not modelled

- Cryptography is taken at its interface: a ciphertext opens under its own key only. The life of a
  file key (active, destroyed) is one `try`/`finally` in each call.
- The layout of a `.cusc` container and of the portable envelope: a container is whole or torn, a
  section verifies or does not. Their parsers are straight-line code over bytes.
- The dashboards, widgets and the theme only display. The file queue is a sequential list. Contents
  of deceptive files, configuration, logging and operating-system queries have no effect on
  the properties.
- The database's file key (`database/file_key.py`) is written once, at the first start, and what
  SQLCipher does with it is outside the repository.
- The poll of the Encrypt page is the one of the Decrypt page without a task between click and act.
- `SecureViewSession` and the creating and updating operations of `MetadataController` are not
  called by any page.
- Records without a `usb_serial` and password accounts without a wrap salt, which earlier versions wrote.
- Two instances of the program on one database.
