------------------------------- MODULE Access -------------------------------
(***************************************************************************)
(* The life of one protected file: it is stored on a drive, viewed, burned *)
(* if it allows one view only, and rebound to another drive.               *)
(*                                                                         *)
(* The file's metadata (its wrapped key, its device binding) exists in     *)
(* several copies: a row of the local database, sealed with the session's  *)
(* protection keys, and a portable section inside each .cusc container,    *)
(* sealed with keys derived from the private key and its passphrase.  The  *)
(* wrapped key of the copy a view goes through decides whether the content *)
(* decrypts, so everything here is about the copies staying in step while  *)
(* saves fail, the program dies, drives move and windows close in any      *)
(* order.                                                                  *)
(*                                                                         *)
(* A view is split where the program can die or a save can fail: the click *)
(* (which picks the copy), the attempt (throttle, validation, decryption), *)
(* the saves of a burn, the unlink, and the moment the window is shown.    *)
(*                                                                         *)
(* An operator whose name begins with Slip is a plausible slip in the code *)
(* of the operator after it; no action uses it.  It is there to be put in  *)
(* that operator's place, to see that a property notices.                  *)
(***************************************************************************)
EXTENDS Naturals

CONSTANTS
    Drives,             \* the USB drives
    NoDrive,            \* no drive
    MaxFailedAttempts,  \* mismatches that lock the file (lockout_policy)
    MaxAttempts,        \* bound: how many views are clicked
    MaxInterrupts       \* bound: crashes, failed saves and misreads

ASSUME AccessAssumption ==
    /\ NoDrive \notin Drives
    /\ MaxFailedAttempts \in Nat \ {0}
    /\ MaxAttempts \in Nat \ {0}
    /\ MaxInterrupts \in Nat

VARIABLES
    file,       \* what the file was stored with: its policy, binding mode and drive
    local,      \* the copy in the local database
    onDrive,    \* the drives that hold the container
    section,    \* per drive: the copy in its container's portable section
    drive,      \* the drive that is plugged in and selected
    session,    \* "none", "decoy" or "real"
    key,        \* the private key the page holds: "none", "right" or "wrong"
    mismatches, \* DeviceMismatchThrottle: failed_attempts of this file
    throttled,  \* DeviceMismatchThrottle: locked_until lies ahead
    pc,         \* the step the program executes next
    task,       \* the locals of the view or the write in progress
    attempts,   \* how many views were clicked
    attempt,    \* per view: what came of it
    tries,      \* mismatches validated since the last wait, match or restart
    rebound,    \* the drive the last rebind moved the file to
    loose,      \* a second portable section was made, or a burn fell back from one
    interrupts  \* how many crashes, failed saves and misreads there were

copies   == <<local, onDrive, section>>
throttle == <<mismatches, throttled, tries>>
page     == <<drive, session, key>>
views    == <<attempts, attempt>>
ghosts   == <<rebound, loose, interrupts>>
vars     == <<file, copies, page, throttle, pc, task, views, ghosts>>

(***************************************************************************)
(* A copy of the metadata: the keys it is sealed with ("gone": keys nobody *)
(* kept, as after a burn), whether its wrapped key is the file's key, the  *)
(* drive it is bound to and the drive whose fingerprint wraps its key.     *)
(***************************************************************************)
Seals  == {"none", "session", "portable", "gone"}
Copies == [seal : Seals, real : BOOLEAN,
           bound : Drives \cup {NoDrive}, wrap : Drives \cup {NoDrive}]
NoCopy == [seal |-> "none", real |-> FALSE, bound |-> NoDrive, wrap |-> NoDrive]

\* The two axes of the binding: a drive or none, and the machine with it.
Modes    == {"free", "drive", "drive and machine"}
Triggers == {"none", "credentials", "mismatch", "tampering", "used"}

Attempts == [by : {"nobody", "decoy", "real"}, at : Drives \cup {NoDrive},
             checked : BOOLEAN,
             trigger : Triggers, granted : BOOLEAN, tracked : BOOLEAN, opened : BOOLEAN,
             window : {"none", "open", "closed", "lost"},
             logged : Nat, due : BOOLEAN, moved : BOOLEAN]
NoAttempt == [by |-> "nobody", at |-> NoDrive, checked |-> FALSE, trigger |-> "none",
              granted |-> FALSE, tracked |-> FALSE, opened |-> FALSE,
              window |-> "none", logged |-> 0, due |-> FALSE,
              moved |-> FALSE]

Sources == {"none", "section", "local"}
Tasks   == [via : Sources, at : Drives \cup {NoDrive}, mirrored : BOOLEAN,
            key : {"none", "right", "wrong"}, section : Copies]
NoTask  == [via |-> "none", at |-> NoDrive, mirrored |-> FALSE, key |-> "none",
            section |-> NoCopy]

Places == {"idle", "write", "attempt", "burn", "mirror", "unlink", "show"}

TypeOK ==
    /\ file \in [stored : BOOLEAN, oneTime : BOOLEAN, mode : Modes,
                 home : Drives \cup {NoDrive}]
    /\ local \in Copies
    /\ onDrive \subseteq Drives
    /\ section \in [Drives -> Copies]
    /\ drive \in Drives \cup {NoDrive}
    /\ session \in {"none", "decoy", "real"}
    /\ key \in {"none", "right", "wrong"}
    /\ mismatches \in 0..MaxAttempts
    /\ throttled \in BOOLEAN
    /\ pc \in Places
    /\ task \in Tasks
    /\ pc = "idle" => task = NoTask
    /\ attempts \in 0..MaxAttempts
    /\ attempt \in [1..MaxAttempts -> Attempts]
    /\ tries \in 0..MaxAttempts
    /\ rebound \in Drives \cup {NoDrive}
    /\ loose \in BOOLEAN
    /\ interrupts \in 0..MaxInterrupts

Init ==
    /\ file = [stored |-> FALSE, oneTime |-> FALSE, mode |-> "free", home |-> NoDrive]
    /\ local = NoCopy
    /\ onDrive = {}
    /\ section = [d \in Drives |-> NoCopy]
    /\ drive = NoDrive
    /\ session = "none"
    /\ key = "none"
    /\ mismatches = 0 /\ throttled = FALSE /\ tries = 0
    /\ pc = "idle"
    /\ task = NoTask
    /\ attempts = 0
    /\ attempt = [n \in 1..MaxAttempts |-> NoAttempt]
    /\ rebound = NoDrive
    /\ loose = FALSE
    /\ interrupts = 0

Interrupted ==
    /\ interrupts < MaxInterrupts
    /\ interrupts' = interrupts + 1

(***************************************************************************)
(* The user's surroundings: drives, sessions, keys.                        *)
(***************************************************************************)
\* A drive is plugged in and selected in place of the one before.
Plug(d) ==
    /\ pc = "idle" /\ d # drive
    /\ drive' = d
    /\ UNCHANGED <<file, copies, session, key, throttle, pc, task, views, ghosts>>

\* Wrong login credentials open a decoy session, right ones a real session.
SignIn(s) ==
    /\ pc = "idle" /\ session = "none"
    /\ session' = s
    /\ UNCHANGED <<file, copies, drive, key, throttle, pc, task, views, ghosts>>

\* A key file and passphrase that do not load put a fresh key pair in place.
LoadKey(k) ==
    /\ pc = "idle" /\ session # "none" /\ k # key
    /\ key' = k
    /\ UNCHANGED <<file, copies, drive, session, throttle, pc, task, views, ghosts>>

\* The user duplicates a .cusc file onto another drive.
Duplicate(d, e) ==
    /\ pc = "idle" /\ d \in onDrive /\ e \notin onDrive
    /\ onDrive' = onDrive \cup {e}
    /\ section' = [section EXCEPT ![e] = section[d]]
    /\ loose' = (loose \/ section[d].seal = "portable")
    /\ UNCHANGED <<file, local, page, throttle, pc, task, views, rebound, interrupts>>

\* Signing out of a window drops its session, its key and its throttle.
NewWindow ==
    /\ session' = "none" /\ key' = "none"
    /\ mismatches' = 0 /\ throttled' = FALSE /\ tries' = 0

OpenWindows == {n \in 1..MaxAttempts : attempt[n].window = "open"}

Quit ==
    /\ pc = "idle" /\ session # "none" /\ OpenWindows = {}
    /\ NewWindow
    /\ UNCHANGED <<file, copies, drive, pc, task, views, ghosts>>

\* The program dies; the records of open windows were only in memory.
Crash ==
    /\ session # "none"
    /\ Interrupted
    /\ NewWindow
    /\ pc' = "idle"
    /\ task' = NoTask
    /\ attempt' = [n \in 1..MaxAttempts |->
                     IF attempt[n].window = "open"
                     THEN [attempt[n] EXCEPT !.window = "lost"] ELSE attempt[n]]
    /\ UNCHANGED <<file, copies, drive, attempts, rebound, loose>>

\* The lockout of the throttle runs out; its count stays.
LockoutExpires ==
    /\ throttled
    /\ throttled' = FALSE
    /\ tries' = 0
    /\ UNCHANGED <<file, copies, page, mismatches, pc, task, views, ghosts>>

(***************************************************************************)
(* Storing the file: the database row is saved before the container is     *)
(* written; a decoy session has no database.  The portable section exists  *)
(* if the user gave a passphrase.                                          *)
(***************************************************************************)
StoredCopy(seal, mode) ==
    [seal  |-> seal,
     real  |-> TRUE,
     bound |-> IF mode = "free" THEN NoDrive ELSE drive,
     wrap  |-> IF mode = "drive" THEN drive ELSE NoDrive]

StoreRecord(mode, oneTime, portable) ==
    /\ pc = "idle" /\ session # "none" /\ drive # NoDrive /\ ~file.stored
    /\ file' = [stored |-> TRUE, oneTime |-> oneTime, mode |-> mode, home |-> drive]
    /\ local' = IF session = "real" THEN StoredCopy("session", mode) ELSE local
    /\ pc' = "write"
    /\ task' = [NoTask EXCEPT
                  !.at = drive,
                  !.section = IF portable
                              THEN StoredCopy("portable", mode)
                              ELSE NoCopy]
    /\ UNCHANGED <<onDrive, section, page, throttle, views, ghosts>>

WriteContainer ==
    /\ pc = "write"
    /\ onDrive' = onDrive \cup {task.at}
    /\ section' = [section EXCEPT ![task.at] = task.section]
    /\ pc' = "idle" /\ task' = NoTask
    /\ UNCHANGED <<file, local, page, throttle, views, ghosts>>

WriteFails ==
    /\ pc = "write"
    /\ Interrupted
    /\ pc' = "idle" /\ task' = NoTask
    /\ UNCHANGED <<file, copies, page, throttle, views, rebound, loose>>

(***************************************************************************)
(* Viewing the file.                                                       *)
(***************************************************************************)
\* The copy a view goes through; its snapshot of a section is kept from the
\* click, the local row is loaded when the view is validated.
SourceOf(t) == IF t.via = "section" THEN t.section ELSE local

\* The HMAC of the copy verifies under the protection keys of the view.
Authentic(c, t) ==
    \/ t.via = "section" /\ c.seal = "portable" /\ t.key = "right"
    \/ t.via = "local" /\ c.seal = "session"

DeviceAccepted(c, t) == c.bound \in {NoDrive, t.at}

\* The wrapped key of the copy unwraps, and is the one the content needs.
Decrypts(c, t) == /\ t.key = "right" /\ c.real
                  /\ file.mode = "drive" => c.wrap = t.at

\* Slip: a database row is thought to be a mirror only when there is no
\* portable section to be its primary.
SlipNoMirror(via) == via = "none" /\ local # NoCopy

Mirrored(via) == via = "section" /\ local # NoCopy

\* The portable section is the source if there is one; a misread of the
\* container at that moment makes the view fall back to the local row.
ClickView(misread) ==
    /\ pc = "idle" /\ session # "none" /\ key # "none" /\ drive \in onDrive
    /\ attempts < MaxAttempts
    /\ LET hasSection == section[drive] # NoCopy
           via == IF session = "decoy" THEN "none"
                  ELSE IF hasSection /\ ~misread THEN "section" ELSE "local"
           t == [via |-> via, at |-> drive, mirrored |-> Mirrored(via),
                 key |-> key, section |-> section[drive]]
           c == SourceOf(t)
           n == attempts + 1
       IN  /\ misread => session = "real" /\ hasSection
           /\ task' = t
           /\ attempts' = n
           /\ attempt' = [attempt EXCEPT ![n] =
                [NoAttempt EXCEPT
                   !.by = session, !.at = drive,
                   !.due = /\ session = "real" /\ Authentic(c, t)
                           /\ DeviceAccepted(c, t) /\ Decrypts(c, t),
                   !.moved = drive = rebound]]
    /\ pc' = "attempt"
    /\ IF misread THEN Interrupted ELSE UNCHANGED interrupts
    /\ UNCHANGED <<file, copies, page, throttle, rebound, loose>>

\* The outcome of the view in progress; its window comes next.
Outcome(f) ==
    /\ attempt' = [attempt EXCEPT ![attempts] = f]
    /\ UNCHANGED <<file, copies, page, task, attempts, ghosts>>

This == attempt[attempts]

\* A decoy session is deceived before anything else is looked at.
ForcedDeception ==
    /\ pc = "attempt" /\ session = "decoy"
    /\ Outcome([This EXCEPT !.trigger = "credentials"])
    /\ pc' = "show"
    /\ UNCHANGED throttle

\* A throttled file is refused without a validation and without a record.
Throttled ==
    /\ pc = "attempt" /\ session = "real" /\ throttled
    /\ Outcome([This EXCEPT !.trigger = "mismatch"])
    /\ pc' = "show"
    /\ UNCHANGED throttle

Validating == pc = "attempt" /\ session = "real" /\ ~throttled

\* Slip: the lockout starts one mismatch late.
SlipLocks(count) == count > MaxFailedAttempts

Locks(count) == count >= MaxFailedAttempts

RegisterMismatch ==
    /\ mismatches' = mismatches + 1
    /\ throttled' = Locks(mismatches + 1)
    /\ tries' = tries + 1

RegisterSuccess ==
    /\ mismatches' = 0 /\ throttled' = FALSE
    /\ tries' = 0

\* The copy does not verify, or the drive is not the one it is bound to.
ValidationFails ==
    /\ Validating
    /\ LET c == SourceOf(task)
           checked == [This EXCEPT !.checked = TRUE, !.tracked = TRUE]
       IN  \/ /\ ~Authentic(c, task)
              /\ Outcome([checked EXCEPT !.trigger = "tampering"])
              /\ UNCHANGED throttle
           \/ /\ Authentic(c, task) /\ ~DeviceAccepted(c, task)
              /\ Outcome([checked EXCEPT !.trigger = "mismatch"])
              /\ RegisterMismatch
    /\ pc' = "show"

\* Slip: the key the page holds now, not the one it held at the click.
SlipViewWrapper == [task EXCEPT !.key = key]

ViewWrapper == task

\* The copy is valid, its usage record takes the time of opening, and then
\* its content is decrypted, which may fail.
ValidationPasses ==
    /\ Validating
    /\ LET c == SourceOf(task)
           checked == [This EXCEPT !.checked = TRUE, !.tracked = TRUE, !.opened = TRUE]
       IN  /\ Authentic(c, task) /\ DeviceAccepted(c, task)
           /\ RegisterSuccess
           /\ \/ /\ ~Decrypts(c, ViewWrapper)
                 /\ Outcome([checked EXCEPT !.trigger = "used"])
                 /\ pc' = "show"
              \/ /\ Decrypts(c, ViewWrapper)
                 /\ Outcome([checked EXCEPT !.granted = TRUE])
                 /\ pc' = IF file.oneTime THEN "burn" ELSE "show"

(***************************************************************************)
(* Burning a one-time file: the copy the view went through is rewritten    *)
(* with a decoy key and sealed with keys nobody keeps; then the identical  *)
(* record is saved to the mirror.  Each save may fail, and the exception   *)
(* leaves the whole view behind.                                           *)
(***************************************************************************)
\* Slip: the record is sealed anew, but the file's key stays in it and the
\* session's keys still open it.
SlipBurned(c) == [c EXCEPT !.real = TRUE]

Burned(c) == [c EXCEPT !.real = FALSE, !.seal = "gone"]

BurnPrimary ==
    /\ pc = "burn"
    /\ IF task.via = "section"
       THEN /\ onDrive' = onDrive \cup {task.at}
            /\ section' = [section EXCEPT ![task.at] = Burned(task.section)]
            /\ UNCHANGED <<local, loose>>
       ELSE /\ local' = Burned(local)
            /\ loose' = (loose \/ task.section.seal = "portable")
            /\ UNCHANGED <<onDrive, section>>
    /\ pc' = IF task.mirrored THEN "mirror" ELSE "unlink"
    /\ UNCHANGED <<file, page, throttle, task, views, rebound, interrupts>>

BurnMirror ==
    /\ pc = "mirror"
    /\ local' = Burned(task.section)
    /\ pc' = "unlink"
    /\ UNCHANGED <<file, onDrive, section, page, throttle, task, views, ghosts>>

SaveFails ==
    /\ pc \in {"burn", "mirror"}
    /\ Interrupted
    /\ pc' = "idle" /\ task' = NoTask
    /\ UNCHANGED <<file, copies, page, throttle, views, rebound, loose>>

\* Slip: the error of a failed deletion leaves the handler.
SlipAfterUnlink(deleted) == IF deleted THEN "show" ELSE "idle"

AfterUnlink(deleted) == "show"

\* The container is deleted after the burn; a failure is logged and ignored.
Unlink(deleted) ==
    /\ pc = "unlink"
    /\ pc' = AfterUnlink(deleted)
    /\ IF deleted
       THEN /\ onDrive' = onDrive \ {task.at}
            /\ section' = [section EXCEPT ![task.at] = NoCopy]
       ELSE UNCHANGED <<onDrive, section>>
    /\ UNCHANGED <<file, local, page, throttle, task, views, ghosts>>

\* Only now does the user see a window, with the content or with a decoy.
Show ==
    /\ pc = "show"
    /\ attempt' = [attempt EXCEPT ![attempts].window = "open"]
    /\ pc' = "idle" /\ task' = NoTask
    /\ UNCHANGED <<file, copies, page, throttle, attempts, ghosts>>

\* Slip: the usage record is sealed only for views that were granted.
SlipLogged(a) == IF a.granted THEN a.logged + 1 ELSE a.logged

Logged(a) == IF a.tracked THEN a.logged + 1 ELSE a.logged

\* A window is closed by the user, or by the screen capture watcher, whose
\* timer also runs while the page waits for a view to start.  Its usage
\* record is sealed, and the page forgets the key it holds by now.
CloseWindow(n) ==
    /\ pc \in {"idle", "attempt"}
    /\ attempt[n].window = "open"
    /\ attempt' = [attempt EXCEPT ![n].window = "closed",
                                  ![n].logged = Logged(attempt[n])]
    /\ key' = "none"
    /\ UNCHANGED <<file, copies, drive, session, throttle, pc, task, attempts, ghosts>>

\* The page keeps one window alive, that of the last view.  A window it no
\* longer refers to may be destroyed while it is open: no close event reaches
\* it, so nothing is sealed and the key stays.
DropWindow(n) ==
    /\ pc \in {"idle", "attempt"}
    /\ n < attempts /\ attempt[n].window = "open"
    /\ attempt' = [attempt EXCEPT ![n].window = "lost"]
    /\ UNCHANGED <<file, copies, page, throttle, pc, task, attempts, ghosts>>

(***************************************************************************)
(* Rebinding: the user moves the binding of the local row to the selected  *)
(* drive.  The page passes that drive as the old one too, and no mirrors.  *)
(***************************************************************************)
\* Slip: the fingerprint of the enrolled drive is read back from the record,
\* not from a drive that is there.
SlipUnwraps(c, d) == TRUE

Unwraps(c, d) == file.mode = "drive" => c.wrap = d

ReboundCopy(c, d) ==
    [c EXCEPT !.bound = d, !.wrap = IF file.mode = "drive" THEN d ELSE NoDrive]

Rebind ==
    /\ pc = "idle" /\ session = "real" /\ key # "none" /\ drive \in onDrive
    /\ local.seal = "session" /\ local.bound # NoDrive
    /\ Unwraps(local, drive)
    /\ local' = ReboundCopy(local, drive)
    /\ rebound' = drive
    /\ UNCHANGED <<file, onDrive, section, page, throttle, pc, task, views, loose,
                   interrupts>>

Next ==
    \/ \E d \in Drives : Plug(d)
    \/ \E s \in {"decoy", "real"} : SignIn(s)
    \/ \E k \in {"right", "wrong"} : LoadKey(k)
    \/ \E d, e \in Drives : Duplicate(d, e)
    \/ Quit \/ Crash \/ LockoutExpires
    \/ \E mode \in Modes, oneTime, portable \in BOOLEAN :
         StoreRecord(mode, oneTime, portable)
    \/ WriteContainer \/ WriteFails
    \/ \E misread \in BOOLEAN : ClickView(misread)
    \/ ForcedDeception \/ Throttled \/ ValidationFails \/ ValidationPasses
    \/ BurnPrimary \/ BurnMirror \/ SaveFails
    \/ \E deleted \in BOOLEAN : Unlink(deleted)
    \/ Show
    \/ \E n \in 1..MaxAttempts : CloseWindow(n) \/ DropWindow(n)
    \/ Rebind

\* A handler the program has entered runs on by itself, to the step where
\* control returns to the user or to an interruption; the user owes nothing.
Handler == ForcedDeception \/ Throttled \/ ValidationFails \/ ValidationPasses
           \/ BurnPrimary \/ BurnMirror
           \/ (\E deleted \in BOOLEAN : Unlink(deleted)) \/ Show

Spec == Init /\ [][Next]_vars
FairSpec == Spec /\ WF_vars(Handler)

-----------------------------------------------------------------------------
Views == 1..MaxAttempts

Shown(n) == attempt[n].granted /\ attempt[n].window # "none"

\* A one-time file is shown once, whatever saves failed, whenever the program
\* died and whichever copy a view fell back to: the window is shown only after
\* every save of the burn.  (A second portable section, and a section a burn
\* through the local row fell back from, are out of the burn's reach.)
OneView ==
    file.oneTime /\ ~loose => \A m, n \in Views : Shown(m) /\ Shown(n) => m = n

\* A file without the policy has no promise to keep, nor one with a portable
\* section that a burn does not reach.
Promised == file.stored => file.oneTime /\ ~loose

\* Some copy verifies, or may still be written.
CanBeOpened ==
    \/ ~file.stored \/ pc = "write"
    \/ local.seal = "session"
    \/ \E d \in Drives : section[d].seal = "portable"

\* The file, seen from outside, is what module OneTime describes: once no copy
\* opens any more none ever does again, and its only window opens after that
\* (one_time_access.py:95-124, secure_access_service.py:415-446).
OneTimeState ==
    IF ~Promised THEN "void"
    ELSE IF \E n \in Views : Shown(n) THEN "shown"
    ELSE IF CanBeOpened THEN "unburned" ELSE "burned"

OneTimeFile == INSTANCE OneTime WITH state <- OneTimeState
BurnedThenShown == OneTimeFile!Spec

\* The usage log: a view that was validated, granted or refused, is sealed
\* into it once, when its window is closed and not before, in whatever order
\* windows close; the entry of a granted one has the time it was opened
\* (secure_access_service.py:314-390, tracking_service.py:87-104).  It says nothing
\* of views that were not validated, for which lines 69-72 promise an entry too and
\* the code starts no session, nor of the time of opening in the entry of a view
\* that was refused, which the code takes before it decrypts.
ClosedViewsLogged ==
    \A n \in Views :
        LET a == attempt[n]
        IN  /\ a.logged <= 1
            /\ a.logged = 1 => a.window = "closed"
            /\ a.window = "closed" /\ a.checked => a.logged = 1
            /\ a.granted => a.opened

\* A view that deserved to be granted when it was clicked is granted, unless
\* the file is throttled: no window that closes meanwhile, and no key it
\* takes from the page, spoils a view in progress.
DueViewsGranted ==
    \A n \in Views :
        /\ attempt[n].due /\ attempt[n].checked => attempt[n].granted
        /\ attempt[n].granted => attempt[n].by = "real"

\* A file bound to its drive alone is granted on the drive it was stored on
\* and on no other, rebound or not, from whichever copy of its container.
DriveBoundContent ==
    file.mode = "drive" => \A n \in Views : attempt[n].granted => attempt[n].at = file.home

\* No more mismatches in a row are validated than the lockout threshold,
\* unless a lockout is waited for, a matching drive succeeds or the program
\* is restarted between them.
MismatchesBounded == tries <= MaxFailedAttempts

Granting(n) ==
    n = attempts /\ attempt[n].granted /\ pc \in {"burn", "mirror", "unlink", "show"}

\* The throttle of a file, whatever a view in progress is interrupted by: it locks at the
\* threshold, and what finds it locked is neither counted nor forgiven.  It is the one
\* that Gate, with the durations, implements (secure_access_service.py:301-361, device_mismatch_throttle.py:55-80).
StrikeCount == INSTANCE Strikes WITH
    Threshold <- MaxFailedAttempts, Volatile <- TRUE,
    strikes <- IF mismatches < MaxFailedAttempts THEN mismatches ELSE MaxFailedAttempts,
    locked <- throttled
LocksOut == StrikeCount!Spec

\* A granted view in progress is shown to the user, unless a crash or a failed
\* save intervenes: a container that cannot be deleted does not cost the view.
GrantedIsShown ==
    \A n \in Views : \A i \in 0..MaxInterrupts :
        (Granting(n) /\ interrupts = i) ~> (attempt[n].window # "none" \/ interrupts > i)

(***************************************************************************)
(* What the repository says of the program and the code does not do.       *)
(***************************************************************************)
\* decryption_page: "Rebind" moves "this file's device binding to whatever
\* device is currently selected": a validation on the drive the file was
\* last rebound to reports no mismatch.
ReboundDriveAccepted ==
    \A n \in Views :
        attempt[n].moved /\ attempt[n].checked => attempt[n].trigger # "mismatch"
=============================================================================
