------------------------------ MODULE AccessInv ------------------------------
(***************************************************************************)
(* Why the invariants of module Access hold: an invariant strong enough to *)
(* be inductive, in named parts.  TLC can check it with MCAccess;          *)
(* AccessProofs proves that every step preserves it.                       *)
(***************************************************************************)
EXTENDS Access

\* A view is in progress.
Viewing == pc \notin {"idle", "write"}

\* Every mismatch is counted by a view of its own, and a view in progress has
\* a number.
Counted ==
    /\ mismatches <= attempts /\ tries <= attempts
    /\ Viewing => attempts > 0
    /\ pc = "attempt" => mismatches < attempts /\ tries < attempts

\* A view or a write in progress is on a drive.
OnADrive == pc # "idle" => task.at \in Drives

TypeInv == TypeOK /\ Counted /\ OnADrive

\* Views not clicked yet have no history, and the view in progress has no
\* window; before it is validated it has no outcome.
History ==
    /\ \A n \in Views : n > attempts => attempt[n] = NoAttempt
    /\ Viewing => attempt[attempts].window = "none"
    /\ pc = "attempt" => ~attempt[attempts].granted /\ ~attempt[attempts].checked

\* Who asked for the view in progress, where, and that the copies are still
\* those it deserved to be granted for.
TaskStands ==
    pc = "attempt" =>
        /\ session # "none"
        /\ attempt[attempts].by = session
        /\ attempt[attempts].at = task.at
        /\ LET c == SourceOf(task)
           IN  attempt[attempts].due =>
                  Authentic(c, task) /\ DeviceAccepted(c, task) /\ Decrypts(c, task)

\* A validation starts the usage session of a view, and the close of its window
\* seals it: that is all that is ever sealed.
Sealing ==
    \A n \in Views :
        /\ attempt[n].tracked <=> attempt[n].checked
        /\ attempt[n].logged = IF attempt[n].window = "closed" /\ attempt[n].checked
                               THEN 1 ELSE 0
        /\ attempt[n].granted => attempt[n].opened

\* A count below the threshold stands behind every row of unlocked mismatches.
ThrottleCounts ==
    /\ tries <= mismatches
    /\ ~throttled /\ tries > 0 => mismatches < MaxFailedAttempts
    /\ MismatchesBounded

\* Nothing exists of a file that was not stored, and nothing but the local row
\* of one that is being written.
Unstored ==
    /\ ~file.stored => pc # "write" /\ local = NoCopy
    /\ ~file.stored \/ pc = "write" =>
          /\ onDrive = {}
          /\ \A n \in Views : ~attempt[n].granted
    /\ \A d \in Drives \ onDrive : section[d] = NoCopy

\* A copy that holds the file's key, wrapped for a drive, is wrapped for the
\* drive the file was stored on.
AtHome(c) == c.real => c.wrap = file.home

WrapsAtHome ==
    file.mode = "drive" =>
        /\ AtHome(local) /\ AtHome(task.section)
        /\ \A d \in Drives : AtHome(section[d])

\* The task of a view before its burn: it stands on a drive that holds the
\* container, its snapshot is what the container says, and the local row is
\* its mirror if there is one.
Snapshot ==
    pc \in {"attempt", "burn"} =>
        /\ task.at \in onDrive
        /\ section[task.at] = task.section
        /\ task.via = "section" => (task.mirrored <=> local # NoCopy)
        /\ task.via # "section" => ~task.mirrored

\* One container at most has a section that views can use, unless a copy of
\* it was made.
SoleSection ==
    ~loose => \A d \in Drives : section[d].seal = "portable" => onDrive = {d}

\* No copy verifies.
SectionsDead == \A d \in Drives : section[d].seal # "portable"
Dead == SectionsDead /\ local.seal # "session"

\* A one-time file that was shown is dead.  A view that was granted is the
\* first, and by the time its burn is done the file is dead.
BurnSteps ==
    file.oneTime /\ ~loose =>
        /\ (\E n \in Views : Shown(n)) => Dead
        /\ Viewing /\ attempt[attempts].granted =>
              /\ \A n \in Views : ~Shown(n)
              /\ pc \in {"unlink", "show"} => Dead
        /\ pc = "burn" =>
              \/ task.via = "section" /\ section[task.at].seal = "portable"
              \/ task.via = "local" /\ local.seal = "session"
        /\ pc = "mirror" => SectionsDead

\* A burn is under way only of a view that was granted.
Burning == pc \in {"burn", "mirror", "unlink"} => attempt[attempts].granted

IInv ==
    /\ TypeInv
    /\ History
    /\ TaskStands
    /\ Sealing
    /\ ThrottleCounts
    /\ Unstored
    /\ WrapsAtHome
    /\ Snapshot
    /\ SoleSection
    /\ BurnSteps
    /\ Burning
    /\ DriveBoundContent
    /\ DueViewsGranted
    /\ OneView
=============================================================================
