---------------------------- MODULE AccessProofs ----------------------------
(***************************************************************************)
(* Proofs about the life of a file, for every set of drives, every lockout *)
(* threshold and every number of views and interruptions: its types, then  *)
(* that a one-time file is shown once and implements OneTime, the usage    *)
(* log has one entry per validated view, views are granted when they       *)
(* deserve it and on no other drive, and mismatches in a row are bounded.  *)
(*                                                                         *)
(* The steps are sorted into groups; for each group a lemma says what it   *)
(* does to a view and to a copy, and each part of the invariant is then    *)
(* proved from those lemmas.                                               *)
(***************************************************************************)
EXTENDS AccessInv, TLAPS

-----------------------------------------------------------------------------
(***************************************************************************)
(* Type correctness.                                                       *)
(***************************************************************************)

\* The copies and tasks the actions build are typed.
LEMMA CopiesTyped ==
    ASSUME TypeInv
    PROVE  /\ NoCopy \in Copies /\ NoTask \in Tasks /\ NoAttempt \in Attempts
           /\ \A seal \in Seals, mode \in Modes : StoredCopy(seal, mode) \in Copies
           /\ \A c \in Copies : Burned(c) \in Copies
           /\ \A c \in Copies, d \in Drives : ReboundCopy(c, d) \in Copies
BY DEF NoCopy, Copies, Seals, NoTask, Tasks, Sources, NoAttempt, Attempts, Triggers,
       StoredCopy, Burned, ReboundCopy, TypeInv, TypeOK

\* The number of the view in progress is one of a view.
LEMMA ThisTyped ==
    ASSUME TypeInv, Viewing
    PROVE  /\ attempts \in Views
           /\ attempt[attempts] \in Attempts
BY AccessAssumption DEF TypeInv, TypeOK, Counted, Views

\* The numbers the actions assign are in range.
LEMMA NumbersTyped ==
    ASSUME TypeInv
    PROVE  /\ 0 \in 0..MaxAttempts /\ 0 <= attempts
           /\ interrupts < MaxInterrupts => interrupts + 1 \in 0..MaxInterrupts
BY AccessAssumption DEF TypeInv, TypeOK

\* Losing the open windows keeps the history typed.
LEMMA LostTyped ==
    ASSUME TypeInv, NEW n \in 1..MaxAttempts
    PROVE  (IF attempt[n].window = "open"
            THEN [attempt[n] EXCEPT !.window = "lost"] ELSE attempt[n]) \in Attempts
<1>1. attempt[n] \in Attempts
  BY DEF TypeInv, TypeOK
<1> QED
  BY <1>1 DEF Attempts

\* Recording an outcome of the view in progress keeps the history typed.
LEMMA OutcomeTyped ==
    ASSUME TypeInv, Viewing, NEW f \in Attempts,
           attempt' = [attempt EXCEPT ![attempts] = f]
    PROVE  attempt' \in [1..MaxAttempts -> Attempts]
BY DEF TypeInv, TypeOK

LEMMA TypeInit == Init => TypeInv
<1> SUFFICES ASSUME Init PROVE TypeInv
  OBVIOUS
<1>1. NoCopy \in Copies /\ NoTask \in Tasks /\ NoAttempt \in Attempts
  BY DEF NoCopy, Copies, Seals, NoTask, Tasks, Sources, NoAttempt, Attempts, Triggers
<1>2. /\ attempts \in 0..MaxAttempts /\ tries \in 0..MaxAttempts
      /\ mismatches \in 0..MaxAttempts /\ interrupts \in 0..MaxInterrupts
  BY AccessAssumption DEF Init
<1>3. file \in [stored : BOOLEAN, oneTime : BOOLEAN, mode : Modes,
                home : Drives \cup {NoDrive}]
  BY DEF Init, Modes
<1>4. Counted
  BY DEF Init, Counted, Viewing
<1> QED
  BY <1>1, <1>2, <1>3, <1>4 DEF Init, TypeInv, TypeOK, OnADrive, Places

LEMMA TypeStep == TypeInv /\ [Next]_vars => TypeInv'
<1> SUFFICES ASSUME TypeInv, [Next]_vars PROVE TypeInv'
  OBVIOUS
<1> USE CopiesTyped DEF copies, throttle, page, views, ghosts
<1>1. ASSUME NEW d \in Drives, Plug(d) PROVE TypeInv'
  BY <1>1 DEF Plug, TypeInv, TypeOK, Counted, OnADrive, Viewing
<1>2. ASSUME NEW s \in {"decoy", "real"}, SignIn(s) PROVE TypeInv'
  BY <1>2 DEF SignIn, TypeInv, TypeOK, Counted, OnADrive, Viewing
<1>3. ASSUME NEW k \in {"right", "wrong"}, LoadKey(k) PROVE TypeInv'
  BY <1>3 DEF LoadKey, TypeInv, TypeOK, Counted, OnADrive, Viewing
<1>4. ASSUME NEW d \in Drives, NEW e \in Drives, Duplicate(d, e) PROVE TypeInv'
  BY <1>4 DEF Duplicate, TypeInv, TypeOK, Counted, OnADrive, Viewing
<1>5. CASE Quit
  BY <1>5, NumbersTyped DEF Quit, NewWindow, TypeInv, TypeOK, Counted, OnADrive, Viewing
<1>6. CASE Crash
  <2>1. attempt' \in [1..MaxAttempts -> Attempts]
    BY <1>6, LostTyped DEF Crash
  <2>2. interrupts' \in 0..MaxInterrupts
    BY <1>6, NumbersTyped DEF Crash, Interrupted
  <2>3. /\ pc' = "idle" /\ task' = NoTask /\ session' = "none" /\ key' = "none"
        /\ mismatches' = 0 /\ tries' = 0 /\ throttled' = FALSE
        /\ UNCHANGED <<file, local, onDrive, section, drive, attempts, rebound, loose>>
    BY <1>6 DEF Crash, NewWindow
  <2>4. TypeOK'
    BY <2>1, <2>2, <2>3, NumbersTyped DEF TypeInv, TypeOK, Places
  <2>5. Counted' /\ OnADrive'
    BY <2>3, NumbersTyped DEF Counted, OnADrive, Viewing
  <2> QED
    BY <2>4, <2>5 DEF TypeInv
<1>7. CASE LockoutExpires
  <2>1. Counted'
    BY <1>7, NumbersTyped DEF LockoutExpires, TypeInv, Counted, Viewing
  <2>2. TypeOK' /\ OnADrive'
    BY <1>7, NumbersTyped DEF LockoutExpires, TypeInv, TypeOK, OnADrive
  <2> QED
    BY <2>1, <2>2 DEF TypeInv
<1>8. ASSUME NEW mode \in Modes, NEW oneTime \in BOOLEAN, NEW portable \in BOOLEAN,
             StoreRecord(mode, oneTime, portable)
      PROVE  TypeInv'
  <2>1. /\ "portable" \in Seals /\ "session" \in Seals
    BY DEF Seals
  <2>2. task' \in Tasks
    BY <1>8, <2>1 DEF StoreRecord, Tasks, NoTask, TypeInv, TypeOK
  <2>3. local' \in Copies
    BY <1>8, <2>1 DEF StoreRecord, TypeInv, TypeOK
  <2> QED
    BY <1>8, <2>2, <2>3 DEF StoreRecord, TypeInv, TypeOK, Counted, OnADrive, Viewing, Places
<1>9. CASE WriteContainer
  <2>1. task.section \in Copies
    BY DEF TypeInv, TypeOK, Tasks
  <2>2. onDrive' \subseteq Drives /\ section' \in [Drives -> Copies]
    BY <1>9, <2>1 DEF WriteContainer, OnADrive, TypeInv, TypeOK
  <2> QED
    BY <1>9, <2>2 DEF WriteContainer, TypeInv, TypeOK, Counted, OnADrive, Viewing, Places
<1>10. CASE WriteFails
  BY <1>10, NumbersTyped DEF WriteFails, Interrupted, TypeInv, TypeOK, Counted,
     OnADrive, Viewing, Places
<1>11. ASSUME NEW misread \in BOOLEAN, ClickView(misread) PROVE TypeInv'
  <2>1. attempts < MaxAttempts /\ attempts' = attempts + 1
    BY <1>11 DEF ClickView
  <2>2. /\ attempts + 1 \in 0..MaxAttempts /\ attempts' \in 1..MaxAttempts
        /\ mismatches < attempts' /\ tries < attempts' /\ attempts' > 0
        /\ mismatches <= attempts' /\ tries <= attempts'
    BY <2>1, AccessAssumption DEF TypeInv, TypeOK, Counted
  <2>3. drive \in Drives /\ section[drive] \in Copies /\ drive \in onDrive
    BY <1>11 DEF ClickView, TypeInv, TypeOK
  <2>4. task' \in Tasks /\ task'.at = drive
    BY <1>11, <2>3 DEF ClickView, Mirrored, Tasks, Sources, TypeInv, TypeOK
  <2>5. \A a, b \in BOOLEAN :
           [NoAttempt EXCEPT !.by = session, !.at = drive, !.due = a,
                             !.moved = b] \in Attempts
    BY <1>11, <2>3 DEF ClickView, NoAttempt, Attempts, Triggers, TypeInv, TypeOK
  <2>6. attempt' \in [1..MaxAttempts -> Attempts]
    BY <1>11, <2>5 DEF ClickView, TypeInv, TypeOK
  <2>7. interrupts' \in 0..MaxInterrupts
    BY <1>11, NumbersTyped DEF ClickView, Interrupted, TypeInv, TypeOK
  <2> QED
    BY <1>11, <2>1, <2>2, <2>3, <2>4, <2>6, <2>7
       DEF ClickView, TypeInv, TypeOK, Counted, OnADrive, Viewing, Places
<1>12. ASSUME Viewing, NEW f \in Attempts, Outcome(f), pc' \in {"burn", "show"},
              \/ UNCHANGED throttle
              \/ RegisterSuccess
              \/ RegisterMismatch /\ pc = "attempt"
       PROVE  TypeInv'
  <2>1. attempt' \in [1..MaxAttempts -> Attempts]
    BY <1>12, OutcomeTyped DEF Outcome
  <2>2. /\ mismatches' \in 0..MaxAttempts /\ tries' \in 0..MaxAttempts
        /\ mismatches' <= attempts /\ tries' <= attempts /\ throttled' \in BOOLEAN
    <3>1. CASE UNCHANGED throttle
      BY <3>1 DEF TypeInv, TypeOK, Counted
    <3>2. CASE RegisterSuccess
      BY <3>2, NumbersTyped DEF RegisterSuccess
    <3>3. CASE RegisterMismatch /\ pc = "attempt"
      BY <3>3, AccessAssumption DEF RegisterMismatch, Locks, TypeInv, TypeOK, Counted
    <3> QED
      BY <1>12, <3>1, <3>2, <3>3
  <2>3. pc # "idle" /\ task' = task /\ attempts' = attempts /\ attempts > 0
    BY <1>12 DEF Outcome, Viewing, TypeInv, Counted
  <2>4. TypeOK'
    <3>1. pc' \in Places /\ pc' # "idle"
      BY <1>12 DEF Places
    <3> QED
      BY <1>12, <2>1, <2>2, <2>3, <3>1 DEF Outcome, TypeInv, TypeOK
  <2> QED
    BY <1>12, <2>2, <2>3, <2>4 DEF TypeInv, Counted, OnADrive, Viewing
<1>13. CASE ForcedDeception \/ Throttled
  <2>1. Viewing
    BY <1>13 DEF ForcedDeception, Throttled, Viewing
  <2>2. \A t \in Triggers : [This EXCEPT !.trigger = t] \in Attempts
    BY <2>1, ThisTyped DEF This, Attempts
  <2> QED
    BY <1>13, <1>12, <2>1, <2>2 DEF ForcedDeception, Throttled, Triggers
<1>14. CASE ValidationFails \/ ValidationPasses
  <2>1. Viewing /\ pc = "attempt"
    BY <1>14 DEF ValidationFails, ValidationPasses, Validating, Viewing
  <2> DEFINE checked == [This EXCEPT !.checked = TRUE, !.tracked = TRUE]
             opened == [This EXCEPT !.checked = TRUE, !.tracked = TRUE, !.opened = TRUE]
  <2>2. /\ \A t \in Triggers : [checked EXCEPT !.trigger = t] \in Attempts
        /\ \A t \in Triggers : [opened EXCEPT !.trigger = t] \in Attempts
        /\ [opened EXCEPT !.granted = TRUE] \in Attempts
    BY <2>1, ThisTyped DEF This, Attempts
  <2>3. CASE ValidationFails
    BY <1>12, <2>1, <2>2, <2>3 DEF ValidationFails, Triggers
  <2>4. CASE ValidationPasses
    BY <1>12, <2>1, <2>2, <2>4 DEF ValidationPasses, Triggers
  <2> QED
    BY <1>14, <2>3, <2>4
<1>15. CASE BurnPrimary
  <2>1. /\ pc = "burn" /\ Viewing /\ task \in Tasks /\ task.at \in Drives
        /\ task.section \in Copies
    BY <1>15 DEF BurnPrimary, Viewing, TypeInv, TypeOK, OnADrive, Tasks
  <2>2. onDrive' \subseteq Drives /\ section' \in [Drives -> Copies] /\ local' \in Copies
        /\ loose' \in BOOLEAN
    BY <1>15, <2>1 DEF BurnPrimary, TypeInv, TypeOK
  <2>3. pc' \in {"mirror", "unlink"}
    BY <1>15 DEF BurnPrimary
  <2> QED
    BY <1>15, <2>1, <2>2, <2>3
       DEF BurnPrimary, TypeInv, TypeOK, Counted, OnADrive, Viewing, Places
<1>16. CASE BurnMirror
  <2>1. pc = "mirror" /\ Viewing /\ task.section \in Copies
    BY <1>16 DEF BurnMirror, Viewing, TypeInv, TypeOK, Tasks
  <2>2. local' \in Copies
    BY <1>16, <2>1 DEF BurnMirror
  <2> QED
    BY <1>16, <2>1, <2>2
       DEF BurnMirror, TypeInv, TypeOK, Counted, OnADrive, Viewing, Places
<1>17. CASE SaveFails
  BY <1>17, NumbersTyped DEF SaveFails, Interrupted, TypeInv, TypeOK, Counted, OnADrive,
     Viewing, Places
<1>18. ASSUME NEW deleted \in BOOLEAN, Unlink(deleted) PROVE TypeInv'
  <2>1. /\ pc = "unlink" /\ pc' = "show"
        /\ UNCHANGED <<file, local, page, throttle, task, views, ghosts>>
    BY <1>18 DEF Unlink, AfterUnlink
  <2>2. onDrive' \subseteq Drives /\ section' \in [Drives -> Copies]
    <3>1. CASE deleted
      BY <1>18, <3>1 DEF Unlink, TypeInv, TypeOK
    <3>2. CASE ~deleted
      BY <1>18, <3>2 DEF Unlink, TypeInv, TypeOK
    <3> QED
      BY <3>1, <3>2
  <2> QED
    BY <2>1, <2>2 DEF TypeInv, TypeOK, Counted, OnADrive, Viewing, Places
<1>19. CASE Show
  <2>1. Viewing
    BY <1>19 DEF Show, Viewing
  <2>2. [attempt[attempts] EXCEPT !.window = "open"] \in Attempts
    BY <2>1, ThisTyped DEF Attempts
  <2>3. attempt' \in [1..MaxAttempts -> Attempts]
    BY <1>19, <2>1, <2>2, ThisTyped DEF Show, TypeInv, TypeOK
  <2> QED
    BY <1>19, <2>3 DEF Show, TypeInv, TypeOK, Counted, OnADrive, Viewing, Places
<1>20. ASSUME NEW n \in 1..MaxAttempts, CloseWindow(n) PROVE TypeInv'
  <2>1. attempt[n] \in Attempts /\ Logged(attempt[n]) \in Nat
    BY DEF TypeInv, TypeOK, Attempts, Logged
  <2>2. [[attempt[n] EXCEPT !.window = "closed"] EXCEPT !.logged = Logged(attempt[n])]
           \in Attempts
    BY <2>1 DEF Attempts
  <2>3. attempt' \in [1..MaxAttempts -> Attempts]
    BY <1>20, <2>1, <2>2 DEF CloseWindow, TypeInv, TypeOK
  <2> QED
    BY <1>20, <2>3 DEF CloseWindow, TypeInv, TypeOK, Counted, OnADrive, Viewing
<1>24. ASSUME NEW n \in 1..MaxAttempts, DropWindow(n) PROVE TypeInv'
  <2>1. attempt[n] \in Attempts
    BY DEF TypeInv, TypeOK
  <2>2. [attempt[n] EXCEPT !.window = "lost"] \in Attempts
    BY <2>1 DEF Attempts
  <2>3. attempt' \in [1..MaxAttempts -> Attempts]
    BY <1>24, <2>1, <2>2 DEF DropWindow, TypeInv, TypeOK
  <2> QED
    BY <1>24, <2>3 DEF DropWindow, TypeInv, TypeOK, Counted, OnADrive, Viewing
<1>21. CASE Rebind
  <2>1. drive \in Drives
    BY <1>21 DEF Rebind, TypeInv, TypeOK
  <2>2. local' \in Copies
    BY <1>21, <2>1 DEF Rebind, TypeInv, TypeOK
  <2> QED
    BY <1>21, <2>1, <2>2 DEF Rebind, TypeInv, TypeOK, Counted, OnADrive, Viewing
<1>22. CASE UNCHANGED vars
  BY <1>22 DEF vars, TypeInv, TypeOK, Counted, OnADrive, Viewing
<1> QED
  BY <1>1, <1>2, <1>3, <1>4, <1>5, <1>6, <1>7, <1>8, <1>9, <1>10, <1>11, <1>13,
     <1>14, <1>15, <1>16, <1>17, <1>18, <1>19, <1>20, <1>21, <1>22, <1>24 DEF Next

\* Every reachable state of Access is well typed: in particular the throttle
\* counts no more mismatches than views were clicked, and a handler that ended
\* leaves no locals behind (secure_access_service.py:240-446).
THEOREM TypeCorrect == Spec => []TypeOK
<1>1. Spec => []TypeInv
  BY TypeInit, TypeStep, PTL DEF Spec
<1>2. TypeInv => TypeOK
  BY DEF TypeInv
<1> QED
  BY <1>1, <1>2, PTL

-----------------------------------------------------------------------------
(***************************************************************************)
(* The groups of steps.                                                    *)
(***************************************************************************)
\* What leaves every view and every container as it is.
Surroundings ==
    \/ \E d \in Drives : Plug(d)
    \/ \E s \in {"decoy", "real"} : SignIn(s)
    \/ \E k \in {"right", "wrong"} : LoadKey(k)
    \/ Quit \/ LockoutExpires

Copying   == \E d, e \in Drives : Duplicate(d, e)
Storing   == \E mode \in Modes, oneTime, portable \in BOOLEAN :
                StoreRecord(mode, oneTime, portable)
Clicking  == \E misread \in BOOLEAN : ClickView(misread)
Deciding  == ForcedDeception \/ Throttled \/ ValidationFails \/ ValidationPasses
Unlinking == \E deleted \in BOOLEAN : Unlink(deleted)
Closing   == \E n \in Views : CloseWindow(n) \/ DropWindow(n)
Failing   == WriteFails \/ SaveFails

LEMMA StepCases ==
    ASSUME [Next]_vars
    PROVE  \/ Surroundings \/ Copying \/ Crash \/ Storing \/ WriteContainer
           \/ Failing \/ Clicking \/ Deciding \/ BurnPrimary \/ BurnMirror
           \/ Unlinking \/ Show \/ Closing \/ Rebind \/ UNCHANGED vars
BY DEF Next, Surroundings, Copying, Storing, Clicking, Deciding, Unlinking, Closing,
       Failing, Views

\* Two views agree on what was asked and on what came of it.
SameFate(a, b) ==
    /\ b.by = a.by /\ b.at = a.at
    /\ b.due = a.due /\ b.checked = a.checked
    /\ b.granted = a.granted /\ b.tracked = a.tracked /\ b.opened = a.opened

\* Nothing happens to a view but to its window and its log entry.
FateFrame ==
    /\ attempts' = attempts
    /\ \A n \in Views : SameFate(attempt[n], attempt'[n])

WindowFrame ==
    \A n \in Views : /\ attempt'[n].window = attempt[n].window
                     /\ attempt'[n].logged = attempt[n].logged

FutureFrame == \A n \in Views : n > attempts => attempt'[n] = attempt[n]

CopiesFrame == UNCHANGED <<file, local, onDrive, section, loose>>

-----------------------------------------------------------------------------
(***************************************************************************)
(* What each group does.                                                   *)
(***************************************************************************)
LEMMA SurroundingsEffect ==
    ASSUME Surroundings \/ UNCHANGED vars
    PROVE  /\ UNCHANGED <<attempts, attempt, pc, task>> /\ CopiesFrame
           /\ pc = "idle" \/ UNCHANGED session
BY DEF Surroundings, vars, copies, page, throttle, views, ghosts, Plug, SignIn, LoadKey,
       Quit, LockoutExpires, CopiesFrame

LEMMA CopyingEffect ==
    ASSUME Copying
    PROVE  /\ UNCHANGED <<attempts, attempt, pc, task, session, file, local>>
           /\ pc = "idle"
BY DEF Copying, Duplicate, page, views

LEMMA CrashEffect ==
    ASSUME TypeInv, Crash
    PROVE  /\ CopiesFrame /\ FateFrame /\ pc' = "idle" /\ task' = NoTask
           /\ \A n \in Views :
                 /\ attempt'[n].logged = attempt[n].logged
                 /\ \/ attempt[n].window = "open" /\ attempt'[n].window = "lost"
                    \/ attempt[n].window # "open" /\ attempt'[n] = attempt[n]
<1>1. CopiesFrame /\ pc' = "idle" /\ task' = NoTask /\ attempts' = attempts
  BY DEF Crash, CopiesFrame, copies
<1>2. ASSUME NEW n \in Views
      PROVE  /\ SameFate(attempt[n], attempt'[n])
             /\ attempt'[n].logged = attempt[n].logged
             /\ \/ attempt[n].window = "open" /\ attempt'[n].window = "lost"
                \/ attempt[n].window # "open" /\ attempt'[n] = attempt[n]
  <2>1. attempt[n] \in Attempts
    BY <1>2 DEF TypeInv, TypeOK, Views
  <2>2. attempt'[n] = IF attempt[n].window = "open"
                      THEN [attempt[n] EXCEPT !.window = "lost"] ELSE attempt[n]
    BY <1>2 DEF Crash, Views
  <2> QED
    BY <2>1, <2>2 DEF SameFate, Attempts
<1> QED
  BY <1>1, <1>2 DEF FateFrame

LEMMA FailingEffect ==
    ASSUME Failing
    PROVE  /\ UNCHANGED <<attempts, attempt, session>> /\ CopiesFrame
           /\ pc' = "idle" /\ task' = NoTask
BY DEF Failing, WriteFails, SaveFails, page, copies, views, CopiesFrame

LEMMA StoringEffect ==
    ASSUME Storing
    PROVE  /\ UNCHANGED <<attempts, attempt, session, onDrive, section, loose>>
           /\ pc = "idle" /\ pc' = "write" /\ ~file.stored
BY DEF Storing, StoreRecord, page, views, ghosts

LEMMA WriteEffect ==
    ASSUME WriteContainer
    PROVE  /\ UNCHANGED <<attempts, attempt, session, file, local, loose>>
           /\ pc = "write" /\ pc' = "idle" /\ task' = NoTask
           /\ onDrive' = onDrive \cup {task.at}
           /\ section' = [section EXCEPT ![task.at] = task.section]
BY DEF WriteContainer, page, views, ghosts

\* An attempt decides what becomes of the view in progress, by what its copy
\* and its key are worth.
LEMMA DecidingEffect ==
    ASSUME TypeInv, Deciding
    PROVE  LET a == attempt[attempts]
               b == attempt'[attempts]
               c == SourceOf(task)
               worthy == Authentic(c, task) /\ DeviceAccepted(c, task) /\ Decrypts(c, task)
           IN  /\ CopiesFrame /\ UNCHANGED <<attempts, session, task>>
               /\ pc = "attempt" /\ pc' \in {"burn", "show"}
               /\ \A n \in Views : n # attempts => attempt'[n] = attempt[n]
               /\ b.by = a.by /\ b.at = a.at /\ b.due = a.due
               /\ b.window = a.window /\ b.logged = a.logged
               /\ \/ /\ b.checked = a.checked /\ b.tracked = a.tracked
                     /\ b.granted = a.granted /\ pc' = "show"
                  \/ /\ b.checked = TRUE /\ b.tracked = TRUE
                     /\ session = "real"
                     /\ \/ /\ worthy /\ b.granted = TRUE /\ b.opened = TRUE
                           /\ pc' = "burn" <=> file.oneTime
                        \/ ~worthy /\ b.granted = a.granted /\ pc' = "show"
<1>1. pc = "attempt" /\ Viewing
  BY DEF Deciding, ForcedDeception, Throttled, ValidationFails, ValidationPasses,
     Validating, Viewing
<1>2. attempts \in Views /\ attempt[attempts] \in Attempts
      /\ attempt \in [Views -> Attempts]
  BY <1>1, ThisTyped DEF TypeInv, TypeOK, Views
<1>3. ASSUME NEW f, Outcome(f)
      PROVE  /\ CopiesFrame /\ UNCHANGED <<attempts, session, task>>
             /\ attempt'[attempts] = f
             /\ \A n \in Views : n # attempts => attempt'[n] = attempt[n]
  BY <1>2, <1>3 DEF Outcome, CopiesFrame, copies, page, ghosts
<1>4. CASE ForcedDeception \/ Throttled
  BY <1>1, <1>2, <1>3, <1>4 DEF ForcedDeception, Throttled, This, Attempts
<1>5. CASE ValidationFails
  <2> DEFINE checked == [This EXCEPT !.checked = TRUE, !.tracked = TRUE]
             c == SourceOf(task)
  <2>1. PICK t \in Triggers : Outcome([checked EXCEPT !.trigger = t])
    BY <1>5 DEF ValidationFails, Triggers
  <2>2. /\ ~(Authentic(c, task) /\ DeviceAccepted(c, task))
        /\ session = "real" /\ pc' = "show"
    BY <1>5 DEF ValidationFails, Validating
  <2>3. attempt'[attempts] = [checked EXCEPT !.trigger = t]
    BY <1>3, <2>1
  <2>4. LET a == attempt[attempts]
            b == attempt'[attempts]
        IN  /\ b.by = a.by /\ b.at = a.at /\ b.due = a.due
            /\ b.window = a.window /\ b.logged = a.logged
            /\ b.checked = TRUE /\ b.tracked = TRUE /\ b.granted = a.granted
    BY <1>2, <2>3 DEF This, Attempts
  <2> QED
    BY <1>1, <1>3, <2>1, <2>2, <2>4
<1>6. CASE ValidationPasses
  <2> DEFINE checked == [This EXCEPT !.checked = TRUE, !.tracked = TRUE, !.opened = TRUE]
             c == SourceOf(task)
  <2>1. Authentic(c, task) /\ DeviceAccepted(c, task) /\ session = "real"
    BY <1>6 DEF ValidationPasses, Validating
  <2>2. CASE ~Decrypts(c, task)
    <3>1. Outcome([checked EXCEPT !.trigger = "used"]) /\ pc' = "show"
      BY <1>6, <2>2 DEF ValidationPasses, ViewWrapper
    <3>2. attempt'[attempts] = [checked EXCEPT !.trigger = "used"]
      BY <1>3, <3>1
    <3>3. LET a == attempt[attempts]
              b == attempt'[attempts]
          IN  /\ b.by = a.by /\ b.at = a.at /\ b.due = a.due
              /\ b.window = a.window /\ b.logged = a.logged
              /\ b.checked = TRUE /\ b.tracked = TRUE /\ b.granted = a.granted
      BY <1>2, <3>2 DEF This, Attempts
    <3> QED
      BY <1>1, <1>3, <2>1, <2>2, <3>1, <3>3
  <2>3. CASE Decrypts(c, task)
    <3>1. /\ Outcome([checked EXCEPT !.granted = TRUE])
          /\ pc' = IF file.oneTime THEN "burn" ELSE "show"
      BY <1>6, <2>3 DEF ValidationPasses, ViewWrapper
    <3>2. attempt'[attempts] = [checked EXCEPT !.granted = TRUE]
      BY <1>3, <3>1
    <3>3. LET a == attempt[attempts]
              b == attempt'[attempts]
          IN  /\ b.by = a.by /\ b.at = a.at /\ b.due = a.due
              /\ b.window = a.window /\ b.logged = a.logged
              /\ b.checked = TRUE /\ b.tracked = TRUE /\ b.granted = TRUE
              /\ b.opened = TRUE
      BY <1>2, <3>2 DEF This, Attempts
    <3> QED
      BY <1>1, <1>3, <2>1, <2>3, <3>1, <3>3
  <2> QED
    BY <2>2, <2>3
<1> QED
  BY <1>4, <1>5, <1>6 DEF Deciding

\* A click takes a snapshot of everything the view will use.
LEMMA ClickingEffect ==
    ASSUME TypeInv, Clicking
    PROVE  LET b == attempt'[attempts']
           IN  /\ CopiesFrame /\ UNCHANGED session
               /\ pc = "idle" /\ pc' = "attempt" /\ session # "none"
               /\ attempts' = attempts + 1 /\ attempts' \in Views
               /\ \A n \in Views : n # attempts' => attempt'[n] = attempt[n]
               /\ b.by = session /\ b.at = task'.at /\ b.window = "none" /\ b.logged = 0
               /\ b.granted = FALSE /\ b.checked = FALSE /\ b.tracked = FALSE
               /\ b.due => LET c == SourceOf(task')
                           IN  /\ Authentic(c, task') /\ DeviceAccepted(c, task')
                               /\ Decrypts(c, task')
               /\ task'.at = drive /\ drive \in onDrive /\ task'.section = section[drive]
               /\ task'.mirrored <=> task'.via = "section" /\ local # NoCopy
<1>1. PICK misread \in BOOLEAN : ClickView(misread)
  BY DEF Clicking
<1> DEFINE hasSection == section[drive] # NoCopy
           via == IF session = "decoy" THEN "none"
                  ELSE IF hasSection /\ ~misread THEN "section" ELSE "local"
           t == [via |-> via, at |-> drive, mirrored |-> Mirrored(via),
                 key |-> key, section |-> section[drive]]
           c == SourceOf(t)
           n == attempts + 1
           worthy == session = "real" /\ Authentic(c, t) /\ DeviceAccepted(c, t)
                     /\ Decrypts(c, t)
           f == [NoAttempt EXCEPT !.by = session, !.at = drive, !.due = worthy,
                                  !.moved = drive = rebound]
<1>2. /\ task' = t /\ attempts' = n
      /\ attempt' = [attempt EXCEPT ![n] = f]
      /\ pc = "idle" /\ pc' = "attempt" /\ session # "none" /\ drive \in onDrive
      /\ attempts < MaxAttempts
      /\ UNCHANGED <<file, local, onDrive, section, loose, session>>
  BY <1>1 DEF ClickView, copies, page
<1>3. attempts' \in Views
  BY <1>2, AccessAssumption DEF TypeInv, TypeOK, Views
<1>4. /\ f.by = session /\ f.at = drive /\ f.window = "none" /\ f.logged = 0
      /\ f.granted = FALSE /\ f.checked = FALSE /\ f.tracked = FALSE
      /\ f.due <=> worthy
  BY DEF NoAttempt
<1>5. /\ attempt'[n] = f
      /\ \A m \in Views : m # n => attempt'[m] = attempt[m]
  BY <1>2, <1>3 DEF TypeInv, TypeOK, Views
<1>6. SourceOf(task') = c
  BY <1>2 DEF SourceOf
<1>7. /\ t.at = drive /\ t.section = section[drive] /\ t.via = via
      /\ t.mirrored <=> via = "section" /\ local # NoCopy
  BY DEF Mirrored
<1> HIDE DEF t, f, c, worthy
<1>8. f.due => LET c0 == SourceOf(task')
               IN  /\ Authentic(c0, task') /\ DeviceAccepted(c0, task')
                   /\ Decrypts(c0, task')
  BY <1>2, <1>4, <1>6 DEF worthy, Authentic, DeviceAccepted, Decrypts
<1> QED
  BY <1>2, <1>3, <1>4, <1>5, <1>7, <1>8 DEF CopiesFrame

LEMMA BurnPrimaryEffect ==
    ASSUME TypeInv, BurnPrimary
    PROVE  /\ FateFrame /\ WindowFrame /\ FutureFrame /\ UNCHANGED <<file, session, task>>
           /\ pc = "burn" /\ pc' \in {"mirror", "unlink"}
           /\ pc' = "mirror" <=> task.mirrored
           /\ \/ /\ task.via = "section" /\ UNCHANGED <<local, loose>>
                 /\ onDrive' = onDrive \cup {task.at}
                 /\ section' = [section EXCEPT ![task.at] = Burned(task.section)]
              \/ /\ task.via # "section" /\ UNCHANGED <<onDrive, section>>
                 /\ local' = Burned(local)
                 /\ ~loose' => ~loose /\ task.section.seal # "portable"
BY DEF BurnPrimary, FateFrame, WindowFrame, FutureFrame, SameFate, page, views

LEMMA BurnMirrorEffect ==
    ASSUME TypeInv, BurnMirror
    PROVE  /\ FateFrame /\ WindowFrame /\ FutureFrame
           /\ UNCHANGED <<file, session, task, onDrive, section, loose>>
           /\ pc = "mirror" /\ pc' = "unlink" /\ local' = Burned(task.section)
BY DEF BurnMirror, FateFrame, WindowFrame, FutureFrame, SameFate, page, views, ghosts

LEMMA UnlinkEffect ==
    ASSUME Unlinking
    PROVE  /\ UNCHANGED <<attempts, attempt, session, task, file, local, loose>>
           /\ pc = "unlink" /\ pc' = "show"
           /\ \/ UNCHANGED <<onDrive, section>>
              \/ /\ onDrive' = onDrive \ {task.at}
                 /\ section' = [section EXCEPT ![task.at] = NoCopy]
BY DEF Unlinking, Unlink, AfterUnlink, page, views, ghosts

LEMMA ShowEffect ==
    ASSUME TypeInv, Show
    PROVE  /\ FateFrame /\ FutureFrame /\ CopiesFrame /\ UNCHANGED session
           /\ pc = "show" /\ pc' = "idle" /\ task' = NoTask
           /\ attempt'[attempts].window = "open"
           /\ \A n \in Views : attempt'[n].logged = attempt[n].logged
           /\ \A n \in Views : n # attempts => attempt'[n] = attempt[n]
<1>1. Viewing /\ attempts' = attempts
  BY DEF Show, Viewing
<1>2. /\ attempts \in Views /\ attempt[attempts] \in Attempts
      /\ attempt \in [Views -> Attempts] /\ attempts \in Nat
  BY <1>1, ThisTyped DEF TypeInv, TypeOK, Views
<1>3. /\ attempt'[attempts] = [attempt[attempts] EXCEPT !.window = "open"]
      /\ \A n \in Views : n # attempts => attempt'[n] = attempt[n]
  BY <1>2 DEF Show
<1>4. /\ SameFate(attempt[attempts], attempt'[attempts])
      /\ attempt'[attempts].window = "open"
      /\ attempt'[attempts].logged = attempt[attempts].logged
  BY <1>2, <1>3 DEF SameFate, Attempts
<1>5. FateFrame
  BY <1>1, <1>3, <1>4 DEF FateFrame, SameFate
<1>6. FutureFrame
  BY <1>2, <1>3 DEF FutureFrame
<1> QED
  BY <1>3, <1>4, <1>5, <1>6 DEF Show, CopiesFrame, copies, page, ghosts

LEMMA ClosingEffect ==
    ASSUME TypeInv, Closing
    PROVE  /\ FateFrame /\ CopiesFrame /\ UNCHANGED <<session, pc, task>>
           /\ pc \in {"idle", "attempt"}
           /\ \E n \in Views :
                 /\ attempt[n].window = "open"
                 /\ \/ /\ attempt'[n].window = "closed"
                       /\ attempt'[n].logged = Logged(attempt[n])
                    \/ /\ attempt'[n].window = "lost"
                       /\ attempt'[n].logged = attempt[n].logged
                 /\ \A m \in Views : m # n => attempt'[m] = attempt[m]
<1>1. PICK n \in Views : CloseWindow(n) \/ DropWindow(n)
  BY DEF Closing
<1>2. attempt[n] \in Attempts /\ attempt \in [Views -> Attempts]
  BY DEF TypeInv, TypeOK, Views
<1>3. CASE CloseWindow(n)
  <2>1. /\ attempt'[n] = [[attempt[n] EXCEPT !.window = "closed"]
                             EXCEPT !.logged = Logged(attempt[n])]
        /\ \A m \in Views : m # n => attempt'[m] = attempt[m]
    BY <1>2, <1>3 DEF CloseWindow
  <2>2. /\ SameFate(attempt[n], attempt'[n])
        /\ attempt'[n].window = "closed" /\ attempt'[n].logged = Logged(attempt[n])
    BY <1>2, <2>1 DEF SameFate, Attempts
  <2>3. FateFrame
    BY <1>3, <2>1, <2>2 DEF FateFrame, SameFate, CloseWindow
  <2> QED
    BY <1>3, <2>1, <2>2, <2>3 DEF CloseWindow, CopiesFrame, copies, ghosts
<1>4. CASE DropWindow(n)
  <2>1. /\ attempt'[n] = [attempt[n] EXCEPT !.window = "lost"]
        /\ \A m \in Views : m # n => attempt'[m] = attempt[m]
    BY <1>2, <1>4 DEF DropWindow
  <2>2. /\ SameFate(attempt[n], attempt'[n])
        /\ attempt'[n].window = "lost" /\ attempt'[n].logged = attempt[n].logged
    BY <1>2, <2>1 DEF SameFate, Attempts
  <2>3. FateFrame
    BY <1>4, <2>1, <2>2 DEF FateFrame, SameFate, DropWindow
  <2> QED
    BY <1>4, <2>1, <2>2, <2>3 DEF DropWindow, CopiesFrame, copies, page, ghosts
<1> QED
  BY <1>1, <1>3, <1>4

LEMMA RebindEffect ==
    ASSUME Rebind
    PROVE  /\ UNCHANGED <<attempts, attempt, pc, task, session, file, onDrive, section,
                          loose>>
           /\ pc = "idle" /\ local.seal = "session"
           /\ Unwraps(local, drive) /\ local' = ReboundCopy(local, drive)
BY DEF Rebind, page, views

-----------------------------------------------------------------------------
(***************************************************************************)
(* The parts of the invariant, one by one.                                 *)
(***************************************************************************)
\* A step leaves the throttle alone, forgets it, lets a lockout run out, or counts a
\* mismatch of a file that is not locked.
LEMMA ThrottleMoves ==
    ASSUME [Next]_vars
    PROVE  \/ UNCHANGED throttle
           \/ mismatches' = 0 /\ tries' = 0 /\ throttled' = FALSE
           \/ throttled' = FALSE /\ tries' = 0 /\ mismatches' = mismatches
           \/ ~throttled /\ RegisterMismatch
<1>1. CASE Surroundings \/ UNCHANGED vars
  BY <1>1 DEF Surroundings, Plug, SignIn, LoadKey, Quit, NewWindow, LockoutExpires,
     throttle, vars
<1>2. CASE Crash
  BY <1>2 DEF Crash, NewWindow
<1>3. CASE Copying \/ Storing \/ WriteContainer \/ Failing \/ Clicking \/ Rebind
  BY <1>3 DEF Copying, Duplicate, Storing, StoreRecord, WriteContainer, Failing,
     WriteFails, SaveFails, Clicking, ClickView, Rebind
<1>4. CASE Deciding
  BY <1>4 DEF Deciding, ForcedDeception, Throttled, ValidationFails, Validating,
     ValidationPasses, RegisterSuccess
<1>5. CASE BurnPrimary \/ BurnMirror \/ Unlinking \/ Show \/ Closing
  BY <1>5 DEF BurnPrimary, BurnMirror, Unlinking, Unlink, Show, Closing, CloseWindow,
     DropWindow
<1> QED
  BY <1>1, <1>2, <1>3, <1>4, <1>5, StepCases

LEMMA ThrottleStep ==
    ASSUME TypeInv, ThrottleCounts, [Next]_vars
    PROVE  ThrottleCounts'
<1>1. \/ UNCHANGED throttle
      \/ mismatches' = 0 /\ tries' = 0 /\ throttled' = FALSE
      \/ throttled' = FALSE /\ tries' = 0 /\ mismatches' = mismatches
      \/ ~throttled /\ RegisterMismatch
  BY ThrottleMoves
<1>2. mismatches \in Nat /\ tries \in Nat /\ throttled \in BOOLEAN
  BY DEF TypeInv, TypeOK
<1>3. CASE UNCHANGED throttle
  BY <1>3 DEF throttle, ThrottleCounts, MismatchesBounded
<1>4. CASE throttled' = FALSE /\ tries' = 0 /\ mismatches' \in {0, mismatches}
  BY <1>2, <1>4, AccessAssumption DEF ThrottleCounts, MismatchesBounded
<1>5. CASE ~throttled /\ RegisterMismatch
  <2>1. /\ mismatches' = mismatches + 1 /\ tries' = tries + 1
        /\ throttled' <=> mismatches + 1 >= MaxFailedAttempts
    BY <1>5 DEF RegisterMismatch, Locks
  <2>2. tries = 0 \/ mismatches < MaxFailedAttempts
    BY <1>2, <1>5 DEF ThrottleCounts
  <2> QED
    BY <1>2, <2>1, <2>2, AccessAssumption DEF ThrottleCounts, MismatchesBounded
<1> QED
  BY <1>1, <1>3, <1>4, <1>5

LEMMA HistoryStep ==
    ASSUME TypeInv, TypeInv', History, [Next]_vars
    PROVE  History'
<1> USE DEF History, Viewing
<1>0. attempts \in Nat /\ Views' = Views /\ \A n \in Views : n \in Nat
  BY DEF TypeInv, TypeOK, Views
<1>1. CASE Surroundings \/ UNCHANGED vars \/ Copying \/ Rebind
  BY <1>0, <1>1, SurroundingsEffect, CopyingEffect, RebindEffect
<1>2. CASE Crash
  <2>1. ASSUME NEW n \in Views, n > attempts PROVE attempt'[n] = NoAttempt
    <3>1. attempt[n] = NoAttempt /\ NoAttempt.window = "none"
      BY <2>1 DEF NoAttempt
    <3> QED
      BY <1>2, <3>1, CrashEffect
  <2> QED
    BY <1>0, <1>2, <2>1, CrashEffect DEF FateFrame
<1>3. CASE Failing \/ Storing \/ WriteContainer \/ Unlinking
  BY <1>0, <1>3, FailingEffect, StoringEffect, WriteEffect, UnlinkEffect
<1>4. CASE Clicking
  <2>1. \A n \in Views : n > attempts' => attempt'[n] = NoAttempt
    BY <1>0, <1>4, ClickingEffect
  <2> QED
    BY <1>0, <1>4, <2>1, ClickingEffect
<1>5. CASE Deciding
  <2>1. \A n \in Views : n > attempts => n # attempts
    BY <1>0 DEF Views
  <2> QED
    BY <1>0, <1>5, <2>1, DecidingEffect
<1>6. CASE BurnPrimary \/ BurnMirror
  <2>1. /\ FateFrame /\ WindowFrame /\ FutureFrame
        /\ pc \in {"burn", "mirror"} /\ pc' \in {"mirror", "unlink"}
    BY <1>6, BurnPrimaryEffect, BurnMirrorEffect
  <2>2. attempts \in Views
    BY <2>1, ThisTyped
  <2> QED
    BY <1>0, <2>1, <2>2 DEF FateFrame, WindowFrame, FutureFrame
<1>7. CASE Show
  BY <1>0, <1>7, ShowEffect DEF FateFrame, FutureFrame
<1>8. CASE Closing
  <2>1. PICK n \in Views :
           /\ attempt[n].window = "open"
           /\ \A m \in Views : m # n => attempt'[m] = attempt[m]
    BY <1>8, ClosingEffect
  <2>2. ~(n > attempts)
    BY <2>1 DEF NoAttempt
  <2>3. pc = "attempt" => attempts # n /\ attempts \in Views
    BY <2>1, ThisTyped
  <2>4. pc' = pc /\ pc \in {"idle", "attempt"} /\ attempts' = attempts
    BY <1>8, ClosingEffect DEF FateFrame
  <2>5. pc = "attempt" => attempt'[attempts] = attempt[attempts]
    BY <2>1, <2>3
  <2> QED
    BY <1>0, <2>1, <2>2, <2>4, <2>5
<1> QED
  BY <1>1, <1>2, <1>3, <1>4, <1>5, <1>6, <1>7, <1>8, StepCases

LEMMA SealingStep ==
    ASSUME TypeInv, History, Sealing, [Next]_vars
    PROVE  Sealing'
<1> USE DEF Sealing
<1>0. Views' = Views
  BY DEF Views
<1>1. CASE Surroundings \/ UNCHANGED vars \/ Copying \/ Rebind \/ Failing \/ Storing
           \/ WriteContainer \/ Unlinking
  BY <1>0, <1>1, SurroundingsEffect, CopyingEffect, RebindEffect, FailingEffect,
     StoringEffect, WriteEffect, UnlinkEffect
<1>2. CASE Crash
  <2>1. ASSUME NEW n \in Views
        PROVE  /\ attempt'[n].tracked <=> attempt'[n].checked
               /\ attempt'[n].logged = IF attempt'[n].window = "closed"
                                          /\ attempt'[n].checked THEN 1 ELSE 0
               /\ attempt'[n].granted => attempt'[n].opened
    BY <1>2, <2>1, CrashEffect DEF FateFrame, SameFate
  <2> QED
    BY <1>0, <2>1
<1>3. CASE Clicking
  BY <1>0, <1>3, ClickingEffect
<1>4. CASE Deciding
  <2>1. /\ attempt[attempts].window = "none" /\ ~attempt[attempts].checked
        /\ attempts \in Views /\ ~attempt[attempts].granted
    BY <1>4, DecidingEffect, ThisTyped DEF History, Viewing
  <2>2. /\ attempt'[attempts].window = "none"
        /\ attempt'[attempts].logged = attempt[attempts].logged
        /\ attempt'[attempts].tracked <=> attempt'[attempts].checked
        /\ attempt'[attempts].granted => attempt'[attempts].opened
        /\ \A n \in Views : n # attempts => attempt'[n] = attempt[n]
    BY <1>4, <2>1, DecidingEffect
  <2> QED
    BY <1>0, <2>1, <2>2
<1>5. CASE BurnPrimary \/ BurnMirror
  BY <1>0, <1>5, BurnPrimaryEffect, BurnMirrorEffect DEF FateFrame, WindowFrame, SameFate
<1>6. CASE Show
  <2>1. attempts \in Views /\ attempt[attempts].window = "none"
    BY <1>6, ShowEffect, ThisTyped DEF History, Viewing
  <2> QED
    BY <1>0, <1>6, <2>1, ShowEffect DEF FateFrame, SameFate
<1>7. CASE Closing
  <2>1. PICK n \in Views :
           /\ attempt[n].window = "open"
           /\ \/ /\ attempt'[n].window = "closed"
                 /\ attempt'[n].logged = Logged(attempt[n])
              \/ /\ attempt'[n].window = "lost"
                 /\ attempt'[n].logged = attempt[n].logged
           /\ \A m \in Views : m # n => attempt'[m] = attempt[m]
    BY <1>7, ClosingEffect
  <2>2. SameFate(attempt[n], attempt'[n]) /\ attempt[n].logged = 0
    BY <1>7, <2>1, ClosingEffect DEF FateFrame
  <2>3. attempt'[n].logged = IF attempt'[n].window = "closed" /\ attempt'[n].checked
                             THEN 1 ELSE 0
    BY <2>1, <2>2 DEF Logged, SameFate
  <2> QED
    BY <1>0, <2>1, <2>2, <2>3 DEF SameFate
<1> QED
  BY <1>1, <1>2, <1>3, <1>4, <1>5, <1>6, <1>7, StepCases

LEMMA TaskStep ==
    ASSUME TypeInv, TaskStands, [Next]_vars
    PROVE  TaskStands'
<1> SUFFICES ASSUME pc' = "attempt" PROVE TaskStands'
  BY DEF TaskStands
<1> USE DEF TaskStands, SourceOf, Authentic, DeviceAccepted, Decrypts
<1>1. CASE Surroundings \/ UNCHANGED vars
  BY <1>1, SurroundingsEffect DEF CopiesFrame
<1>2. CASE Clicking
  BY <1>2, ClickingEffect DEF CopiesFrame
<1>3. CASE Closing
  <2>1. pc = "attempt" /\ attempts \in Views
    BY <1>3, ClosingEffect, ThisTyped DEF Viewing
  <2>2. SameFate(attempt[attempts], attempt'[attempts]) /\ attempts' = attempts
    BY <1>3, <2>1, ClosingEffect DEF FateFrame
  <2> QED
    BY <1>3, <2>1, <2>2, ClosingEffect DEF CopiesFrame, SameFate
<1>4. CASE Copying \/ Rebind
  BY <1>4, CopyingEffect, RebindEffect
<1>5. CASE Crash \/ Failing \/ Storing \/ WriteContainer \/ Deciding \/ BurnPrimary
           \/ BurnMirror \/ Unlinking \/ Show
  BY <1>5, CrashEffect, FailingEffect, StoringEffect, WriteEffect, DecidingEffect,
     BurnPrimaryEffect, BurnMirrorEffect, UnlinkEffect, ShowEffect
<1> QED
  BY <1>1, <1>2, <1>3, <1>4, <1>5, StepCases

\* The history of a view is written by the attempt alone.
LEMMA FateSteps ==
    ASSUME TypeInv, [Next]_vars, ~Deciding, ~Clicking
    PROVE  FateFrame
<1>1. CASE Surroundings \/ UNCHANGED vars \/ Copying \/ Rebind \/ Failing \/ Storing
           \/ WriteContainer \/ Unlinking
  BY <1>1, SurroundingsEffect, CopyingEffect, RebindEffect, FailingEffect,
     StoringEffect, WriteEffect, UnlinkEffect DEF FateFrame, SameFate
<1> QED
  BY <1>1, CrashEffect, BurnPrimaryEffect, BurnMirrorEffect, ShowEffect, ClosingEffect,
     StepCases

LEMMA DueStep ==
    ASSUME TypeInv, History, TaskStands, DueViewsGranted, [Next]_vars
    PROVE  DueViewsGranted'
<1> USE DEF DueViewsGranted
<1>0. Views' = Views
  BY DEF Views
<1>1. CASE Clicking
  BY <1>0, <1>1, ClickingEffect
<1>2. CASE Deciding
  <2>1. attempts \in Views /\ pc = "attempt"
    BY <1>2, DecidingEffect, ThisTyped DEF Viewing
  <2>2. /\ ~attempt[attempts].granted /\ ~attempt[attempts].checked
        /\ attempt[attempts].by = session
    BY <2>1 DEF History, TaskStands
  <2>3. /\ attempt'[attempts].due /\ attempt'[attempts].checked
              => attempt'[attempts].granted
        /\ attempt'[attempts].granted => attempt'[attempts].by = "real"
    BY <1>2, <2>1, <2>2, DecidingEffect DEF TaskStands
  <2> QED
    BY <1>0, <1>2, <2>3, DecidingEffect
<1>3. CASE ~Deciding /\ ~Clicking
  BY <1>0, <1>3, FateSteps DEF FateFrame, SameFate
<1> QED
  BY <1>1, <1>2, <1>3

LEMMA UnstoredStep ==
    ASSUME TypeInv, History, Snapshot, Burning, Unstored, [Next]_vars
    PROVE  Unstored'
<1>0. Views' = Views
  BY DEF Views
<1>1. CASE Surroundings \/ UNCHANGED vars
  BY <1>0, <1>1, SurroundingsEffect DEF Unstored, CopiesFrame
<1>2. CASE Copying
  <2>1. PICK d \in Drives, e \in Drives : Duplicate(d, e)
    BY <1>2 DEF Copying
  <2>2. file.stored /\ file' = file /\ pc' = "idle"
    BY <2>1 DEF Duplicate, Unstored
  <2>3. onDrive' = onDrive \cup {e} /\ section' = [section EXCEPT ![e] = section[d]]
    BY <2>1 DEF Duplicate
  <2> QED
    BY <2>2, <2>3 DEF Unstored, TypeInv, TypeOK
<1>3. CASE Crash \/ Failing
  <2>1. CopiesFrame /\ FateFrame /\ pc' = "idle"
    BY <1>3, CrashEffect, FailingEffect DEF FateFrame, SameFate
  <2> QED
    BY <1>0, <2>1 DEF Unstored, CopiesFrame, FateFrame, SameFate
<1>4. CASE Storing
  <2>1. file'.stored
    BY <1>4 DEF Storing, StoreRecord
  <2> QED
    BY <1>0, <1>4, <2>1, StoringEffect DEF Unstored
<1>5. CASE WriteContainer
  <2>1. file.stored /\ file' = file /\ pc' = "idle"
    BY <1>5, WriteEffect DEF Unstored
  <2> QED
    BY <1>5, <2>1, WriteEffect DEF Unstored, TypeInv, TypeOK
<1>6. CASE Clicking
  <2>1. onDrive # {} /\ CopiesFrame /\ pc' = "attempt"
    BY <1>6, ClickingEffect
  <2> QED
    BY <2>1 DEF Unstored, CopiesFrame
<1>7. CASE Deciding
  <2>1. onDrive # {} /\ CopiesFrame /\ pc' \in {"burn", "show"}
    BY <1>7, DecidingEffect DEF Snapshot
  <2> QED
    BY <2>1 DEF Unstored, CopiesFrame
<1>8. CASE BurnPrimary \/ BurnMirror \/ Unlinking
  <2>1. attempts \in Views /\ attempt[attempts].granted
    BY <1>8, BurnPrimaryEffect, BurnMirrorEffect, UnlinkEffect, ThisTyped
       DEF Burning, Viewing
  <2>2. file.stored /\ file' = file /\ pc' # "write"
    BY <1>8, <2>1, BurnPrimaryEffect, BurnMirrorEffect, UnlinkEffect DEF Unstored
  <2>3. \A d \in Drives \ onDrive' : section'[d] = NoCopy
    <3>1. CASE BurnPrimary
      BY <3>1, BurnPrimaryEffect DEF Unstored, TypeInv, TypeOK
    <3>2. CASE BurnMirror
      BY <3>2, BurnMirrorEffect DEF Unstored
    <3>3. CASE Unlinking
      BY <3>3, UnlinkEffect DEF Unstored, TypeInv, TypeOK
    <3> QED
      BY <1>8, <3>1, <3>2, <3>3
  <2> QED
    BY <2>2, <2>3 DEF Unstored
<1>9. CASE Show
  BY <1>0, <1>9, ShowEffect DEF Unstored, CopiesFrame, FateFrame, SameFate
<1>10. CASE Closing
  BY <1>0, <1>10, ClosingEffect DEF Unstored, CopiesFrame, FateFrame, SameFate
<1>11. CASE Rebind
  <2>1. local # NoCopy
    BY <1>11, RebindEffect DEF NoCopy
  <2>2. file.stored /\ file' = file /\ pc' # "write"
    BY <1>11, <2>1, RebindEffect DEF Unstored
  <2> QED
    BY <1>11, <2>2, RebindEffect DEF Unstored
<1> QED
  BY <1>1, <1>2, <1>3, <1>4, <1>5, <1>6, <1>7, <1>8, <1>9, <1>10, <1>11, StepCases

LEMMA WrapsStep ==
    ASSUME TypeInv, Unstored, WrapsAtHome, [Next]_vars
    PROVE  WrapsAtHome'
<1> SUFFICES ASSUME file'.mode = "drive" PROVE WrapsAtHome'
  BY DEF WrapsAtHome
<1>a. ~NoCopy.real /\ NoTask.section = NoCopy
  BY DEF NoCopy, NoTask
<1>b. \A d \in Drives : section[d] \in Copies
  BY DEF TypeInv, TypeOK
<1>c. local \in Copies /\ task.section \in Copies
  BY DEF TypeInv, TypeOK, Tasks
<1> USE DEF WrapsAtHome, AtHome
<1>1. CASE Surroundings \/ UNCHANGED vars
  BY <1>1, SurroundingsEffect DEF CopiesFrame
<1>2. CASE Copying
  <2>1. PICK d \in Drives, e \in Drives : Duplicate(d, e)
    BY <1>2 DEF Copying
  <2>2. section' = [section EXCEPT ![e] = section[d]]
    BY <2>1 DEF Duplicate
  <2>3. \A f \in Drives : section'[f] = section[f] \/ section'[f] = section[d]
    BY <2>2 DEF TypeInv, TypeOK
  <2> QED
    BY <1>2, <2>3, CopyingEffect
<1>3. CASE Crash \/ Failing \/ Show
  BY <1>3, <1>a, CrashEffect, FailingEffect, ShowEffect DEF CopiesFrame
<1>4. CASE Storing
  <2>1. PICK mode \in Modes, oneTime \in BOOLEAN, portable \in BOOLEAN :
           StoreRecord(mode, oneTime, portable)
    BY <1>4 DEF Storing
  <2>2. file'.home = drive /\ mode = "drive"
    BY <2>1 DEF StoreRecord
  <2>3. \A seal : StoredCopy(seal, mode).wrap = drive
    BY <2>2 DEF StoredCopy
  <2>4. local = NoCopy /\ \A d \in Drives : section[d] = NoCopy
    BY <1>4, StoringEffect DEF Unstored
  <2>5. section' = section
    BY <1>4, StoringEffect
  <2>6. local' = NoCopy \/ local'.wrap = drive
    BY <2>1, <2>3, <2>4 DEF StoreRecord
  <2>7. task'.section = NoCopy \/ task'.section.wrap = drive
    BY <2>1, <2>3 DEF StoreRecord, NoTask
  <2> QED
    BY <1>a, <2>2, <2>4, <2>5, <2>6, <2>7
<1>5. CASE WriteContainer
  <2>1. \A d \in Drives : section'[d] = section[d] \/ section'[d] = task.section
    BY <1>5, WriteEffect DEF TypeInv, TypeOK
  <2> QED
    BY <1>a, <1>5, <2>1, WriteEffect
<1>6. CASE Clicking
  <2>1. drive \in Drives /\ task'.section = section[drive]
    BY <1>6, ClickingEffect DEF TypeInv, TypeOK
  <2> QED
    BY <1>6, <2>1, ClickingEffect DEF CopiesFrame
<1>7. CASE Deciding \/ Closing
  BY <1>7, DecidingEffect, ClosingEffect DEF CopiesFrame
<1>8. CASE BurnPrimary
  <2>1. ~Burned(task.section).real /\ ~Burned(local).real
    BY <1>c DEF Burned, Copies
  <2>2. local' = local \/ local' = Burned(local)
    BY <1>8, BurnPrimaryEffect
  <2>3. \A d \in Drives : section'[d] = section[d] \/ section'[d] = Burned(task.section)
    BY <1>8, BurnPrimaryEffect DEF TypeInv, TypeOK
  <2> QED
    BY <1>8, <2>1, <2>2, <2>3, BurnPrimaryEffect
<1>9. CASE BurnMirror
  <2>1. ~Burned(task.section).real
    BY <1>c DEF Burned, Copies
  <2> QED
    BY <1>9, <2>1, BurnMirrorEffect
<1>10. CASE Unlinking
  <2>1. \A d \in Drives : section'[d] = section[d] \/ section'[d] = NoCopy
    BY <1>10, UnlinkEffect DEF TypeInv, TypeOK
  <2> QED
    BY <1>a, <1>10, <2>1, UnlinkEffect
<1>11. CASE Rebind
  <2>1. local'.real = local.real /\ local'.wrap = drive /\ local.wrap = drive
    BY <1>11, <1>c, RebindEffect DEF ReboundCopy, Unwraps, Copies
  <2> QED
    BY <1>11, <2>1, RebindEffect
<1> QED
  BY <1>1, <1>2, <1>3, <1>4, <1>5, <1>6, <1>7, <1>8, <1>9, <1>10, <1>11, StepCases

LEMMA DriveStep ==
    ASSUME TypeInv, History, TaskStands, Unstored, WrapsAtHome, DriveBoundContent,
           [Next]_vars
    PROVE  DriveBoundContent'
<1> USE DEF DriveBoundContent
<1>0. Views' = Views
  BY DEF Views
<1>1. CASE Clicking
  BY <1>0, <1>1, ClickingEffect DEF CopiesFrame
<1>2. CASE Deciding
  <2>1. attempts \in Views /\ pc = "attempt" /\ ~attempt[attempts].granted
    BY <1>2, DecidingEffect, ThisTyped DEF Viewing, History
  <2>2. ASSUME attempt'[attempts].granted, file.mode = "drive"
        PROVE  attempt'[attempts].at = file.home
    <3>1. Decrypts(SourceOf(task), task)
      BY <1>2, <2>1, <2>2, DecidingEffect
    <3>2. SourceOf(task).real /\ SourceOf(task).wrap = task.at
      BY <2>2, <3>1 DEF Decrypts
    <3>3. task.at = file.home
      BY <2>2, <3>2 DEF WrapsAtHome, AtHome, SourceOf
    <3> QED
      BY <1>2, <2>1, <3>3, DecidingEffect DEF TaskStands
  <2> QED
    BY <1>0, <1>2, <2>2, DecidingEffect DEF CopiesFrame
<1>3. CASE Storing
  BY <1>0, <1>3, StoringEffect DEF Unstored
<1>4. CASE ~Deciding /\ ~Clicking /\ ~Storing
  <2>1. file' = file
    BY <1>4, SurroundingsEffect, CopyingEffect, CrashEffect, WriteEffect, FailingEffect,
       BurnPrimaryEffect, BurnMirrorEffect, UnlinkEffect, ShowEffect, ClosingEffect,
       RebindEffect, StepCases DEF CopiesFrame
  <2> QED
    BY <1>0, <1>4, <2>1, FateSteps DEF FateFrame, SameFate
<1> QED
  BY <1>1, <1>2, <1>3, <1>4

LEMMA SnapshotStep ==
    ASSUME TypeInv, Snapshot, [Next]_vars
    PROVE  Snapshot'
<1> SUFFICES ASSUME pc' \in {"attempt", "burn"} PROVE Snapshot'
  BY DEF Snapshot
<1>1. CASE Surroundings \/ UNCHANGED vars \/ Deciding \/ Closing
  <2>1. CopiesFrame /\ task' = task /\ pc \in {"attempt", "burn"}
    BY <1>1, SurroundingsEffect, DecidingEffect, ClosingEffect
  <2> QED
    BY <2>1 DEF Snapshot, CopiesFrame
<1>2. CASE Clicking
  BY <1>2, ClickingEffect DEF Snapshot, CopiesFrame
<1>3. CASE Copying \/ Rebind \/ Crash \/ Failing \/ Storing \/ WriteContainer
           \/ BurnPrimary \/ BurnMirror \/ Unlinking \/ Show
  BY <1>3, CopyingEffect, RebindEffect, CrashEffect, FailingEffect, StoringEffect,
     WriteEffect, BurnPrimaryEffect, BurnMirrorEffect, UnlinkEffect, ShowEffect
<1> QED
  BY <1>1, <1>2, <1>3, StepCases

\* While no second section was made, a section that is not usable stands alone.
LEMMA SoleUse ==
    ASSUME SoleSection, ~loose, NEW d \in onDrive, NEW e \in Drives,
           section[e].seal = "portable"
    PROVE  e = d
BY DEF SoleSection

LEMMA SoleStep ==
    ASSUME TypeInv, Unstored, Snapshot, SoleSection, [Next]_vars
    PROVE  SoleSection'
<1> SUFFICES ASSUME ~loose' PROVE SoleSection'
  BY DEF SoleSection
<1>a. NoCopy.seal # "portable"
  BY DEF NoCopy
<1> USE DEF SoleSection
<1>1. CASE Surroundings \/ UNCHANGED vars \/ Crash \/ Failing \/ Storing \/ Clicking
           \/ Deciding \/ BurnMirror \/ Show \/ Closing \/ Rebind
  BY <1>1, SurroundingsEffect, CrashEffect, FailingEffect, StoringEffect,
     ClickingEffect, DecidingEffect, BurnMirrorEffect, ShowEffect, ClosingEffect,
     RebindEffect DEF CopiesFrame
<1>2. CASE Copying
  <2>1. PICK d \in Drives, e \in Drives : Duplicate(d, e)
    BY <1>2 DEF Copying
  <2>2. /\ ~loose /\ section[d].seal # "portable" /\ d \in onDrive
        /\ section' = [section EXCEPT ![e] = section[d]]
    BY <2>1 DEF Duplicate
  <2>3. \A f \in Drives : section[f].seal # "portable"
    BY <2>2, SoleUse
  <2> QED
    BY <2>2, <2>3 DEF TypeInv, TypeOK
<1>3. CASE WriteContainer
  <2>1. /\ onDrive' = {task.at} /\ \A d \in Drives : section[d] = NoCopy
        /\ task.at \in Drives
    BY <1>3, WriteEffect DEF Unstored, TypeInv, OnADrive
  <2>2. \A d \in Drives : d # task.at => section'[d] = NoCopy
    BY <1>3, <2>1, WriteEffect DEF TypeInv, TypeOK
  <2> QED
    BY <1>a, <2>1, <2>2
<1>4. CASE BurnPrimary
  <2>1. onDrive' = onDrive /\ ~loose
    <3>1. task.at \in onDrive
      BY <1>4, BurnPrimaryEffect DEF Snapshot
    <3>2. onDrive \cup {task.at} = onDrive
      BY <3>1
    <3>3. onDrive' = onDrive \cup {task.at} \/ onDrive' = onDrive
      BY <1>4, BurnPrimaryEffect
    <3>4. ~loose
      BY <1>4, BurnPrimaryEffect
    <3> QED
      BY <3>2, <3>3, <3>4
  <2>2. Burned(task.section).seal # "portable"
    BY DEF Burned, TypeInv, TypeOK, Tasks, Copies
  <2>3. \A d \in Drives : section'[d] = section[d] \/ section'[d] = Burned(task.section)
    BY <1>4, BurnPrimaryEffect DEF TypeInv, TypeOK
  <2> QED
    BY <2>1, <2>2, <2>3
<1>5. CASE Unlinking
  <2>1. ~loose
    BY <1>5, UnlinkEffect
  <2>2. CASE UNCHANGED <<onDrive, section>>
    BY <2>1, <2>2
  <2>3. CASE /\ onDrive' = onDrive \ {task.at}
             /\ section' = [section EXCEPT ![task.at] = NoCopy]
    <3>1. ASSUME NEW d \in Drives, section'[d].seal = "portable"
          PROVE  d # task.at /\ section[d].seal = "portable"
      BY <1>a, <2>3, <3>1 DEF TypeInv, TypeOK
    <3> QED
      BY <2>1, <2>3, <3>1
  <2> QED
    BY <1>5, <2>2, <2>3, UnlinkEffect
<1> QED
  BY <1>1, <1>2, <1>3, <1>4, <1>5, StepCases

-----------------------------------------------------------------------------
(***************************************************************************)
(* A one-time file is shown once.                                          *)
(***************************************************************************)
\* Only the last step of a view shows anything.
LEMMA ShownByShow ==
    ASSUME TypeInv, History, [Next]_vars, NEW n \in Views, Shown(n)'
    PROVE  Shown(n) \/ (Show /\ n = attempts /\ attempt[n].granted)
<1> USE DEF Shown
<1>1. CASE Surroundings \/ UNCHANGED vars \/ Copying \/ Rebind \/ Failing \/ Storing
           \/ WriteContainer \/ Unlinking
  BY <1>1, SurroundingsEffect, CopyingEffect, RebindEffect, FailingEffect,
     StoringEffect, WriteEffect, UnlinkEffect
<1>2. CASE Crash
  BY <1>2, CrashEffect DEF FateFrame, SameFate
<1>3. CASE Clicking
  BY <1>3, ClickingEffect
<1>4. CASE Deciding
  <2>1. attempt[attempts].window = "none"
    BY <1>4, DecidingEffect DEF History, Viewing
  <2> QED
    BY <1>4, <2>1, DecidingEffect
<1>5. CASE BurnPrimary \/ BurnMirror
  BY <1>5, BurnPrimaryEffect, BurnMirrorEffect DEF FateFrame, WindowFrame, SameFate
<1>6. CASE Show
  BY <1>6, ShowEffect DEF FateFrame, SameFate
<1>7. CASE Closing
  <2>1. PICK m \in Views : /\ attempt[m].window = "open"
                           /\ \A k \in Views : k # m => attempt'[k] = attempt[k]
    BY <1>7, ClosingEffect
  <2> QED
    BY <1>7, <2>1, ClosingEffect DEF FateFrame, SameFate
<1> QED
  BY <1>1, <1>2, <1>3, <1>4, <1>5, <1>6, <1>7, StepCases

LEMMA BurningStep ==
    ASSUME TypeInv, History, Burning, [Next]_vars
    PROVE  Burning'
<1> SUFFICES ASSUME pc' \in {"burn", "mirror", "unlink"} PROVE attempt'[attempts'].granted
  BY DEF Burning
<1>1. CASE Surroundings \/ UNCHANGED vars
  BY <1>1, SurroundingsEffect DEF Burning
<1>2. CASE Deciding
  BY <1>2, DecidingEffect
<1>3. CASE BurnPrimary \/ BurnMirror
  <2>1. attempts \in Views /\ attempt[attempts].granted /\ FateFrame
    BY <1>3, BurnPrimaryEffect, BurnMirrorEffect, ThisTyped DEF Burning, Viewing
  <2> QED
    BY <2>1 DEF FateFrame, SameFate
<1>4. CASE Copying \/ Rebind \/ Crash \/ Failing \/ Storing \/ WriteContainer
           \/ Clicking \/ Unlinking \/ Show \/ Closing
  BY <1>4, CopyingEffect, RebindEffect, CrashEffect, FailingEffect, StoringEffect,
     WriteEffect, ClickingEffect, UnlinkEffect, ShowEffect, ClosingEffect
<1> QED
  BY <1>1, <1>2, <1>3, <1>4, StepCases

\* What the views of a file that can be shown once more go through.
LEMMA WorthyIsAlive ==
    ASSUME TypeInv, Snapshot, pc = "attempt", Authentic(SourceOf(task), task)
    PROVE  /\ \/ task.via = "section" /\ section[task.at].seal = "portable"
              \/ task.via = "local" /\ local.seal = "session"
           /\ ~Dead
<1>1. task.at \in Drives /\ section[task.at] = task.section
  BY DEF Snapshot, TypeInv, OnADrive
<1> QED
  BY <1>1 DEF Authentic, SourceOf, Dead, SectionsDead

LEMMA BurnStep ==
    ASSUME TypeInv, History, Unstored, Snapshot, SoleSection, Burning, BurnSteps,
           [Next]_vars
    PROVE  BurnSteps'
<1> SUFFICES ASSUME file'.oneTime, ~loose' PROVE BurnSteps'
  BY DEF BurnSteps
<1>0. Views' = Views
  BY DEF Views
<1>a. NoCopy.seal \notin {"portable", "session"}
  BY DEF NoCopy
<1>b. \A c \in Copies : Burned(c).seal \notin {"portable", "session"}
  BY DEF Burned, Copies
<1>c. local \in Copies /\ task.section \in Copies
  BY DEF TypeInv, TypeOK, Tasks
<1> USE DEF Dead, SectionsDead
<1>d. ~Show => \A n \in Views : Shown(n)' => Shown(n)
  BY ShownByShow
<1>1. CASE Surroundings \/ UNCHANGED vars
  BY <1>0, <1>1, SurroundingsEffect DEF BurnSteps, CopiesFrame, Viewing, Shown
<1>2. CASE ~Show /\ (Crash \/ Failing)
  <2>1. CopiesFrame /\ pc' = "idle"
    BY <1>2, CrashEffect, FailingEffect
  <2> QED
    BY <1>0, <1>d, <1>2, <2>1 DEF BurnSteps, CopiesFrame, Viewing
<1>3. CASE ~Show /\ (Storing \/ WriteContainer)
  <2>1. \A n \in Views : ~Shown(n)
    BY <1>3, StoringEffect, WriteEffect DEF Unstored, Shown
  <2>2. pc' \in {"idle", "write"}
    BY <1>3, StoringEffect, WriteEffect
  <2> QED
    BY <1>0, <1>d, <1>3, <2>1, <2>2 DEF BurnSteps, Viewing
<1>4. CASE ~Show /\ Copying
  <2>1. PICK d \in Drives, e \in Drives : Duplicate(d, e)
    BY <1>4 DEF Copying
  <2>2. /\ file' = file /\ ~loose /\ local' = local /\ pc' = "idle"
        /\ section' = [section EXCEPT ![e] = section[d]]
    BY <2>1 DEF Duplicate
  <2>3. Dead => Dead'
    BY <2>2 DEF TypeInv, TypeOK
  <2> QED
    BY <1>0, <1>d, <1>4, <2>2, <2>3 DEF BurnSteps, Viewing
<1>5. CASE ~Show /\ Rebind
  <2>1. local'.seal = local.seal
    BY <1>5, <1>c, RebindEffect DEF ReboundCopy, Copies
  <2> QED
    BY <1>0, <1>d, <1>5, <2>1, RebindEffect DEF BurnSteps, Viewing
<1>6. CASE ~Show /\ Clicking
  BY <1>0, <1>d, <1>6, ClickingEffect DEF BurnSteps, CopiesFrame
<1>7. CASE ~Show /\ Deciding
  <2>1. /\ CopiesFrame /\ pc = "attempt" /\ attempts \in Views /\ task' = task
        /\ ~attempt[attempts].granted /\ attempts' = attempts
        /\ file.oneTime /\ ~loose
    BY <1>7, DecidingEffect, ThisTyped DEF History, Viewing, CopiesFrame
  <2>2. CASE attempt'[attempts].granted
    <3>1. Authentic(SourceOf(task), task) /\ pc' = "burn"
      BY <1>7, <2>1, <2>2, DecidingEffect
    <3>2. /\ \/ task.via = "section" /\ section[task.at].seal = "portable"
             \/ task.via = "local" /\ local.seal = "session"
          /\ ~Dead
      BY <2>1, <3>1, WorthyIsAlive
    <3>3. \A n \in Views : ~Shown(n)
      BY <2>1, <3>2 DEF BurnSteps
    <3> QED
      BY <1>0, <1>d, <1>7, <2>1, <3>1, <3>2, <3>3 DEF BurnSteps, CopiesFrame
  <2>3. CASE ~attempt'[attempts].granted
    <3>1. pc' = "show"
      BY <1>7, <2>1, <2>3, DecidingEffect
    <3> QED
      BY <1>0, <1>d, <1>7, <2>1, <2>3, <3>1 DEF BurnSteps, CopiesFrame
  <2> QED
    BY <2>2, <2>3
<1>8. CASE ~Show /\ BurnPrimary
  <2>1. /\ pc = "burn" /\ file' = file /\ task' = task /\ FateFrame
        /\ task.at \in onDrive /\ section[task.at] = task.section
        /\ attempt[attempts].granted /\ ~loose /\ file.oneTime
    BY <1>8, BurnPrimaryEffect DEF Snapshot, Burning
  <2>2. \A n \in Views : ~Shown(n)
    BY <2>1 DEF BurnSteps, Viewing
  <2>3. pc' = "mirror" => task.via = "section"
    BY <1>8, <2>1, BurnPrimaryEffect DEF Snapshot
  <2>4. SectionsDead'
    <3>1. CASE task.via = "section"
      <4>1. \A d \in Drives : d # task.at => section[d].seal # "portable"
        BY <2>1, SoleUse
      <4> QED
        BY <1>8, <3>1, <4>1, <1>b, <1>c, BurnPrimaryEffect DEF TypeInv, TypeOK
    <3>2. CASE task.via # "section"
      <4>1. section' = section /\ task.section.seal # "portable"
        BY <1>8, <3>2, BurnPrimaryEffect
      <4>2. \A d \in Drives : section[d].seal # "portable"
        BY <2>1, <4>1, SoleUse
      <4> QED
        BY <4>1, <4>2
    <3> QED
      BY <3>1, <3>2
  <2>5. pc' = "unlink" => local'.seal # "session"
    <3>1. CASE task.via = "section"
      BY <1>8, <3>1, <2>1, <1>a, BurnPrimaryEffect DEF Snapshot
    <3>2. CASE task.via # "section"
      BY <1>8, <3>2, <1>b, <1>c, BurnPrimaryEffect
    <3> QED
      BY <3>1, <3>2
  <2>6. pc' \in {"mirror", "unlink"}
    BY <1>8, BurnPrimaryEffect
  <2> QED
    BY <1>0, <1>d, <1>8, <2>2, <2>4, <2>5, <2>6 DEF BurnSteps
<1>9. CASE ~Show /\ BurnMirror
  <2>1. /\ pc = "mirror" /\ pc' = "unlink" /\ section' = section /\ file.oneTime /\ ~loose
        /\ local' = Burned(task.section) /\ attempt[attempts].granted
    BY <1>9, BurnMirrorEffect DEF Burning
  <2>2. (\A n \in Views : ~Shown(n)) /\ SectionsDead
    BY <2>1 DEF BurnSteps, Viewing
  <2>3. Dead'
    BY <2>1, <2>2, <1>b, <1>c
  <2> QED
    BY <1>0, <1>d, <1>9, <2>1, <2>2, <2>3 DEF BurnSteps
<1>10. CASE ~Show /\ Unlinking
  <2>1. /\ pc = "unlink" /\ pc' = "show" /\ file.oneTime /\ ~loose /\ local' = local
        /\ attempt[attempts].granted
    BY <1>10, UnlinkEffect DEF Burning
  <2>2. (\A n \in Views : ~Shown(n)) /\ Dead
    BY <2>1 DEF BurnSteps, Viewing
  <2>3. \A d \in Drives : section'[d] = section[d] \/ section'[d] = NoCopy
    BY <1>10, UnlinkEffect DEF TypeInv, TypeOK
  <2>4. Dead'
    BY <2>1, <2>2, <2>3, <1>a
  <2> QED
    BY <1>0, <1>d, <1>10, <2>1, <2>2, <2>4 DEF BurnSteps
<1>11. CASE ~Show /\ Closing
  <2>1. /\ CopiesFrame /\ pc' = pc /\ pc \in {"idle", "attempt"} /\ FateFrame
        /\ file.oneTime /\ ~loose
    BY <1>11, ClosingEffect DEF CopiesFrame
  <2>2. pc = "attempt" => ~attempt'[attempts'].granted
    BY <2>1, ThisTyped DEF FateFrame, SameFate, History, Viewing
  <2> QED
    BY <1>0, <1>d, <1>11, <2>1, <2>2 DEF BurnSteps, CopiesFrame, Viewing
<1>12. CASE Show
  <2>1. /\ CopiesFrame /\ pc = "show" /\ pc' = "idle" /\ file.oneTime /\ ~loose
    BY <1>12, ShowEffect DEF CopiesFrame
  <2>2. ASSUME NEW n \in Views, Shown(n)' PROVE Dead
    BY <2>1, <2>2, ShownByShow DEF BurnSteps, Viewing
  <2> QED
    BY <1>0, <2>1, <2>2 DEF BurnSteps, CopiesFrame, Viewing
<1> QED
  BY <1>1, <1>2, <1>3, <1>4, <1>5, <1>6, <1>7, <1>8, <1>9, <1>10, <1>11, <1>12, StepCases

LEMMA OneViewStep ==
    ASSUME TypeInv, History, Unstored, BurnSteps, OneView, [Next]_vars
    PROVE  OneView'
<1> SUFFICES ASSUME file'.oneTime, ~loose', NEW m \in Views, NEW n \in Views,
                    Shown(m)', Shown(n)'
             PROVE  m = n
  BY DEF OneView, Views
<1>1. CASE Storing
  BY <1>1, StoringEffect DEF Unstored, Shown
<1>2. CASE ~Storing
  <2>1. file' = file
    BY <1>2, SurroundingsEffect, CopyingEffect, CrashEffect, WriteEffect, FailingEffect,
       ClickingEffect, DecidingEffect, BurnPrimaryEffect, BurnMirrorEffect,
       UnlinkEffect, ShowEffect, ClosingEffect, RebindEffect, StepCases
       DEF CopiesFrame
  <2>2. ~loose
    BY SurroundingsEffect, CrashEffect, WriteEffect, FailingEffect, StoringEffect,
       ClickingEffect, DecidingEffect, BurnPrimaryEffect, BurnMirrorEffect,
       UnlinkEffect, ShowEffect, ClosingEffect, RebindEffect, StepCases
       DEF CopiesFrame, Copying, Duplicate
  <2>3. CASE Show /\ attempt[attempts].granted
    <3>1. \A k \in Views : ~Shown(k)
      BY <2>1, <2>2, <2>3, ShowEffect DEF BurnSteps, Viewing
    <3> QED
      BY <3>1, ShownByShow
  <2>4. CASE ~(Show /\ attempt[attempts].granted)
    BY <2>1, <2>2, <2>4, ShownByShow DEF OneView
  <2> QED
    BY <2>3, <2>4
<1> QED
  BY <1>1, <1>2

-----------------------------------------------------------------------------
(***************************************************************************)
(* The theorems.                                                           *)
(***************************************************************************)
LEMMA InvInit == Init => IInv
<1> SUFFICES ASSUME Init PROVE IInv
  OBVIOUS
<1>1. TypeInv
  BY TypeInit
<1>2. \A n \in Views : attempt[n] = NoAttempt
  BY DEF Init, Views
<1>3. History /\ TaskStands /\ Snapshot /\ Burning
  BY <1>2 DEF Init, History, TaskStands, Snapshot, Burning, Viewing
<1>4. Sealing /\ DueViewsGranted /\ DriveBoundContent
  BY <1>2 DEF Sealing, DueViewsGranted, DriveBoundContent, NoAttempt
<1>5. ThrottleCounts
  BY AccessAssumption DEF Init, ThrottleCounts, MismatchesBounded
<1>6. Unstored /\ WrapsAtHome /\ SoleSection
  <2>1. /\ local = NoCopy /\ task.section = NoCopy /\ onDrive = {} /\ pc = "idle"
        /\ \A d \in Drives : section[d] = NoCopy
    BY DEF Init, NoTask
  <2>2. NoCopy.seal # "portable" /\ ~NoCopy.real /\ ~NoAttempt.granted
    BY DEF NoCopy, NoAttempt
  <2> QED
    BY <1>2, <2>1, <2>2 DEF Unstored, WrapsAtHome, AtHome, SoleSection
<1>7. BurnSteps /\ OneView
  BY <1>2 DEF Init, BurnSteps, OneView
<1> QED
  BY <1>1, <1>3, <1>4, <1>5, <1>6, <1>7 DEF IInv

LEMMA InvStep == IInv /\ [Next]_vars => IInv'
BY TypeStep, HistoryStep, TaskStep, SealingStep, ThrottleStep, UnstoredStep, WrapsStep,
   SnapshotStep, SoleStep, BurnStep, BurningStep, DriveStep, DueStep, OneViewStep DEF IInv

\* The inductive invariant holds in every reachable state of Access.
THEOREM Inductive == Spec => []IInv
BY InvInit, InvStep, PTL DEF Spec

\* A one-time file is shown once, whatever saves fail and wherever the program
\* dies (secure_access_service.py:415-446, one_time_access.py:95-124).
THEOREM ShownOnce == Spec => []OneView
<1>1. IInv => OneView
  BY DEF IInv
<1> QED
  BY <1>1, Inductive, PTL

\* Every view that was validated has one entry in the usage log once its window
\* is closed, and none before; a granted one's says when it was opened
\* (secure_access_service.py:314-390, tracking_service.py:87-104).
THEOREM SealedOnce == Spec => []ClosedViewsLogged
<1>1. IInv => ClosedViewsLogged
  BY DEF IInv, Sealing, ClosedViewsLogged
<1> QED
  BY <1>1, Inductive, PTL

\* A view that deserves to be granted at its click is granted, and only a real
\* session is ever granted one (decryption_page.py:572-583).
THEOREM DueGranted == Spec => []DueViewsGranted
<1>1. IInv => DueViewsGranted
  BY DEF IInv
<1> QED
  BY <1>1, Inductive, PTL

\* Content bound to its drive alone is granted there and nowhere else, rebound
\* or not (key_wrapper.py:80-120, device_rebind.py:123-137).
THEOREM BoundToDrive == Spec => []DriveBoundContent
<1>1. IInv => DriveBoundContent
  BY DEF IInv
<1> QED
  BY <1>1, Inductive, PTL

\* The throttle lets no more mismatches through than its threshold before a
\* lockout must be waited for (device_mismatch_throttle.py:55-74).
THEOREM MismatchesStayBounded == Spec => []MismatchesBounded
<1>1. IInv => MismatchesBounded
  BY DEF IInv, ThrottleCounts
<1> QED
  BY <1>1, Inductive, PTL

-----------------------------------------------------------------------------
(***************************************************************************)
(* Access implements OneTime.                                              *)
(***************************************************************************)
\* A file once stored keeps its policy, and a lost promise is not regained.
LEMMA PromiseLost ==
    ASSUME TypeInv, [Next]_vars
    PROVE  /\ file.stored => file' = file /\ (pc # "write" => pc' # "write")
           /\ loose => loose'
<1> USE DEF TypeInv, TypeOK
<1>1. CASE Surroundings \/ UNCHANGED vars
  BY <1>1, SurroundingsEffect DEF CopiesFrame
<1>2. CASE Copying \/ Rebind
  BY <1>2, CopyingEffect, RebindEffect DEF Copying, Duplicate
<1>3. CASE Crash \/ Failing
  BY <1>3, CrashEffect, FailingEffect DEF CopiesFrame
<1>4. CASE Storing \/ WriteContainer
  BY <1>4, StoringEffect DEF Storing, StoreRecord, WriteContainer, ghosts
<1>5. CASE Clicking \/ Deciding
  BY <1>5, ClickingEffect, DecidingEffect DEF CopiesFrame
<1>6. CASE BurnPrimary \/ BurnMirror
  BY <1>6 DEF BurnPrimary, BurnMirror, ghosts
<1>7. CASE Unlinking \/ Show \/ Closing
  BY <1>7, ShowEffect, ClosingEffect DEF Unlinking, Unlink, AfterUnlink, CopiesFrame, ghosts
<1> QED
  BY <1>1, <1>2, <1>3, <1>4, <1>5, <1>6, <1>7, StepCases

\* No step revives a copy of a file that no copy opens.
LEMMA DeadStaysDead ==
    ASSUME TypeInv, file.stored, pc # "write", Dead, [Next]_vars
    PROVE  Dead'
<1> USE DEF Dead, SectionsDead
<1>a. NoCopy.seal \notin {"portable", "session"}
  BY DEF NoCopy
<1>b. \A c \in Copies : Burned(c).seal \notin {"portable", "session"}
  BY DEF Burned, Copies
<1>c. local \in Copies /\ task.section \in Copies /\ section \in [Drives -> Copies]
  BY DEF TypeInv, TypeOK, Tasks
<1>1. CASE Surroundings \/ UNCHANGED vars \/ Crash \/ Failing \/ Clicking \/ Deciding
           \/ Show \/ Closing
  <2>1. local' = local /\ section' = section
    BY <1>1, SurroundingsEffect, CrashEffect, FailingEffect, ClickingEffect,
       DecidingEffect, ShowEffect, ClosingEffect DEF CopiesFrame, vars, copies
  <2> QED
    BY <2>1
<1>2. CASE Copying
  <2>1. PICK d \in Drives, e \in Drives : Duplicate(d, e)
    BY <1>2 DEF Copying
  <2> QED
    BY <2>1, <1>c DEF Duplicate
<1>3. CASE Storing \/ WriteContainer \/ Rebind
  BY <1>3, RebindEffect DEF Storing, StoreRecord, WriteContainer
<1>4. CASE BurnPrimary
  BY <1>4, <1>b, <1>c, BurnPrimaryEffect
<1>5. CASE BurnMirror
  BY <1>5, <1>b, <1>c, BurnMirrorEffect
<1>6. CASE Unlinking
  <2>1. local' = local /\ \A d \in Drives : section'[d] = section[d] \/ section'[d] = NoCopy
    BY <1>6, <1>c, UnlinkEffect
  <2> QED
    BY <2>1, <1>a
<1> QED
  BY <1>1, <1>2, <1>3, <1>4, <1>5, <1>6, StepCases

\* A window that was shown stays one that was shown.
LEMMA ShownStays ==
    ASSUME TypeInv, History, [Next]_vars, NEW n \in Views, Shown(n)
    PROVE  Shown(n)'
<1> USE DEF Shown
<1>0. attempts \in Nat /\ n <= attempts
  BY DEF History, NoAttempt, Views, TypeInv, TypeOK
<1>1. CASE Surroundings \/ UNCHANGED vars \/ Copying \/ Rebind \/ Failing \/ Storing
           \/ WriteContainer \/ Unlinking
  BY <1>1, SurroundingsEffect, CopyingEffect, RebindEffect, FailingEffect,
     StoringEffect, WriteEffect, UnlinkEffect DEF vars, views
<1>2. CASE Crash
  BY <1>2, CrashEffect DEF FateFrame, SameFate
<1>3. CASE Clicking
  BY <1>0, <1>3, ClickingEffect
<1>4. CASE Deciding
  <2>1. attempt[attempts].window = "none"
    BY <1>4, DecidingEffect DEF History, Viewing
  <2> QED
    BY <1>4, <2>1, DecidingEffect
<1>5. CASE BurnPrimary \/ BurnMirror
  BY <1>5, BurnPrimaryEffect, BurnMirrorEffect DEF FateFrame, WindowFrame, SameFate
<1>6. CASE Show
  BY <1>6, ShowEffect DEF FateFrame, SameFate
<1>7. CASE Closing
  <2>1. PICK m \in Views : /\ attempt'[m].window # "none"
                           /\ \A k \in Views : k # m => attempt'[k] = attempt[k]
    BY <1>7, ClosingEffect
  <2> QED
    BY <1>7, <2>1, ClosingEffect DEF FateFrame, SameFate
<1> QED
  BY <1>1, <1>2, <1>3, <1>4, <1>5, <1>6, <1>7, StepCases

LEMMA OneTimeStep ==
    ASSUME IInv, [Next]_vars
    PROVE  [OneTimeFile!Next]_OneTimeState
<1> USE DEF OneTimeFile!Next, OneTimeFile!Burn, OneTimeFile!Show, OneTimeFile!Void
<1> DEFINE Seen == \E n \in Views : Shown(n)
<1>0. TypeInv /\ History /\ Unstored /\ BurnSteps /\ Views' = Views
  BY DEF IInv, Views
<1>1. CASE ~Promised'
  BY <1>1 DEF OneTimeState
<1>2. CASE Promised'
  <2>1. Promised
    BY <1>0, <1>2, PromiseLost DEF Promised
  <2>2. Seen => Seen'
    BY <1>0, ShownStays
  <2>3. ~CanBeOpened => ~CanBeOpened'
    <3> SUFFICES ASSUME ~CanBeOpened PROVE ~CanBeOpened'
      OBVIOUS
    <3>1. file.stored /\ pc # "write" /\ Dead
      BY DEF CanBeOpened, Dead, SectionsDead
    <3>2. Dead' /\ file'.stored /\ pc' # "write"
      BY <1>0, <3>1, DeadStaysDead, PromiseLost
    <3> QED
      BY <3>2 DEF CanBeOpened, Dead, SectionsDead
  <2>4. ~Seen /\ Seen' => ~CanBeOpened
    <3> SUFFICES ASSUME ~Seen, Seen' PROVE ~CanBeOpened
      OBVIOUS
    <3>1. PICK n \in Views : Shown(n)'
      BY <1>0
    <3>2. Show /\ n = attempts /\ attempt[n].granted
      BY <1>0, <3>1, ShownByShow
    <3>3. pc = "show" /\ Viewing
      BY <3>2 DEF Show, Viewing
    <3>4. file.stored
      BY <1>0, <3>2 DEF Unstored
    <3>5. file.oneTime /\ ~loose
      BY <2>1, <3>4 DEF Promised
    <3>6. Dead
      BY <1>0, <3>2, <3>3, <3>5 DEF BurnSteps
    <3> QED
      BY <3>3, <3>4, <3>6 DEF CanBeOpened, Dead, SectionsDead
  <2>5. /\ OneTimeState = IF Seen THEN "shown"
                          ELSE IF CanBeOpened THEN "unburned" ELSE "burned"
        /\ OneTimeState' = IF Seen' THEN "shown"
                           ELSE IF CanBeOpened' THEN "unburned" ELSE "burned"
    BY <1>2, <2>1 DEF OneTimeState
  <2> HIDE DEF Seen
  <2> QED
    BY <2>2, <2>3, <2>4, <2>5
<1> QED
  BY <1>1, <1>2

\* A one-time file behaves as module OneTime says: burned for good first, its
\* only window after that (one_time_access.py:95-124, decryption_page.py:650-722).
THEOREM ImplementsOneTime == Spec => BurnedThenShown
<1>1. Init => OneTimeFile!Init
  <2> SUFFICES ASSUME Init PROVE OneTimeState = "unburned"
    BY DEF OneTimeFile!Init
  <2>1. Promised /\ CanBeOpened
    BY DEF Init, Promised, CanBeOpened
  <2>2. \A n \in Views : ~Shown(n)
    BY DEF Init, Shown, NoAttempt, Views
  <2> QED
    BY <2>1, <2>2 DEF OneTimeState
<1> QED
  BY <1>1, OneTimeStep, Inductive, PTL DEF Spec, BurnedThenShown, OneTimeFile!Spec

-----------------------------------------------------------------------------
(***************************************************************************)
(* The throttle is the one that module Gate has with its durations.        *)
(***************************************************************************)
\* Mismatches beyond the threshold make no difference.
Capped(count) == IF count < MaxFailedAttempts THEN count ELSE MaxFailedAttempts

LEMMA StrikeStep ==
    ASSUME TypeInv, [Next]_vars
    PROVE  [StrikeCount!Strike \/ StrikeCount!Forgive \/ StrikeCount!Expire]_<<IF mismatches < MaxFailedAttempts THEN mismatches ELSE MaxFailedAttempts, throttled>>
<1>1. mismatches \in Nat /\ throttled \in BOOLEAN /\ MaxFailedAttempts \in Nat \ {0}
  BY AccessAssumption DEF TypeInv, TypeOK
<1>2. (IF mismatches < MaxFailedAttempts THEN mismatches ELSE MaxFailedAttempts)' = Capped(mismatches')
  BY DEF Capped
<1>3. CASE UNCHANGED throttle
  BY <1>3 DEF throttle
<1>4. CASE mismatches' = 0 /\ throttled' = FALSE
  <2>1. Capped(mismatches') = 0
    BY <1>1, <1>4 DEF Capped
  <2> QED
    BY <1>2, <1>4, <2>1 DEF StrikeCount!Forgive
<1>5. CASE throttled' = FALSE /\ mismatches' = mismatches
  BY <1>1, <1>5 DEF StrikeCount!Expire
<1>6. CASE ~throttled /\ RegisterMismatch
  <2>1. /\ mismatches' = mismatches + 1
        /\ throttled' = (mismatches + 1 >= MaxFailedAttempts)
    BY <1>6 DEF RegisterMismatch, Locks
  <2>2. Capped(mismatches') = IF Capped(mismatches) < MaxFailedAttempts
                              THEN Capped(mismatches) + 1 ELSE MaxFailedAttempts
    BY <1>1, <2>1 DEF Capped
  <2>3. mismatches + 1 >= MaxFailedAttempts <=> Capped(mismatches') = MaxFailedAttempts
    BY <1>1, <2>1 DEF Capped
  <2>4. throttled' = (Capped(mismatches') = MaxFailedAttempts)
    BY <2>1, <2>3
  <2> QED
    BY <1>2, <1>6, <2>2, <2>4 DEF StrikeCount!Strike, Capped
<1> QED
  BY <1>3, <1>4, <1>5, <1>6, ThrottleMoves

\* LocksOut: through views that fail, crash or are shown, the throttle locks at the threshold
\* and what finds a file locked is not counted, as in the lock that Gate implements with its
\* durations (secure_access_service.py:301-361, device_mismatch_throttle.py:55-80).
THEOREM ThrottleLocksOut == Spec => LocksOut
<1>1. Init => StrikeCount!Init
  BY AccessAssumption DEF Init, StrikeCount!Init
<1>2. TypeInv /\ [Next]_vars
         => [StrikeCount!Strike \/ StrikeCount!Forgive \/ StrikeCount!Expire]_<<IF mismatches < MaxFailedAttempts THEN mismatches ELSE MaxFailedAttempts, throttled>>
  BY StrikeStep
<1>3. Spec => []TypeInv
  BY TypeInit, TypeStep, PTL DEF Spec
<1> QED
  BY <1>1, <1>2, <1>3, PTL DEF Spec, LocksOut, StrikeCount!Spec
=============================================================================
