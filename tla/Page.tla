-------------------------------- MODULE Page --------------------------------
(***************************************************************************)
(* The Decrypt page: its tables of drives and of containers, which a timer *)
(* rebuilds behind the user's back, the key the user loads, and the views  *)
(* and rebinds that start from what is selected.                           *)
(*                                                                         *)
(* A drive is known to the page by its letter.  The user swaps sticks and  *)
(* files; the page notices at its next poll, if what the detection returns *)
(* (drives with their free space, which the files stand for here) is not   *)
(* what it returned last.  A view and a rebind both let the event loop run *)
(* between the click and the act, and a load and a rebind once more in the *)
(* message box that reports them, before the handler is done: the poll     *)
(* fires, and windows close.                                               *)
(*                                                                         *)
(* An operator whose name begins with Slip is a plausible slip in the code *)
(* of the operator after it; no action uses it.                            *)
(***************************************************************************)
EXTENDS Naturals

CONSTANTS
    Letters,    \* the drive letters (mount points)
    Sticks,     \* the USB sticks that may be plugged in
    Names,      \* the names of containers
    None,       \* nothing
    MaxChanges, \* bound: how often the user moves sticks or files, or a detection fails
    MaxViews,   \* bound: how many views are clicked
    MaxLoads    \* bound: how many keys are loaded

ASSUME PageAssumption ==
    /\ None \notin Letters \cup Sticks \cup (Letters \X Names)
    /\ MaxChanges \in Nat /\ MaxViews \in Nat /\ MaxLoads \in Nat

VARIABLES
    plugged,    \* the stick under each letter
    files,      \* the containers on each stick
    changes,    \* how many changes there were
    devices,    \* _devices: what the last detection returned, by letter
    selected,   \* _selected_device: its letter
    listing,    \* _containers: paths
    chosen,     \* _selected_container: a path
    key,        \* _key_wrapper: the number of the load it is from, 0 if there is none
    passphrase, \* _loaded_key_passphrase: likewise
    loads,      \* how many keys were loaded
    enabled,    \* the View and Rebind buttons
    pc,         \* the handler that waits in an event loop of its own, or "idle"
    task,       \* what the view or the rebind in progress was clicked for
    views,      \* how many views were clicked; the last one's window is _active_viewer
    window,     \* the window of each
    expired,    \* how many keys had been loaded when a window last closed
    acted       \* the last view or rebind: what was clicked and what it acted on

outside == <<plugged, files, changes>>
tables  == <<devices, selected, listing, chosen>>
keys    == <<key, passphrase, loads>>
windows == <<views, window, expired>>
vars    == <<outside, tables, keys, enabled, pc, task, windows, acted>>

Paths    == Letters \X Names
Readings == [stick : Sticks, files : SUBSET Names]
Targets  == [path : Paths \cup {None}, at : Letters \cup {None}]
Nothing  == [path |-> None, at |-> None]
NoTask   == [target |-> Nothing, key |-> 0]

\* A view and a rebind wait before they act, "loaded" and "rebound" for the user
\* to acknowledge the message box.
Places == {"idle", "viewing", "rebinding", "loaded", "rebound"}

TypeOK ==
    /\ plugged \in [Letters -> Sticks \cup {None}]
    /\ files \in [Sticks -> SUBSET Names]
    /\ changes \in 0..MaxChanges
    /\ devices \in [Letters -> Readings \cup {None}]
    /\ selected \in Letters \cup {None}
    /\ listing \subseteq Paths
    /\ chosen \in Paths \cup {None}
    /\ loads \in 0..MaxLoads
    /\ key \in 0..loads /\ passphrase \in 0..loads
    /\ enabled \in BOOLEAN
    /\ pc \in Places
    /\ task \in [target : Targets, key : 0..MaxLoads]
    /\ views \in 0..MaxViews
    /\ window \in [1..MaxViews -> {"none", "open", "hidden", "closed", "dropped"}]
    /\ expired \in 0..loads
    /\ acted \in [clicked : Targets, target : Targets]

Init ==
    /\ plugged = [l \in Letters |-> None]
    /\ files = [s \in Sticks |-> Names]
    /\ changes = 0
    /\ devices = [l \in Letters |-> None]
    /\ selected = None /\ listing = {} /\ chosen = None
    /\ key = 0 /\ passphrase = 0 /\ loads = 0
    /\ enabled = FALSE
    /\ pc = "idle"
    /\ task = NoTask
    /\ views = 0
    /\ window = [n \in 1..MaxViews |-> "none"]
    /\ expired = 0
    /\ acted = [clicked |-> Nothing, target |-> Nothing]

(***************************************************************************)
(* What the user does to drives and files.                                 *)
(***************************************************************************)
Change == changes < MaxChanges /\ changes' = changes + 1

Plug(l, s) ==
    /\ Change
    /\ plugged[l] = None /\ \A m \in Letters : plugged[m] # s
    /\ plugged' = [plugged EXCEPT ![l] = s]
    /\ UNCHANGED <<files, tables, keys, enabled, pc, task, windows, acted>>

Unplug(l) ==
    /\ Change
    /\ plugged[l] # None
    /\ plugged' = [plugged EXCEPT ![l] = None]
    /\ UNCHANGED <<files, tables, keys, enabled, pc, task, windows, acted>>

\* A container is written by the Encrypt page or copied by the user, or removed.
PutFile(s, n) ==
    /\ Change
    /\ files' = [files EXCEPT ![s] = IF n \in @ THEN @ \ {n} ELSE @ \cup {n}]
    /\ UNCHANGED <<plugged, tables, keys, enabled, pc, task, windows, acted>>

(***************************************************************************)
(* The tables.                                                             *)
(***************************************************************************)
\* detect_devices: the drives in the sockets, but for those that cannot be read.
Detected(missed) ==
    [l \in Letters |-> IF plugged[l] = None \/ l \in missed THEN None
                       ELSE [stick |-> plugged[l], files |-> files[plugged[l]]]]

\* The glob of a drive's directory, the sticks holding the files fs.
Listed(l, fs) ==
    IF l = None THEN {}
    ELSE IF plugged[l] = None THEN {} ELSE {l} \X fs[plugged[l]]

\* Slip: the button looks at the file only.
SlipEnabled(path, k) == path # None

\* _update_view_button_state
Enabled(path, k) == path # None /\ k # 0

\* The file that was selected is selected again if it is still listed.
Reselected(path, found) == IF path \in found THEN path ELSE None

\* _refresh_containers: the table is rebuilt if the paths are not those it shows.
RefreshContainers(found, path) ==
    IF found = listing THEN UNCHANGED <<listing, chosen, enabled>>
    ELSE /\ listing' = found
         /\ chosen' = Reselected(path, found)
         /\ enabled' = Enabled(chosen', key)

\* Slip: only drives that come and go count as a change.
SlipChanged(found) == {l \in Letters : found[l] # None} # {l \in Letters : devices[l] # None}

Changed(found) == found # devices

\* _refresh_devices: nothing happens if nothing changed.  Else emptying the table
\* deselects the drive, and with it the file; the drive is selected again by its
\* letter, its file is not.
Rebuild(found) ==
    LET again == IF selected # None /\ found[selected] # None THEN selected ELSE None
    IN  /\ devices' = found
        /\ selected' = again
        /\ listing' = Listed(again, files)
        /\ chosen' = None
        /\ enabled' = FALSE
        /\ UNCHANGED <<plugged, files, keys, pc, task, windows, acted>>

Poll(missed) ==
    IF Changed(Detected(missed))
    THEN /\ Rebuild(Detected(missed))
         /\ IF missed = {} THEN UNCHANGED changes ELSE Change
    ELSE UNCHANGED vars

\* The user selects a row, or deselects the one that is selected.
SelectDevice(l) ==
    /\ pc = "idle"
    /\ l # selected
    /\ l # None => devices[l] # None
    /\ selected' = l
    /\ RefreshContainers(Listed(l, files), chosen)
    /\ UNCHANGED <<outside, devices, keys, pc, task, windows, acted>>

ChooseFile(path) ==
    /\ pc = "idle"
    /\ path \in listing \cup {None} /\ path # chosen
    /\ chosen' = path
    /\ enabled' = Enabled(path, key)
    /\ UNCHANGED <<outside, devices, selected, listing, keys, pc, task, windows, acted>>

\* A key that does not load is replaced by a fresh pair, and looks the same: it is
\* set, and a message box says so.
LoadKey ==
    /\ pc = "idle"
    /\ loads < MaxLoads
    /\ loads' = loads + 1
    /\ key' = loads' /\ passphrase' = loads'
    /\ pc' = "loaded"
    /\ UNCHANGED <<outside, tables, enabled, task, windows, acted>>

\* The message box is closed: only now are the buttons set, by the key and the file
\* that are left.
FinishLoad ==
    /\ pc = "loaded"
    /\ enabled' = Enabled(chosen, key)
    /\ pc' = "idle"
    /\ UNCHANGED <<outside, tables, keys, task, windows, acted>>

(***************************************************************************)
(* Viewing and rebinding.                                                  *)
(***************************************************************************)
Here == [path |-> chosen, at |-> selected]

\* read_encrypted_file_bytes: the container can be read.
Readable(path) == path # None /\ path \in Listed(path[1], files)

ClickView ==
    /\ pc = "idle" /\ enabled
    /\ Readable(chosen)
    /\ views < MaxViews
    /\ views' = views + 1
    /\ task' = [target |-> Here, key |-> key]
    /\ pc' = "viewing"
    /\ UNCHANGED <<outside, tables, keys, enabled, window, expired, acted>>

\* Slip: what is selected once the event loop has run.
SlipViewTarget == Here

\* A view acts on the locals its click took a snapshot into.
ViewTarget == task.target

Done(t) ==
    /\ acted' = [clicked |-> task.target, target |-> t]
    /\ task' = NoTask

\* attempt_access, and the window: a decoy is displayed if the view is denied.  A
\* granted view of a one-time file deletes its container, if it can, so the table
\* is refreshed; a save of the burn that fails leaves the handler, and the content
\* in a window that is never shown.
FinishView(outcome) ==
    /\ pc = "viewing"
    /\ IF outcome = "deleted" /\ Readable(ViewTarget.path)
       THEN files' = [files EXCEPT ![plugged[ViewTarget.path[1]]] = @ \ {ViewTarget.path[2]}]
       ELSE UNCHANGED files
    /\ IF outcome \in {"granted", "deleted"}
       THEN RefreshContainers(Listed(selected, files'), chosen)
       ELSE UNCHANGED <<listing, chosen, enabled>>
    /\ window' = [window EXCEPT ![views] = IF outcome = "failed" THEN "hidden" ELSE "open"]
    /\ Done(ViewTarget)
    /\ pc' = "idle"
    /\ UNCHANGED <<plugged, changes, devices, selected, keys, views, expired>>

\* Slip: a window takes the key with it only if no later one has replaced it.
SlipKeyAfterClose(n) == IF n = views THEN 0 ELSE key

KeyAfterClose(n) == 0

\* A window is closed, by the user or by the watcher for screen captures, which
\* runs while the page waits too.
CloseWindow(n) ==
    /\ window[n] = "open"
    /\ window' = [window EXCEPT ![n] = "closed"]
    /\ key' = KeyAfterClose(n)
    /\ enabled' = Enabled(chosen, key')
    /\ expired' = loads
    /\ UNCHANGED <<outside, tables, passphrase, loads, pc, task, views, acted>>

\* The page refers to the last window only: an earlier one that is still open may
\* be destroyed, without a close event.
DropWindow(n) ==
    /\ n < views /\ window[n] \in {"open", "hidden"}
    /\ window' = [window EXCEPT ![n] = "dropped"]
    /\ UNCHANGED <<outside, tables, keys, enabled, pc, task, views, expired, acted>>

ClickRebind ==
    /\ pc = "idle" /\ enabled
    /\ task' = [target |-> Here, key |-> key]
    /\ pc' = "rebinding"
    /\ UNCHANGED <<outside, tables, keys, enabled, windows, acted>>

\* The prompt for the passphrase is cancelled, or the file is gone from the
\* selection by the time it is answered: nothing is done.
CancelRebind ==
    /\ pc = "rebinding"
    /\ pc' = "idle" /\ task' = NoTask
    /\ UNCHANGED <<outside, tables, keys, enabled, windows, acted>>

\* The prompt is answered: the page looks at its selection again, moves the file's
\* binding to that drive, and says so in a message box.
AnswerRebind ==
    /\ pc = "rebinding"
    /\ Readable(chosen)
    /\ Done(Here)
    /\ pc' = "rebound"
    /\ UNCHANGED <<outside, tables, keys, enabled, windows>>

\* The message box is closed, and the table refreshed.
FinishRebind ==
    /\ pc = "rebound"
    /\ RefreshContainers(Listed(selected, files), chosen)
    /\ pc' = "idle"
    /\ UNCHANGED <<outside, devices, selected, keys, task, windows, acted>>

Next ==
    \/ \E l \in Letters, s \in Sticks : Plug(l, s)
    \/ \E l \in Letters : Unplug(l)
    \/ \E s \in Sticks, n \in Names : PutFile(s, n)
    \/ \E missed \in SUBSET Letters : Poll(missed)
    \/ \E l \in Letters \cup {None} : SelectDevice(l)
    \/ \E path \in Paths \cup {None} : ChooseFile(path)
    \/ LoadKey \/ FinishLoad
    \/ ClickView
    \/ \E outcome \in {"denied", "granted", "deleted", "failed"} : FinishView(outcome)
    \/ \E n \in 1..MaxViews : CloseWindow(n) \/ DropWindow(n)
    \/ ClickRebind \/ CancelRebind \/ AnswerRebind \/ FinishRebind

Spec == Init /\ [][Next]_vars

\* The timer fires as long as the event loop runs, under modal dialogs too; the
\* user owes nothing.
FairSpec == Spec /\ WF_vars(\E missed \in SUBSET Letters : Poll(missed))

-----------------------------------------------------------------------------
\* The tables and the buttons fit together, whatever was polled, refreshed, closed
\* or deleted in between: the file that is selected is listed, what is listed is on
\* the drive that is selected, that drive was detected, the buttons offer a view only
\* when there is a file and a key to view it with, and whenever there is, except
\* while the message box of a load is up (decryption_page.py:356-514).
Coherent ==
    /\ chosen # None => chosen \in listing
    /\ \A path \in listing : path[1] = selected
    /\ selected # None => devices[selected] # None
    /\ enabled => chosen # None /\ key # 0
    /\ chosen # None /\ key # 0 /\ pc # "loaded" => enabled

\* A view or a rebind acts on what was selected when it was clicked, though the
\* tables may be rebuilt before it does: the view goes by its locals, the rebind
\* finds its file selected still, or nothing selected.
ActsOnClicked == acted.target = acted.clicked

\* A key is good until a window closes: none that was loaded before that can be
\* used for another view, whichever windows were open and in whichever order they
\* close.
KeyExpires == key # 0 => key > expired

\* The page catches up with the drives and the space on them once the user leaves
\* them alone: no change escapes the comparison with the last poll, and no drive
\* that is gone stays selected.  (Its listing may lag: a file that is deleted by a
\* burn and put back before the next poll leaves the free space as it was.)
CatchesUp == <>[](devices = Detected({}) /\ (selected # None => plugged[selected] # None))
=============================================================================
