----------------------------- MODULE PageProofs ------------------------------
(***************************************************************************)
(* What is proved of the Decrypt page for any drives, files, views, keys   *)
(* and polls.  The invariant is the type invariant, the fit of the tables  *)
(* and the buttons, the age of the key, and one fact more: while a rebind  *)
(* waits for its passphrase, the selection is what was clicked or is gone. *)
(***************************************************************************)
EXTENDS Page, TLAPS

Waiting == pc = "rebinding" /\ chosen # None => task.target = Here

PInv ==
    /\ TypeOK
    /\ Coherent
    /\ KeyExpires
    /\ Waiting
    /\ ActsOnClicked

\* What a drive lists are paths on that drive.
LEMMA ListedPaths ==
    ASSUME TypeOK, NEW l \in Letters \cup {None}, NEW fs \in [Sticks -> SUBSET Names]
    PROVE  /\ Listed(l, fs) \subseteq Paths
           /\ \A path \in Listed(l, fs) : path[1] = l
           /\ l = None => Listed(l, fs) = {}
<1>1. CASE l = None \/ plugged[l] = None
  BY <1>1 DEF Listed
<1>2. CASE l # None /\ plugged[l] # None
  <2>1. l \in Letters /\ plugged[l] \in Sticks
    BY <1>2 DEF TypeOK
  <2>2. Listed(l, fs) = {l} \X fs[plugged[l]] /\ fs[plugged[l]] \subseteq Names
    BY <1>2, <2>1 DEF Listed
  <2> QED
    BY <2>1, <2>2, <1>2 DEF Paths
<1> QED
  BY <1>1, <1>2

\* A refresh leaves a file selected only if it is listed, and the buttons in step.
LEMMA RefreshFits ==
    ASSUME TypeOK, Coherent, pc # "loaded", NEW l \in Letters \cup {None},
           NEW fs \in [Sticks -> SUBSET Names],
           RefreshContainers(Listed(l, fs), chosen), key' = key
    PROVE  /\ listing' \subseteq Paths /\ chosen' \in Paths \cup {None}
           /\ enabled' \in BOOLEAN
           /\ chosen' # None => chosen' \in listing' /\ chosen' = chosen
           /\ \A path \in listing' : path[1] = l
           /\ enabled' <=> chosen' # None /\ key' # 0
<1>1. /\ Listed(l, fs) \subseteq Paths
      /\ \A path \in Listed(l, fs) : path[1] = l
  BY ListedPaths
<1>2. CASE Listed(l, fs) = listing
  BY <1>1, <1>2 DEF RefreshContainers, Coherent, TypeOK
<1>3. CASE Listed(l, fs) # listing
  <2>1. /\ listing' = Listed(l, fs) /\ chosen' = Reselected(chosen, listing')
        /\ enabled' = Enabled(chosen', key)
    BY <1>3 DEF RefreshContainers
  <2>2. chosen' = None \/ (chosen' = chosen /\ chosen \in listing')
    BY <2>1 DEF Reselected
  <2>3. enabled' \in BOOLEAN /\ (enabled' <=> chosen' # None /\ key # 0)
    BY <2>1 DEF Enabled
  <2> QED
    BY <1>1, <2>1, <2>2, <2>3
<1> QED
  BY <1>2, <1>3

LEMMA PInvInit == Init => PInv
<1> SUFFICES ASSUME Init PROVE PInv
  OBVIOUS
<1>1. TypeOK
  <2>1. /\ plugged \in [Letters -> Sticks \cup {None}]
        /\ files \in [Sticks -> SUBSET Names]
        /\ devices \in [Letters -> Readings \cup {None}]
        /\ window \in [1..MaxViews -> {"none", "open", "hidden", "closed", "dropped"}]
    BY DEF Init
  <2>2. /\ Nothing \in Targets
        /\ NoTask \in [target : Targets, key : 0..MaxLoads]
    BY PageAssumption DEF Targets, NoTask, Nothing
  <2>3. /\ acted \in [clicked : Targets, target : Targets]
        /\ task \in [target : Targets, key : 0..MaxLoads]
    BY <2>2 DEF Init
  <2>4. /\ changes \in 0..MaxChanges /\ loads \in 0..MaxLoads /\ views \in 0..MaxViews
        /\ key \in 0..loads /\ passphrase \in 0..loads /\ expired \in 0..loads
    BY PageAssumption DEF Init
  <2>5. /\ selected \in Letters \cup {None} /\ chosen \in Paths \cup {None}
        /\ listing \subseteq Paths /\ enabled \in BOOLEAN
        /\ pc \in Places
    BY DEF Init, Places
  <2> QED
    BY <2>1, <2>3, <2>4, <2>5 DEF TypeOK
<1> QED
  BY <1>1 DEF Init, PInv, Coherent, KeyExpires, Waiting, ActsOnClicked

LEMMA PInvStep == PInv /\ [Next]_vars => PInv'
<1> SUFFICES ASSUME PInv, [Next]_vars PROVE PInv'
  OBVIOUS
<1> USE DEF PInv, Places
<1>0. /\ Here \in Targets /\ chosen \in Paths \cup {None}
      /\ key \in Nat /\ loads \in Nat /\ expired \in Nat
      /\ NoTask \in [target : Targets, key : 0..MaxLoads]
      /\ task.target \in Targets
  BY PageAssumption DEF TypeOK, Here, Targets, NoTask, Nothing
<1> USE DEF outside, tables, keys, windows
<1>1. ASSUME NEW l \in Letters, NEW s \in Sticks, Plug(l, s) PROVE PInv'
  BY <1>1, PageAssumption DEF Plug, Change, TypeOK, Coherent, KeyExpires, Waiting, ActsOnClicked, Here
<1>2. ASSUME NEW l \in Letters, Unplug(l) PROVE PInv'
  BY <1>2, PageAssumption DEF Unplug, Change, TypeOK, Coherent, KeyExpires, Waiting, ActsOnClicked, Here
<1>3. ASSUME NEW s \in Sticks, NEW n \in Names, PutFile(s, n) PROVE PInv'
  <2>1. files' \in [Sticks -> SUBSET Names]
    BY <1>3 DEF PutFile, TypeOK
  <2> QED
    BY <1>3, <2>1, PageAssumption DEF PutFile, Change, TypeOK, Coherent, KeyExpires, Waiting,
       ActsOnClicked, Here
<1>4. ASSUME NEW missed \in SUBSET Letters, Poll(missed) PROVE PInv'
  <2> DEFINE found == Detected(missed)
             again == IF selected # None /\ found[selected] # None THEN selected ELSE None
  <2>1. CASE ~Changed(found)
    BY <1>4, <2>1 DEF Poll, vars, TypeOK, Coherent, KeyExpires, Waiting, ActsOnClicked, Here
  <2>2. CASE Changed(found)
    <3>1. /\ devices' = found /\ selected' = again /\ listing' = Listed(again, files)
          /\ chosen' = None /\ enabled' = FALSE
          /\ UNCHANGED <<plugged, files, keys, pc, task, windows, acted>>
          /\ changes' = changes \/ Change
      BY <1>4, <2>2 DEF Poll, Rebuild
    <3>2. again \in Letters \cup {None} /\ (again # None => found[again] # None)
      BY DEF TypeOK
    <3>3. found \in [Letters -> Readings \cup {None}]
      <4>1. ASSUME NEW l \in Letters PROVE found[l] \in Readings \cup {None}
        BY <4>1 DEF Detected, Readings, TypeOK
      <4> QED
        BY <4>1 DEF Detected
    <3>4. /\ Listed(again, files) \subseteq Paths
          /\ \A path \in Listed(again, files) : path[1] = again
      BY <3>2, ListedPaths DEF TypeOK
    <3>5. changes' \in 0..MaxChanges
      BY <3>1, PageAssumption DEF Change, TypeOK
    <3> HIDE DEF found, again
    <3>6. TypeOK'
      BY <3>1, <3>2, <3>3, <3>4, <3>5 DEF TypeOK
    <3>7. Coherent' /\ Waiting'
      BY <3>1, <3>2, <3>4 DEF Coherent, Waiting
    <3> QED
      BY <3>1, <3>6, <3>7 DEF KeyExpires, ActsOnClicked
  <2> QED
    BY <2>1, <2>2
<1>5. ASSUME NEW l \in Letters \cup {None}, SelectDevice(l) PROVE PInv'
  <2>1. /\ RefreshContainers(Listed(l, files), chosen) /\ key' = key
        /\ selected' = l /\ pc = "idle" /\ (l # None => devices[l] # None)
        /\ UNCHANGED <<outside, devices, keys, pc, task, windows, acted>>
    BY <1>5 DEF SelectDevice
  <2>2. files \in [Sticks -> SUBSET Names]
    BY DEF TypeOK
  <2>3. /\ listing' \subseteq Paths /\ chosen' \in Paths \cup {None}
        /\ enabled' \in BOOLEAN
        /\ chosen' # None => chosen' \in listing' /\ chosen' = chosen
        /\ \A path \in listing' : path[1] = l
        /\ enabled' <=> chosen' # None /\ key' # 0
    BY <2>1, <2>2, RefreshFits
  <2>4. TypeOK'
    BY <2>1, <2>3 DEF TypeOK
  <2>5. Coherent'
    BY <2>1, <2>3 DEF Coherent
  <2> QED
    BY <2>1, <2>4, <2>5 DEF KeyExpires, Waiting, ActsOnClicked
<1>6. ASSUME NEW path \in Paths \cup {None}, ChooseFile(path) PROVE PInv'
  <2>1. enabled' \in BOOLEAN /\ (enabled' <=> path # None /\ key # 0)
    BY <1>6 DEF ChooseFile, Enabled
  <2> QED
    BY <1>6, <2>1 DEF ChooseFile, TypeOK, Coherent, KeyExpires, Waiting, ActsOnClicked
<1>7. CASE LoadKey
  <2>1. enabled' = enabled /\ chosen' = chosen /\ pc' = "loaded"
    BY <1>7 DEF LoadKey
  <2>2. loads' = loads + 1 /\ key' = loads' /\ passphrase' = loads' /\ loads' \in 0..MaxLoads
    BY <1>7, PageAssumption DEF LoadKey, TypeOK
  <2>3. expired \in 0..loads' /\ key' > expired /\ key' \in 0..loads'
    BY <2>2, <1>0 DEF TypeOK
  <2>4. TypeOK'
    BY <1>7, <2>1, <2>2, <2>3 DEF LoadKey, TypeOK
  <2>5. expired' = expired /\ UNCHANGED <<tables, acted>>
    BY <1>7 DEF LoadKey
  <2> QED
    BY <1>0, <2>1, <2>2, <2>3, <2>4, <2>5 DEF Coherent, KeyExpires, Waiting, ActsOnClicked
<1>16. CASE FinishLoad
  <2>1. enabled' \in BOOLEAN /\ (enabled' <=> chosen # None /\ key # 0)
    BY <1>16 DEF FinishLoad, Enabled
  <2> QED
    BY <1>16, <2>1 DEF FinishLoad, TypeOK, Coherent, KeyExpires, Waiting, ActsOnClicked
<1>8. CASE ClickView
  <2>1. views' \in 0..MaxViews /\ window' = window
        /\ \A n \in 1..MaxViews : n > views' => n > views
    BY <1>8, PageAssumption DEF ClickView, TypeOK
  <2>2. task' \in [target : Targets, key : 0..MaxLoads]
    <3>1. key \in 0..MaxLoads
      BY PageAssumption DEF TypeOK
    <3>2. task' = [target |-> Here, key |-> key]
      BY <1>8 DEF ClickView
    <3> QED
      BY <1>0, <3>1, <3>2
  <2> QED
    BY <1>8, <2>1, <2>2 DEF ClickView, TypeOK, Coherent, KeyExpires, Waiting, ActsOnClicked
<1>9. ASSUME NEW outcome \in {"denied", "granted", "deleted", "failed"}, FinishView(outcome)
      PROVE  PInv'
  <2>1. files' \in [Sticks -> SUBSET Names]
    BY <1>9 DEF FinishView, TypeOK
  <2>2. /\ UNCHANGED <<plugged, changes, devices, selected, keys, views, expired>>
        /\ pc' = "idle" /\ task' = NoTask
        /\ acted' = [clicked |-> task.target, target |-> task.target]
    BY <1>9 DEF FinishView, Done, ViewTarget
  <2>8. pc # "loaded"
    BY <1>9 DEF FinishView
  <2>3. /\ listing' \subseteq Paths /\ chosen' \in Paths \cup {None}
        /\ enabled' \in BOOLEAN
        /\ chosen' # None => chosen' \in listing'
        /\ \A path \in listing' : path[1] = selected
        /\ enabled' <=> chosen' # None /\ key # 0
    <3>1. CASE outcome \in {"granted", "deleted"}
      <4>1. RefreshContainers(Listed(selected, files'), chosen) /\ key' = key
        BY <1>9, <2>2, <3>1 DEF FinishView
      <4>2. selected \in Letters \cup {None}
        BY DEF TypeOK
      <4> QED
        BY <2>1, <2>8, <4>1, <4>2, RefreshFits
    <3>2. CASE outcome \notin {"granted", "deleted"}
      BY <1>9, <2>8, <3>2 DEF FinishView, Coherent, TypeOK
    <3> QED
      BY <3>1, <3>2
  <2>4. window' \in [1..MaxViews -> {"none", "open", "hidden", "closed", "dropped"}]
    BY <1>9 DEF FinishView, TypeOK
  <2>5. acted' \in [clicked : Targets, target : Targets]
    BY <2>2, <1>0
  <2>6. TypeOK'
    BY <1>0, <2>1, <2>2, <2>3, <2>4, <2>5 DEF TypeOK
  <2>7. Coherent'
    BY <2>2, <2>3 DEF Coherent
  <2> QED
    BY <2>2, <2>6, <2>7 DEF KeyExpires, Waiting, ActsOnClicked
<1>10. ASSUME NEW n \in 1..MaxViews, CloseWindow(n) PROVE PInv'
  <2>1. enabled' = FALSE
    BY <1>10 DEF CloseWindow, KeyAfterClose, Enabled
  <2>2. key' = 0
    BY <1>10 DEF CloseWindow, KeyAfterClose
  <2>3. window' \in [1..MaxViews -> {"none", "open", "hidden", "closed", "dropped"}]
    BY <1>10 DEF CloseWindow, TypeOK
  <2>4. /\ expired' = loads
        /\ UNCHANGED <<outside, tables, passphrase, loads, pc, task, views, acted>>
    BY <1>10 DEF CloseWindow
  <2>5. TypeOK'
    <3>1. key' \in 0..loads' /\ expired' \in 0..loads' /\ enabled' \in BOOLEAN
      <4>1. loads' = loads /\ expired' = loads /\ key' = 0 /\ loads \in Nat
        BY <1>0, <2>2, <2>4
      <4>2. enabled' \in BOOLEAN
        BY <2>1
      <4> QED
        BY <4>1, <4>2
    <3>2. /\ loads' \in 0..MaxLoads /\ passphrase' \in 0..loads'
          /\ views' \in 0..MaxViews /\ changes' \in 0..MaxChanges
      <4>1. /\ loads' = loads /\ passphrase' = passphrase
            /\ views' = views /\ changes' = changes
        BY <2>4
      <4> QED
        BY <4>1 DEF TypeOK
    <3>3. /\ plugged' \in [Letters -> Sticks \cup {None}]
          /\ files' \in [Sticks -> SUBSET Names]
          /\ devices' \in [Letters -> Readings \cup {None}]
          /\ selected' \in Letters \cup {None}
          /\ listing' \subseteq Paths /\ chosen' \in Paths \cup {None}
      BY <2>4 DEF TypeOK
    <3>4. /\ pc' \in Places
          /\ task' \in [target : Targets, key : 0..MaxLoads]
          /\ acted' \in [clicked : Targets, target : Targets]
      BY <2>4 DEF TypeOK
    <3> QED
      BY <2>3, <3>1, <3>2, <3>3, <3>4 DEF TypeOK
  <2> QED
    BY <2>1, <2>2, <2>4, <2>5 DEF Coherent, KeyExpires, Waiting, ActsOnClicked, Here
<1>11. ASSUME NEW n \in 1..MaxViews, DropWindow(n) PROVE PInv'
  <2>1. window' \in [1..MaxViews -> {"none", "open", "hidden", "closed", "dropped"}]
    BY <1>11 DEF DropWindow, TypeOK
  <2> QED
    BY <1>11, <2>1 DEF DropWindow, TypeOK, Coherent, KeyExpires, Waiting, ActsOnClicked, Here
<1>12. CASE ClickRebind
  <2>1. task' \in [target : Targets, key : 0..MaxLoads] /\ task'.target = Here
    <3>1. key \in 0..MaxLoads
      BY PageAssumption DEF TypeOK
    <3>2. task' = [target |-> Here, key |-> key]
      BY <1>12 DEF ClickRebind
    <3> QED
      BY <1>0, <3>1, <3>2
  <2> QED
    BY <1>12, <2>1 DEF ClickRebind, TypeOK, Coherent, KeyExpires, Waiting, ActsOnClicked, Here
<1>13. CASE CancelRebind
  BY <1>0, <1>13 DEF CancelRebind, TypeOK, Coherent, KeyExpires, Waiting, ActsOnClicked, Here
<1>14. CASE AnswerRebind
  <2>1. /\ chosen # None /\ pc = "rebinding" /\ pc' = "rebound" /\ task' = NoTask
        /\ acted' = [clicked |-> task.target, target |-> Here]
        /\ UNCHANGED <<outside, tables, keys, enabled, windows>>
    BY <1>14 DEF AnswerRebind, Done, Readable
  <2>2. task.target = Here
    BY <2>1 DEF Waiting
  <2>3. acted' \in [clicked : Targets, target : Targets]
    BY <1>0, <2>1
  <2>4. TypeOK'
    BY <1>0, <2>1, <2>3 DEF TypeOK
  <2> QED
    BY <2>1, <2>2, <2>4 DEF Coherent, KeyExpires, Waiting, ActsOnClicked
<1>17. CASE FinishRebind
  <2>1. /\ RefreshContainers(Listed(selected, files), chosen) /\ key' = key
        /\ pc = "rebound" /\ pc' = "idle"
        /\ UNCHANGED <<outside, devices, selected, keys, task, windows, acted>>
    BY <1>17 DEF FinishRebind
  <2>2. selected \in Letters \cup {None} /\ files \in [Sticks -> SUBSET Names]
    BY DEF TypeOK
  <2>3. /\ listing' \subseteq Paths /\ chosen' \in Paths \cup {None}
        /\ enabled' \in BOOLEAN
        /\ chosen' # None => chosen' \in listing'
        /\ \A path \in listing' : path[1] = selected
        /\ enabled' <=> chosen' # None /\ key' # 0
    BY <2>1, <2>2, RefreshFits
  <2>4. TypeOK'
    BY <2>1, <2>3 DEF TypeOK
  <2>5. Coherent'
    BY <2>1, <2>3 DEF Coherent
  <2> QED
    BY <2>1, <2>4, <2>5 DEF KeyExpires, Waiting, ActsOnClicked
<1>15. CASE UNCHANGED vars
  BY <1>15 DEF vars, TypeOK, Coherent, KeyExpires, Waiting, ActsOnClicked, Here
<1> QED
  BY <1>1, <1>2, <1>3, <1>4, <1>5, <1>6, <1>7, <1>8, <1>9, <1>10, <1>11, <1>12, <1>13,
     <1>14, <1>15, <1>16, <1>17 DEF Next

\* The tables, the buttons, the key and the task stay in step through every poll,
\* selection, view and rebind (decryption_page.py:356-828).
THEOREM PageInvariant == Spec => []PInv
BY PInvInit, PInvStep, PTL DEF Spec

\* The page's tables, key and task are always of the right kind
\* (decryption_page.py:356-453).
THEOREM PageTyped == Spec => []TypeOK
<1>1. PInv => TypeOK
  BY DEF PInv
<1> QED
  BY <1>1, PageInvariant, PTL

\* Whatever is polled, refreshed, closed or deleted in between, the selection is
\* listed and the buttons offer no view without a file and a key, nor keep one back
\* once a load is acknowledged (decryption_page.py:356-514).
THEOREM TablesFit == Spec => []Coherent
<1>1. PInv => Coherent
  BY DEF PInv
<1> QED
  BY <1>1, PageInvariant, PTL

\* A view and a rebind act on what was clicked, however often the poll rebuilds the
\* tables meanwhile (decryption_page.py:572-583, 739-770).
THEOREM ClickedIsActedOn == Spec => []ActsOnClicked
<1>1. PInv => ActsOnClicked
  BY DEF PInv
<1> QED
  BY <1>1, PageInvariant, PTL

\* A key never outlives the closing of a window (decryption_page.py:700-712).
THEOREM KeysExpire == Spec => []KeyExpires
<1>1. PInv => KeyExpires
  BY DEF PInv
<1> QED
  BY <1>1, PageInvariant, PTL
=============================================================================
