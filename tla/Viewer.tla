------------------------------- MODULE Viewer -------------------------------
(***************************************************************************)
(* The window of one view, SecureViewerWidget: what it displays and holds, *)
(* its zoom, the watcher for the Print Screen key, and its teardown, with  *)
(* the usage record that the page ties to it.                              *)
(*                                                                         *)
(* A zoom factor stands for its logarithm: 0 is 100%, a step of the zoom   *)
(* adds or subtracts ZoomStep, and the bounds need not be whole steps away *)
(* from anything.  A text is zoomed by points.  The page displays one      *)
(* content and then shows the window; the widget's contract allows more.   *)
(*                                                                         *)
(* An operator whose name begins with Slip is a plausible slip in the code *)
(* of the operator after it; no action uses it.                            *)
(***************************************************************************)
EXTENDS Integers

CONSTANTS
    ZoomMin, ZoomMax, ZoomStep, \* _ZOOM_MIN, _ZOOM_MAX, _ZOOM_STEP
    TextSize,                   \* the point size texts have at first
    TextStep,                   \* how many points a text is zoomed by
    MaxText,                    \* bound: the largest size a text is zoomed to
    MaxDisplays                 \* bound: how often something is displayed

ASSUME ViewerAssumption ==
    /\ ZoomMin \in Int /\ ZoomMax \in Int /\ ZoomMin < 0 /\ 0 < ZoomMax
    /\ ZoomStep \in Nat \ {0} /\ TextStep \in Nat \ {0}
    /\ TextSize \in Nat \ {0} /\ MaxText \in Nat /\ TextSize <= MaxText
    /\ MaxDisplays \in Nat \ {0}

VARIABLES
    platform,   \* sys.platform: "windows" or "other"
    phase,      \* "made", "wired" (to its view's record), "shown" or "closed"
    displays,   \* how many contents were displayed
    current,    \* the widget on top of _stack
    held,       \* the widgets and buffers that hold contents
    toolbar,    \* the zoom buttons and their label are visible
    zoom,       \* the zoom of each widget
    pixmap,     \* the zoom the picture on screen was scaled to
    label,      \* what the zoom label says
    protection, \* _capture_protection: its level
    watching,   \* the timer of the PrintScreenWatcher runs
    wasDown,    \* _was_down
    keyDown,    \* the Print Screen key
    captures,   \* the record's screen_capture_attempts
    sealed,     \* the record's end: "no", "yes" or "failed"
    written,    \* the capture attempts in the sealed entry
    told        \* the message the user is left with

showing == <<displays, current, held, toolbar, zoom, pixmap, label>>
record == <<captures, sealed, written, told>>
vars == <<platform, phase, showing, protection, watching, wasDown, keyDown, record>>

Kinds   == {"text", "image", "pdf", "video", "other"}
Widgets == {"text", "label", "pdf", "video"}
Levels  == ZoomMin..ZoomMax
Zooms   == [image : Levels, original : BOOLEAN, pdf : Levels, fit : BOOLEAN,
            text : 1..MaxText, base : 0..MaxText]
Labels  == {<<"fit", 0>>} \cup ({"percent"} \X Int)

TypeOK ==
    /\ platform \in {"windows", "other"}
    /\ phase \in {"made", "wired", "shown", "closed"}
    /\ displays \in 0..MaxDisplays
    /\ current \in Widgets
    /\ held \subseteq Widgets
    /\ toolbar \in BOOLEAN
    /\ zoom \in Zooms
    /\ pixmap \in Levels
    /\ label \in Labels
    /\ protection \in {"unset", "none", "monitor", "excluded"}
    /\ watching \in BOOLEAN /\ wasDown \in BOOLEAN /\ keyDown \in BOOLEAN
    /\ captures \in 0..1
    /\ sealed \in {"no", "yes", "failed"}
    /\ written \in 0..1
    /\ told \in {"nothing", "closed", "capture"}

Init ==
    /\ platform \in {"windows", "other"}
    /\ phase = "made"
    /\ displays = 0
    /\ current = "text" /\ held = {} /\ toolbar = TRUE
    /\ zoom = [image |-> 0, original |-> FALSE, pdf |-> 0, fit |-> FALSE,
               text |-> TextSize, base |-> 0]
    /\ pixmap = 0
    /\ label = <<"percent", 0>>
    /\ protection = "unset"
    /\ watching = FALSE /\ wasDown = FALSE /\ keyDown = FALSE
    /\ captures = 0 /\ sealed = "no" /\ written = 0 /\ told = "nothing"

(***************************************************************************)
(* Displaying.                                                             *)
(***************************************************************************)
Percent(n) == <<"percent", n>>

\* _update_zoom_label
LabelOf(widget, z) ==
    CASE widget = "pdf" /\ z.fit             -> <<"fit", 0>>
      [] widget = "pdf" /\ ~z.fit            -> Percent(z.pdf)
      [] widget = "label" /\ z.original      -> Percent(z.image)
      [] widget = "text" /\ z.base # 0       -> Percent(z.text - z.base)
      [] OTHER                               -> Percent(0)

Above(n) == IF n < ZoomMin THEN ZoomMin ELSE n
Below(n) == IF n > ZoomMax THEN ZoomMax ELSE n

\* _compute_image_fit_factor, of a picture that would fit the window at this zoom
FitFactor(room) == Above(IF room > 0 THEN 0 ELSE room)

\* The zoom a picture may need, from much too large to small.
Rooms == (ZoomMin - 1)..1

\* _stop_video
StopVideo == held \ {"video"}

ShowText ==
    /\ zoom' = [zoom EXCEPT !.base = IF zoom.base = 0 THEN zoom.text ELSE zoom.base]
    /\ current' = "text"
    /\ held' = StopVideo \cup {"text"}
    /\ label' = LabelOf("text", zoom')
    /\ toolbar' = TRUE
    /\ UNCHANGED pixmap

\* Slip: the label is brought up to date before the picture is on top.
SlipRenderedUnder == current

\* _render_image runs, and has the label updated, with this widget on top.
RenderedUnder == "label"

ShowImage(room) ==
    /\ zoom' = [zoom EXCEPT !.original = TRUE, !.image = FitFactor(room)]
    /\ current' = "label"
    /\ held' = StopVideo \cup {"label"}
    /\ pixmap' = zoom'.image
    /\ label' = LabelOf(RenderedUnder, zoom')
    /\ toolbar' = TRUE

ShowPdf ==
    /\ zoom' = [zoom EXCEPT !.fit = TRUE]
    /\ current' = "pdf"
    /\ held' = StopVideo \cup {"pdf"}
    /\ label' = LabelOf("pdf", zoom')
    /\ toolbar' = TRUE
    /\ UNCHANGED pixmap

\* A video has controls of its own in place of the zoom.
ShowVideo ==
    /\ current' = "video"
    /\ held' = StopVideo \cup {"video"}
    /\ toolbar' = FALSE
    /\ UNCHANGED <<zoom, pixmap, label>>

\* A notice in place of the content, for an image that does not decode too.
ShowUnsupported ==
    /\ zoom' = [zoom EXCEPT !.original = FALSE]
    /\ current' = "label"
    /\ held' = StopVideo \ {"label"}
    /\ label' = LabelOf("label", zoom')
    /\ toolbar' = TRUE
    /\ UNCHANGED pixmap

\* A closed window displays nothing any more: it raises an error.
Display(kind) ==
    /\ phase # "closed"
    /\ displays < MaxDisplays
    /\ displays' = displays + 1
    /\ \/ kind = "text" /\ ShowText
       \/ kind = "image" /\ (ShowUnsupported \/ \E room \in Rooms : ShowImage(room))
       \/ kind = "pdf" /\ ShowPdf
       \/ kind = "video" /\ ShowVideo
       \/ kind = "other" /\ ShowUnsupported
    /\ UNCHANGED <<platform, phase, protection, watching, wasDown, keyDown, record>>

(***************************************************************************)
(* Zooming.                                                                *)
(***************************************************************************)
\* The zoom buttons are there to be clicked, and change what is on top.
Zoom(z) ==
    /\ phase = "shown" /\ toolbar
    /\ zoom' = z
    /\ pixmap' = IF current = "label" /\ zoom.original THEN z.image ELSE pixmap
    /\ label' = LabelOf(current, z)
    /\ UNCHANGED <<platform, phase, displays, current, held, toolbar, protection, watching,
                   wasDown, keyDown, record>>

\* Slip: the factor is clamped before the step is added to it.
SlipScaled(n, steps) == Above(Below(n)) + steps

\* _set_pdf_zoom_factor, and the bounds in _zoom_in and _zoom_out
Scaled(n, steps) == Above(Below(n + steps))

\* The sign is 1 for _zoom_in, -1 for _zoom_out.  A text view refuses a size that is
\* not positive; the pdf view steps from its last custom factor, fitted or not.
ZoomBy(sign) ==
    \/ /\ current = "pdf"
       /\ Zoom([zoom EXCEPT !.fit = FALSE, !.pdf = Scaled(@, sign * ZoomStep)])
    \/ /\ current = "label" /\ zoom.original
       /\ Zoom([zoom EXCEPT !.image = Scaled(@, sign * ZoomStep)])
    \/ /\ current = "text"
       /\ zoom.text + sign * TextStep \in 1..MaxText
       /\ Zoom([zoom EXCEPT !.text = @ + sign * TextStep])

\* _zoom_fit
ZoomFit ==
    \/ /\ current = "pdf"
       /\ Zoom([zoom EXCEPT !.fit = TRUE])
    \/ /\ current = "label" /\ zoom.original
       /\ \E room \in Rooms : Zoom([zoom EXCEPT !.image = FitFactor(room)])
    \/ /\ current = "text" /\ zoom.base # 0
       /\ Zoom([zoom EXCEPT !.text = zoom.base])

(***************************************************************************)
(* Showing, watching and closing.                                          *)
(***************************************************************************)
\* The page connects the window to the outcome of the view, which has displayed
\* something by then.
Wire ==
    /\ phase = "made" /\ displays > 0
    /\ phase' = "wired"
    /\ UNCHANGED <<platform, showing, protection, watching, wasDown, keyDown, record>>

\* apply_capture_protection, where the system grants these kinds of exclusion
Strongest(granted) ==
    CASE platform = "windows" /\ "excluded" \in granted -> "excluded"
      [] platform = "windows" /\ granted = {"monitor"}  -> "monitor"
      [] OTHER                                          -> "none"

\* showEvent: the first one, and that of a window restored after it was minimised.
Show(granted) ==
    /\ phase \in {"wired", "shown"}
    /\ phase' = "shown"
    /\ protection' = Strongest(granted)
    /\ watching' = (platform = "windows")
    /\ wasDown' = IF platform = "windows" THEN FALSE ELSE wasDown
    /\ UNCHANGED <<platform, showing, keyDown, record>>

\* Slip: the document of a PDF is closed when the next one is shown.
SlipCleared == held \ {"text", "label", "video"}

Cleared == {}

\* Slip: the record is sealed by the closing, before the capture is noted in it.
SlipSealedWith(before, after) == before

\* The capture is noted first, and then the window closes, which seals the record.
SealedWith(before, after) == after

\* _teardown: contents, watcher and protection go, then the signal seals the record,
\* which a save may fail, and tells the user why the window closed.
Teardown(noted) ==
    /\ phase' = "closed"
    /\ held' = Cleared
    /\ zoom' = [zoom EXCEPT !.original = FALSE]
    /\ watching' = FALSE
    /\ protection' = "unset"
    /\ captures' = noted
    /\ \/ sealed' = "yes" /\ written' = SealedWith(captures, noted)
       \/ sealed' = "failed" /\ written' = written
    /\ told' = IF noted > captures THEN "capture" ELSE "closed"
    /\ UNCHANGED <<platform, displays, current, toolbar, pixmap, label, keyDown>>

Close ==
    /\ phase = "shown"
    /\ Teardown(captures)
    /\ UNCHANGED wasDown

Press ==
    /\ ~keyDown /\ keyDown' = TRUE
    /\ UNCHANGED <<platform, phase, showing, protection, watching, wasDown, record>>

Release ==
    /\ keyDown /\ keyDown' = FALSE
    /\ UNCHANGED <<platform, phase, showing, protection, watching, wasDown, record>>

\* Slip: a press counts when the key is released.
SlipPressed == ~keyDown /\ wasDown

Pressed == keyDown /\ ~wasDown

\* PrintScreenWatcher._poll, and the viewer's _on_printscreen_detected
Poll ==
    /\ watching
    /\ wasDown' = keyDown
    /\ IF Pressed THEN Teardown(captures + 1)
       ELSE UNCHANGED <<platform, phase, showing, protection, watching, keyDown, record>>

Next ==
    \/ \E kind \in Kinds : Display(kind)
    \/ \E sign \in {-1, 1} : ZoomBy(sign)
    \/ ZoomFit
    \/ Wire
    \/ \E granted \in SUBSET {"excluded", "monitor"} : Show(granted)
    \/ Close
    \/ Press \/ Release
    \/ Poll

Spec == Init /\ [][Next]_vars

\* The watcher's timer fires as long as it runs; nobody owes anything else.
FairSpec == Spec /\ WF_vars(Poll)

-----------------------------------------------------------------------------
\* A window that is closed holds no content, whatever was displayed in it one after
\* the other and whoever closed it; nothing watches or protects it any more, and its
\* record was closed with it.  One that is not closed holds what is on top.
ClosedIsEmpty ==
    /\ phase = "closed" => held = {} /\ ~zoom.original /\ ~watching /\ protection = "unset"
    /\ phase = "closed" <=> sealed # "no"
    /\ phase # "closed" /\ displays > 0 => current \in held \/ (current = "label" /\ ~zoom.original)
    /\ "video" \in held => current = "video"

\* The zoom label tells the zoom of what is on the screen, whichever kinds of content
\* were displayed and zoomed before it.
LabelTruthful ==
    phase # "closed" /\ toolbar =>
        label = CASE current = "pdf" /\ zoom.fit -> <<"fit", 0>>
                  [] current = "pdf" /\ ~zoom.fit -> Percent(zoom.pdf)
                  [] current = "label" /\ "label" \in held -> Percent(pixmap)
                  [] current = "label" /\ "label" \notin held -> Percent(0)
                  [] OTHER -> Percent(zoom.text - TextSize)

\* The sealed record and the user are told of the capture that closed the window: the
\* entry counts what was noticed, and the message says which kind of closing it was.
CaptureSealed ==
    /\ sealed = "yes" => written = captures
    /\ sealed # "no" => (told = "capture" <=> captures > 0)

\* A key that is held until the watcher looks closes the window, also if it was down
\* when the window was shown or restored.
HeldIsNoticed == (watching /\ keyDown) ~> (phase = "closed" \/ ~keyDown)
=============================================================================
