---------------------------- MODULE ViewerProofs ----------------------------
(***************************************************************************)
(* Proofs about the viewer's window, for every range and step of the zoom, *)
(* every size of text and any number of contents displayed in it: its      *)
(* types, what is left of it when it is closed, and that the label and the *)
(* sealed record tell the truth.                                           *)
(***************************************************************************)
EXTENDS Viewer, TLAPS

(***************************************************************************)
(* The inductive invariant.                                                *)
(***************************************************************************)
\* The picture and the text on screen are what the zoom says, and what is on top was
\* displayed.
OnScreen ==
    /\ toolbar <=> current # "video"
    /\ zoom.original => pixmap = zoom.image
    /\ phase # "closed" => (zoom.original <=> "label" \in held)
    /\ zoom.base \in {0, TextSize}
    /\ zoom.base = 0 => zoom.text = TextSize
    /\ current = "text" /\ zoom.base = 0 => displays = 0
    /\ phase # "made" => displays > 0

\* Nothing is noted, sealed or told before the window closes, and nothing is watched
\* but a window on the screen.
StillOpen ==
    /\ phase # "closed" => captures = 0 /\ told = "nothing"
    /\ watching => phase = "shown"

ViewInv == TypeOK /\ OnScreen /\ StillOpen /\ ClosedIsEmpty /\ LabelTruthful /\ CaptureSealed

-----------------------------------------------------------------------------
(***************************************************************************)
(* The operators.                                                          *)
(***************************************************************************)
\* The bounds of the zoom are kept by every step and by every fitting of a picture.
LEMMA ScaledTyped ==
    ASSUME NEW n \in Levels, NEW steps \in Int
    PROVE  Scaled(n, steps) \in Levels
BY ViewerAssumption DEF Scaled, Above, Below, Levels

LEMMA FitTyped ==
    ASSUME NEW room \in Rooms
    PROVE  FitFactor(room) \in Levels
BY ViewerAssumption DEF FitFactor, Above, Levels, Rooms

\* What the label says of each widget.
LEMMA LabelValues ==
    ASSUME NEW z \in Zooms
    PROVE  /\ LabelOf("pdf", z) = IF z.fit THEN <<"fit", 0>> ELSE Percent(z.pdf)
           /\ LabelOf("label", z) = IF z.original THEN Percent(z.image) ELSE Percent(0)
           /\ LabelOf("text", z) = IF z.base # 0 THEN Percent(z.text - z.base) ELSE Percent(0)
BY DEF LabelOf, Zooms

LEMMA LabelTyped ==
    ASSUME NEW z \in Zooms, NEW widget \in {"pdf", "label", "text"}
    PROVE  LabelOf(widget, z) \in Labels
<1>1. z.pdf \in Int /\ z.image \in Int /\ z.text - z.base \in Int /\ 0 \in Int
  BY ViewerAssumption DEF Zooms, Levels
<1>2. \A n \in Int : Percent(n) \in Labels
  BY DEF Percent, Labels
<1>3. <<"fit", 0>> \in Labels
  BY DEF Labels
<1> QED
  BY <1>1, <1>2, <1>3, LabelValues

\* LabelTruthful, widget by widget.
LEMMA LabelCases ==
    LabelTruthful <=>
        (phase # "closed" /\ toolbar =>
            /\ current = "pdf" => label = IF zoom.fit THEN <<"fit", 0>> ELSE Percent(zoom.pdf)
            /\ current = "label" => label = IF "label" \in held THEN Percent(pixmap) ELSE Percent(0)
            /\ current \notin {"pdf", "label"} => label = Percent(zoom.text - TextSize))
BY DEF LabelTruthful

LEMMA LabelCasesNext ==
    LabelTruthful' <=>
        (phase' # "closed" /\ toolbar' =>
            /\ current' = "pdf" => label' = IF zoom'.fit THEN <<"fit", 0>> ELSE Percent(zoom'.pdf)
            /\ current' = "label" => label' = IF "label" \in held' THEN Percent(pixmap') ELSE Percent(0)
            /\ current' \notin {"pdf", "label"} => label' = Percent(zoom'.text - TextSize))
BY DEF LabelTruthful

-----------------------------------------------------------------------------
(***************************************************************************)
(* The steps.                                                              *)
(***************************************************************************)
LEMMA ViewInit == Init => ViewInv
<1> SUFFICES ASSUME Init PROVE ViewInv
  OBVIOUS
<1>1. TypeOK
  <2>1. zoom \in Zooms
    BY ViewerAssumption DEF Init, Zooms, Levels
  <2>2. label \in Labels
    BY DEF Init, Labels
  <2>3. pixmap \in Levels /\ displays \in 0..MaxDisplays
    BY ViewerAssumption DEF Init, Levels
  <2>4. /\ toolbar \in BOOLEAN /\ watching \in BOOLEAN /\ wasDown \in BOOLEAN
        /\ keyDown \in BOOLEAN
    BY Zenon DEF Init
  <2>5. /\ platform \in {"windows", "other"} /\ phase = "made"
        /\ current \in Widgets /\ held \subseteq Widgets
        /\ protection = "unset" /\ captures \in 0..1 /\ sealed = "no"
        /\ written \in 0..1 /\ told = "nothing"
    BY DEF Init, Widgets
  <2> QED
    BY <2>1, <2>2, <2>3, <2>4, <2>5 DEF TypeOK
<1>2. OnScreen /\ StillOpen /\ ClosedIsEmpty /\ CaptureSealed
  BY DEF Init, OnScreen, StillOpen, ClosedIsEmpty, CaptureSealed
<1>3. LabelTruthful
  BY ViewerAssumption, LabelCases DEF Init, Percent
<1> QED
  BY <1>1, <1>2, <1>3 DEF ViewInv

\* Displaying: the content that was on top stays held, but for a video.
LEMMA DisplayStep ==
    ASSUME ViewInv, NEW kind \in Kinds, Display(kind)
    PROVE  ViewInv'
<1> USE DEF ViewInv
<1>1. /\ phase # "closed" /\ phase' = phase
      /\ displays < MaxDisplays /\ displays' = displays + 1
      /\ UNCHANGED <<platform, phase, protection, watching, wasDown, keyDown, record>>
  BY DEF Display
<1>2. displays' \in 0..MaxDisplays /\ displays' > 0
  BY <1>1, ViewerAssumption DEF TypeOK
<1>3. CASE ShowText
  <2>1. zoom' \in Zooms /\ zoom'.base = TextSize /\ zoom'.text = zoom.text
        /\ zoom'.original = zoom.original /\ zoom'.image = zoom.image
    BY <1>3, ViewerAssumption DEF ShowText, TypeOK, Zooms, OnScreen
  <2>2. /\ current' = "text" /\ held' = (held \ {"video"}) \cup {"text"}
        /\ toolbar' = TRUE /\ pixmap' = pixmap /\ label' = LabelOf("text", zoom')
    BY <1>3 DEF ShowText, StopVideo
  <2>3. label' = Percent(zoom'.text - TextSize)
    BY <2>1, <2>2, LabelValues, ViewerAssumption
  <2>4. TypeOK'
    BY <1>1, <1>2, <2>1, <2>2, LabelTyped DEF TypeOK, Widgets, record
  <2>5. LabelTruthful'
    BY <2>2, <2>3, LabelCasesNext
  <2> QED
    BY <1>1, <1>2, <2>1, <2>2, <2>4, <2>5, ViewerAssumption
       DEF OnScreen, StillOpen, ClosedIsEmpty, CaptureSealed, record
<1>4. ASSUME NEW room \in Rooms, ShowImage(room) PROVE ViewInv'
  <2>1. zoom' \in Zooms /\ zoom'.original /\ zoom'.image = FitFactor(room)
        /\ zoom'.base = zoom.base /\ zoom'.text = zoom.text
    BY <1>4, FitTyped DEF ShowImage, TypeOK, Zooms
  <2>2. /\ current' = "label" /\ held' = (held \ {"video"}) \cup {"label"}
        /\ toolbar' = TRUE /\ pixmap' = zoom'.image /\ label' = LabelOf("label", zoom')
    BY <1>4 DEF ShowImage, StopVideo, RenderedUnder
  <2>3. label' = Percent(pixmap')
    BY <2>1, <2>2, LabelValues
  <2>4. TypeOK'
    BY <1>1, <1>2, <2>1, <2>2, LabelTyped, FitTyped DEF TypeOK, Widgets, record
  <2>5. LabelTruthful'
    BY <2>2, <2>3, LabelCasesNext
  <2> QED
    BY <1>1, <1>2, <2>1, <2>2, <2>4, <2>5
       DEF OnScreen, StillOpen, ClosedIsEmpty, CaptureSealed, record
<1>5. CASE ShowPdf
  <2>1. zoom' \in Zooms /\ zoom'.fit /\ zoom'.original = zoom.original
        /\ zoom'.image = zoom.image /\ zoom'.base = zoom.base /\ zoom'.text = zoom.text
    BY <1>5 DEF ShowPdf, TypeOK, Zooms
  <2>2. /\ current' = "pdf" /\ held' = (held \ {"video"}) \cup {"pdf"}
        /\ toolbar' = TRUE /\ pixmap' = pixmap /\ label' = LabelOf("pdf", zoom')
    BY <1>5 DEF ShowPdf, StopVideo
  <2>3. label' = <<"fit", 0>>
    BY <2>1, <2>2, LabelValues
  <2>4. TypeOK'
    BY <1>1, <1>2, <2>1, <2>2, LabelTyped DEF TypeOK, Widgets, record
  <2>5. LabelTruthful'
    BY <2>1, <2>2, <2>3, LabelCasesNext
  <2> QED
    BY <1>1, <1>2, <2>1, <2>2, <2>4, <2>5
       DEF OnScreen, StillOpen, ClosedIsEmpty, CaptureSealed, record
<1>6. CASE ShowVideo
  <2>1. /\ current' = "video" /\ held' = (held \ {"video"}) \cup {"video"}
        /\ toolbar' = FALSE /\ UNCHANGED <<zoom, pixmap, label>>
    BY <1>6 DEF ShowVideo, StopVideo
  <2>2. TypeOK'
    BY <1>1, <1>2, <2>1 DEF TypeOK, Widgets, record
  <2>3. LabelTruthful'
    BY <2>1, LabelCasesNext
  <2> QED
    BY <1>1, <1>2, <2>1, <2>2, <2>3
       DEF OnScreen, StillOpen, ClosedIsEmpty, CaptureSealed, record
<1>7. CASE ShowUnsupported
  <2>1. zoom' \in Zooms /\ ~zoom'.original
        /\ zoom'.base = zoom.base /\ zoom'.text = zoom.text
    BY <1>7 DEF ShowUnsupported, TypeOK, Zooms
  <2>2. /\ current' = "label" /\ held' = (held \ {"video"}) \ {"label"}
        /\ toolbar' = TRUE /\ pixmap' = pixmap /\ label' = LabelOf("label", zoom')
    BY <1>7 DEF ShowUnsupported, StopVideo
  <2>3. label' = Percent(0)
    BY <2>1, <2>2, LabelValues
  <2>4. TypeOK'
    BY <1>1, <1>2, <2>1, <2>2, LabelTyped DEF TypeOK, Widgets, record
  <2>5. LabelTruthful'
    BY <2>2, <2>3, LabelCasesNext
  <2> QED
    BY <1>1, <1>2, <2>1, <2>2, <2>4, <2>5
       DEF OnScreen, StillOpen, ClosedIsEmpty, CaptureSealed, record
<1> QED
  BY <1>3, <1>4, <1>5, <1>6, <1>7 DEF Display

\* Zooming: what is on top is held, and drawn as the new zoom says.
LEMMA Zoomed ==
    ASSUME ViewInv, NEW z \in Zooms, Zoom(z),
           z.original = zoom.original, z.base = zoom.base,
           current # "label" \/ ~zoom.original => z.image = zoom.image,
           current # "text" => z.text = zoom.text
    PROVE  ViewInv'
<1> USE DEF ViewInv
<1>1. /\ phase = "shown" /\ toolbar /\ zoom' = z /\ label' = LabelOf(current, z)
      /\ pixmap' = IF current = "label" /\ zoom.original THEN z.image ELSE pixmap
      /\ UNCHANGED <<platform, phase, displays, current, held, toolbar, protection, watching,
                     wasDown, keyDown, record>>
  BY DEF Zoom
<1>2. current \in {"pdf", "label", "text"} /\ (current = "text" => zoom.base = TextSize)
  BY <1>1, ViewerAssumption DEF TypeOK, OnScreen, Widgets
<1>3. pixmap' \in Levels
  BY <1>1 DEF TypeOK, Zooms
<1>4. TypeOK'
  BY <1>1, <1>2, <1>3, LabelTyped DEF TypeOK, record
<1>5. OnScreen'
  BY <1>1, <1>2, ViewerAssumption DEF OnScreen
<1>6. LabelTruthful'
  <2>1. CASE current = "pdf"
    BY <1>1, <2>1, LabelValues, LabelCasesNext
  <2>2. CASE current = "label"
    BY <1>1, <2>2, LabelValues, LabelCasesNext DEF OnScreen
  <2>3. CASE current = "text"
    BY <1>1, <1>2, <2>3, LabelValues, LabelCasesNext, ViewerAssumption
  <2> QED
    BY <1>2, <2>1, <2>2, <2>3
<1> QED
  BY <1>1, <1>4, <1>5, <1>6 DEF StillOpen, ClosedIsEmpty, CaptureSealed, record

LEMMA ZoomByStep ==
    ASSUME ViewInv, NEW sign \in {-1, 1}, ZoomBy(sign)
    PROVE  ViewInv'
<1>1. zoom \in Zooms
  BY DEF ViewInv, TypeOK
<1>2. sign * ZoomStep \in Int
  BY ViewerAssumption
<1>3. CASE current = "pdf" /\ Zoom([zoom EXCEPT !.fit = FALSE, !.pdf = Scaled(@, sign * ZoomStep)])
  <2> DEFINE z == [zoom EXCEPT !.fit = FALSE, !.pdf = Scaled(@, sign * ZoomStep)]
  <2>1. Scaled(zoom.pdf, sign * ZoomStep) \in Levels
    BY <1>1, <1>2, ScaledTyped DEF Zooms
  <2>2. z \in Zooms /\ z.original = zoom.original /\ z.base = zoom.base
        /\ z.image = zoom.image /\ z.text = zoom.text
    BY <1>1, <2>1 DEF Zooms
  <2> QED
    BY <1>3, <2>2, Zoomed
<1>4. CASE /\ current = "label" /\ zoom.original
           /\ Zoom([zoom EXCEPT !.image = Scaled(@, sign * ZoomStep)])
  <2> DEFINE z == [zoom EXCEPT !.image = Scaled(@, sign * ZoomStep)]
  <2>1. Scaled(zoom.image, sign * ZoomStep) \in Levels
    BY <1>1, <1>2, ScaledTyped DEF Zooms
  <2>2. z \in Zooms /\ z.original = zoom.original /\ z.base = zoom.base /\ z.text = zoom.text
    BY <1>1, <2>1 DEF Zooms
  <2> QED
    BY <1>4, <2>2, Zoomed
<1>5. CASE /\ current = "text" /\ zoom.text + sign * TextStep \in 1..MaxText
           /\ Zoom([zoom EXCEPT !.text = @ + sign * TextStep])
  <2> DEFINE z == [zoom EXCEPT !.text = @ + sign * TextStep]
  <2>1. z \in Zooms /\ z.original = zoom.original /\ z.base = zoom.base /\ z.image = zoom.image
    BY <1>1, <1>5 DEF Zooms
  <2> QED
    BY <1>5, <2>1, Zoomed
<1> QED
  BY <1>3, <1>4, <1>5 DEF ZoomBy

LEMMA ZoomFitStep ==
    ASSUME ViewInv, ZoomFit
    PROVE  ViewInv'
<1>1. zoom \in Zooms
  BY DEF ViewInv, TypeOK
<1>2. CASE current = "pdf" /\ Zoom([zoom EXCEPT !.fit = TRUE])
  <2> DEFINE z == [zoom EXCEPT !.fit = TRUE]
  <2>1. z \in Zooms /\ z.original = zoom.original /\ z.base = zoom.base
        /\ z.image = zoom.image /\ z.text = zoom.text
    BY <1>1 DEF Zooms
  <2> QED
    BY <1>2, <2>1, Zoomed
<1>3. ASSUME current = "label", zoom.original, NEW room \in Rooms,
             Zoom([zoom EXCEPT !.image = FitFactor(room)])
      PROVE  ViewInv'
  <2> DEFINE z == [zoom EXCEPT !.image = FitFactor(room)]
  <2>1. z \in Zooms /\ z.original = zoom.original /\ z.base = zoom.base /\ z.text = zoom.text
    BY <1>1, FitTyped DEF Zooms
  <2> QED
    BY <1>3, <2>1, Zoomed
<1>4. CASE current = "text" /\ zoom.base # 0 /\ Zoom([zoom EXCEPT !.text = zoom.base])
  <2> DEFINE z == [zoom EXCEPT !.text = zoom.base]
  <2>1. z \in Zooms /\ z.original = zoom.original /\ z.base = zoom.base /\ z.image = zoom.image
    BY <1>1, <1>4 DEF Zooms
  <2> QED
    BY <1>4, <2>1, Zoomed
<1> QED
  BY <1>2, <1>3, <1>4 DEF ZoomFit

\* Steps that leave what is on the screen alone.
LEMMA SurroundingStep ==
    ASSUME ViewInv, Wire \/ Press \/ Release
                    \/ \E granted \in SUBSET {"excluded", "monitor"} : Show(granted)
    PROVE  ViewInv'
<1> USE DEF ViewInv
<1>1. UNCHANGED <<platform, showing, record>>
  BY DEF Wire, Press, Release, Show
<1>2. /\ phase' \in {"made", "wired", "shown", "closed"}
      /\ protection' \in {"unset", "none", "monitor", "excluded"}
      /\ watching' \in BOOLEAN /\ wasDown' \in BOOLEAN /\ keyDown' \in BOOLEAN
  BY DEF TypeOK, Wire, Press, Release, Show, Strongest
<1>3. /\ phase' = "closed" <=> phase = "closed"
      /\ phase' # "made" => displays > 0
      /\ watching' => phase' = "shown"
      /\ phase' = "closed" => watching' = watching /\ protection' = protection
  <2>1. CASE Wire
    BY <2>1 DEF Wire, OnScreen, StillOpen
  <2>2. CASE Press \/ Release
    BY <2>2 DEF Press, Release, OnScreen, StillOpen
  <2>3. ASSUME NEW granted, Show(granted)
        PROVE  phase \in {"wired", "shown"} /\ phase' = "shown"
    BY <2>3 DEF Show
  <2> QED
    BY <2>1, <2>2, <2>3 DEF OnScreen
<1>4. TypeOK'
  BY <1>1, <1>2 DEF TypeOK, showing, record
<1>5. LabelTruthful'
  BY <1>1, <1>3, LabelCases, LabelCasesNext DEF showing
<1> QED
  BY <1>1, <1>3, <1>4, <1>5 DEF OnScreen, StillOpen, ClosedIsEmpty, CaptureSealed, showing, record

\* The teardown, of a window that is on the screen.
LEMMA TeardownStep ==
    ASSUME ViewInv, phase = "shown", NEW noted \in {captures, captures + 1}, Teardown(noted),
           wasDown' \in BOOLEAN
    PROVE  ViewInv'
<1> USE DEF ViewInv
<1>1. captures = 0 /\ noted \in 0..1
  BY DEF StillOpen
<1>2. /\ phase' = "closed" /\ held' = {} /\ zoom' = [zoom EXCEPT !.original = FALSE]
      /\ watching' = FALSE /\ protection' = "unset" /\ captures' = noted
      /\ told' = IF noted > captures THEN "capture" ELSE "closed"
      /\ UNCHANGED <<platform, displays, current, toolbar, pixmap, label, keyDown>>
  BY DEF Teardown, Cleared
<1>3. \/ sealed' = "yes" /\ written' = noted
      \/ sealed' = "failed" /\ written' = written
  BY DEF Teardown, SealedWith
<1>4. zoom' \in Zooms /\ ~zoom'.original /\ zoom'.base = zoom.base /\ zoom'.text = zoom.text
  BY <1>2 DEF TypeOK, Zooms
<1>5. TypeOK'
  BY <1>1, <1>2, <1>3, <1>4 DEF TypeOK
<1>6. LabelTruthful'
  BY <1>2, LabelCasesNext
<1> QED
  BY <1>1, <1>2, <1>3, <1>4, <1>5, <1>6 DEF OnScreen, StillOpen, ClosedIsEmpty, CaptureSealed

LEMMA ViewStep == ViewInv /\ [Next]_vars => ViewInv'
<1> SUFFICES ASSUME ViewInv, [Next]_vars PROVE ViewInv'
  OBVIOUS
<1>1. ASSUME NEW kind \in Kinds, Display(kind) PROVE ViewInv'
  BY <1>1, DisplayStep
<1>2. ASSUME NEW sign \in {-1, 1}, ZoomBy(sign) PROVE ViewInv'
  BY <1>2, ZoomByStep
<1>3. CASE ZoomFit
  BY <1>3, ZoomFitStep
<1>4. CASE Wire \/ Press \/ Release
           \/ \E granted \in SUBSET {"excluded", "monitor"} : Show(granted)
  BY <1>4, SurroundingStep
<1>5. CASE Close
  <2>1. phase = "shown" /\ Teardown(captures) /\ wasDown' \in BOOLEAN
    BY <1>5 DEF Close, ViewInv, TypeOK
  <2> QED
    BY <2>1, TeardownStep
<1>6. CASE Poll
  <2>1. watching /\ phase = "shown" /\ wasDown' = keyDown /\ keyDown \in BOOLEAN
    BY <1>6 DEF Poll, ViewInv, StillOpen, TypeOK
  <2>2. CASE Pressed
    BY <1>6, <2>1, <2>2, TeardownStep DEF Poll
  <2>3. CASE ~Pressed
    <3>1. UNCHANGED <<platform, phase, showing, protection, watching, keyDown, record>>
      BY <1>6, <2>3 DEF Poll
    <3>2. TypeOK'
      BY <2>1, <3>1 DEF ViewInv, TypeOK, showing, record
    <3>3. LabelTruthful'
      BY <3>1, LabelCases, LabelCasesNext DEF ViewInv, showing
    <3> QED
      BY <3>1, <3>2, <3>3
         DEF ViewInv, OnScreen, StillOpen, ClosedIsEmpty, CaptureSealed, showing, record
  <2> QED
    BY <2>2, <2>3
<1>7. CASE UNCHANGED vars
  <2>1. TypeOK'
    BY <1>7 DEF ViewInv, TypeOK, vars, showing, record
  <2>2. LabelTruthful'
    BY <1>7, LabelCases, LabelCasesNext DEF ViewInv, vars, showing
  <2> QED
    BY <1>7, <2>1, <2>2
       DEF ViewInv, OnScreen, StillOpen, ClosedIsEmpty, CaptureSealed, vars, showing, record
<1> QED
  BY <1>1, <1>2, <1>3, <1>4, <1>5, <1>6, <1>7 DEF Next

-----------------------------------------------------------------------------
(***************************************************************************)
(* The theorems.                                                           *)
(***************************************************************************)
\* The invariant that carries the others (secure_viewer_widget.py:291-562).
THEOREM ViewInvariant == Spec => []ViewInv
BY ViewInit, ViewStep, PTL DEF Spec

\* Every zoom stays within its bounds, whatever the steps and the bounds are
\* (secure_viewer_widget.py:405-470).
THEOREM ViewTyped == Spec => []TypeOK
<1>1. ViewInv => TypeOK
  BY DEF ViewInv
<1> QED
  BY <1>1, ViewInvariant, PTL

\* A closed window holds nothing that was displayed in it, and its record was closed
\* with it (secure_viewer_widget.py:499-540).
THEOREM ClosingEmpties == Spec => []ClosedIsEmpty
<1>1. ViewInv => ClosedIsEmpty
  BY DEF ViewInv
<1> QED
  BY <1>1, ViewInvariant, PTL

\* The zoom label tells the zoom of what is on the screen
\* (secure_viewer_widget.py:419-487).
THEOREM LabelTells == Spec => []LabelTruthful
<1>1. ViewInv => LabelTruthful
  BY DEF ViewInv
<1> QED
  BY <1>1, ViewInvariant, PTL

\* A capture that closes the window is in the record that the closing seals
\* (secure_viewer_widget.py:542-562).
THEOREM CapturesAreSealed == Spec => []CaptureSealed
<1>1. ViewInv => CaptureSealed
  BY DEF ViewInv
<1> QED
  BY <1>1, ViewInvariant, PTL
=============================================================================
