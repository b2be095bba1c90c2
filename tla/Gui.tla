-------------------------------- MODULE Gui --------------------------------
(***************************************************************************)
(* The GUI's input path (applications/services/gui/gui.c, view_port.c):    *)
(* the GUI's thread takes an event, finds the view port it is for and      *)
(* calls its input callback, with the GUI's mutex and the view port's      *)
(* mutex held until the callback has returned.  There are three view       *)
(* ports: that of an application and that of a dialog in the fullscreen    *)
(* layer, and that of the desktop below them.  A view port is in a layer   *)
(* at most once, as an element is in an intrusive list.                    *)
(***************************************************************************)
EXTENDS Input, IntrusiveList, FiniteSetsExt

CONSTANTS
    NoPort,
    LeftHanded,         \* FuriHalRtcFlagHandOrient
    MaxOthers           \* bound: calls of other threads

Ports == {"app", "dialog", "desktop"}

ASSUME GuiAssumption == NoPort \notin Ports /\ LeftHanded \in BOOLEAN /\ MaxOthers \in Nat

Orientations == {"Horizontal", "HorizontalFlip", "Vertical", "VerticalFlip"}

VARIABLES
    gui,            \* where the GUI's thread is, and the fields of Gui
    fullscreen,     \* Gui.layers[GuiLayerFullscreen]
    enabled,        \* ViewPort.is_enabled of the application's view port
    orientation,    \* ViewPort.orientation of the application's view port
    others          \* calls of other threads left

guiVars == <<gui, fullscreen, enabled, orientation, others>>

NoEvent == Event("Ok", "Press")

GuiTypeOK ==
    /\ gui \in [at : {"idle", "delivering"}, event : InputEvents,
                ongoing : SUBSET Keys, port : Ports \union {NoPort},
                lockdown : BOOLEAN, direct : BOOLEAN]
    /\ fullscreen \in Seq({"app", "dialog"}) /\ NoDuplicates(fullscreen)
    /\ enabled \in BOOLEAN
    /\ orientation \in Orientations
    /\ others \in 0 .. MaxOthers

GuiInit ==
    /\ gui = [at |-> "idle", event |-> NoEvent, ongoing |-> {},
              port |-> NoPort, lockdown |-> FALSE, direct |-> FALSE]
    /\ fullscreen = <<>>
    /\ enabled = FALSE
    /\ orientation = "Horizontal"
    /\ others = MaxOthers

----------------------------------------------------------------------------
(* view_port_map_input                                                     *)

Opposite == [Up |-> "Down", Down |-> "Up", Right |-> "Left", Left |-> "Right",
             Ok |-> "Ok", Back |-> "Back"]
Turned == [Up |-> "Right", Down |-> "Left", Right |-> "Down", Left |-> "Up",
           Ok |-> "Ok", Back |-> "Back"]

ForHand(key) == IF LeftHanded THEN Opposite[key] ELSE key
MapKey(key, o) ==
    CASE o = "Horizontal" -> ForHand(key)
      [] o = "HorizontalFlip" -> Opposite[ForHand(key)]
      [] o = "Vertical" -> Turned[key]
      [] o = "VerticalFlip" -> Opposite[Turned[key]]
MapInput(e, o) == [e EXCEPT !.key = MapKey(e.key, o)]

----------------------------------------------------------------------------
(* gui_input                                                               *)

IsEnabled(p) == p # "app" \/ enabled
Shown == {i \in 1..Len(fullscreen) : IsEnabled(fullscreen[i])}
TopPort == IF gui.lockdown \/ Shown = {} THEN "desktop" ELSE fullscreen[Max(Shown)]

\* The keys that are pressed after e, for the GUI and for a view dispatcher.
KeysAfter(e, ongoing) ==
    CASE e.type = "Press" -> ongoing \union {e.key}
      [] e.type = "Release" -> ongoing \ {e.key}
      [] OTHER -> ongoing
IsComplementary(e, ongoing) == e.type \in {"Press", "Release"} \/ e.key \in ongoing
IsFirstPress(e, ongoing) == e.type = "Press" /\ ongoing \subseteq {e.key}

\* Fault: the release of a key goes to the top view port or is lost.
ReceiverOnTop(e, top, port) == IF top = port THEN top ELSE NoPort

Receiver(e, top, port) ==
    IF top = port THEN top
    ELSE IF e.type = "Release" THEN port ELSE NoPort

\* For the application's view port the two mutexes are taken and its callback is called;
\* it returns with GuiReturns.  The dialog and the desktop take their events at once.
GuiInput ==
    /\ gui.at = "idle" /\ inputQueue # <<>>
    /\ LET e == Head(inputQueue)
           ongoing == KeysAfter(e, gui.ongoing)
           port == IF IsFirstPress(e, ongoing) THEN TopPort ELSE gui.port
           target == Receiver(e, TopPort, port)
           pressed == [gui EXCEPT !.ongoing = ongoing]
       IN gui' = IF ~IsComplementary(e, gui.ongoing) THEN gui
                 ELSE IF gui.direct /\ gui.port = NoPort THEN pressed
                 ELSE IF target # "app" THEN [pressed EXCEPT !.port = port]
                 ELSE [pressed EXCEPT !.port = port, !.at = "delivering", !.event = e]
    /\ inputQueue' = Tail(inputQueue)
    /\ UNCHANGED <<keys, presses, fullscreen, enabled, orientation, others>>

GuiReturns == gui' = [gui EXCEPT !.at = "idle", !.event = NoEvent]

----------------------------------------------------------------------------
(* Calls of the GUI by other threads, which wait for its mutex.            *)

\* Nobody holds the mutexes but the thread of the GUI while it delivers.
Unlocked == gui.at = "idle"

AddPort(p) ==
    /\ Unlocked
    /\ fullscreen' = Append(fullscreen, p)

\* Fault: the view port of the keys that are pressed is not forgotten.
RemovePortKeepInput(p) ==
    /\ Unlocked
    /\ fullscreen' = Unlink(fullscreen, p)
    /\ UNCHANGED gui

RemovePort(p) ==
    /\ Unlocked
    /\ fullscreen' = Unlink(fullscreen, p)
    /\ gui' = [gui EXCEPT !.port = IF @ = p THEN NoPort ELSE @]

SendToFront(p) == fullscreen' = Append(Unlink(fullscreen, p), p)
SendToBack(p) == fullscreen' = InsertAfter(Unlink(fullscreen, p), 0, p)

Attached(p) == p = "desktop" \/ Has(fullscreen, p)

\* The dialogs service, the desktop that locks, an application that draws directly.
OtherCalls ==
    /\ others > 0
    /\ others' = others - 1
    /\ \/ ~Attached("dialog") /\ AddPort("dialog") /\ UNCHANGED gui
       \/ Attached("dialog") /\ RemovePort("dialog")
       \/ /\ Unlocked
          /\ \/ gui' = [gui EXCEPT !.lockdown = ~@]
             \/ gui' = [gui EXCEPT !.direct = ~@]
          /\ UNCHANGED fullscreen
    /\ UNCHANGED <<inputVars, enabled, orientation>>
=============================================================================
