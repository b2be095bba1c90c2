--------------------------- MODULE ViewDispatcher ---------------------------
(***************************************************************************)
(* A view dispatcher (applications/services/gui/view_dispatcher.c): the    *)
(* input callback of its view port, which runs in the GUI's thread, puts   *)
(* events into a queue; an application's thread takes them in its event    *)
(* loop and calls its views, whose callbacks switch and remove views, stop *)
(* the dispatcher, or call the GUI.  When it has been stopped it waits for *)
(* the release of the keys that are still pressed.                         *)
(***************************************************************************)
EXTENDS Gui

CONSTANTS
    Views, NoView,
    FirstView,          \* the view the application starts with
    ViewOrientation,    \* View.orientation
    QueueSize,          \* VIEW_DISPATCHER_QUEUE_LEN
    MaxCalls,           \* bound: calls made by the application's callbacks
    MaxRuns             \* bound: dispatchers allocated one after the other

ASSUME ViewDispatcherAssumption ==
    /\ NoView \notin Views /\ FirstView \in Views
    /\ ViewOrientation \in [Views -> Orientations]
    /\ QueueSize \in Nat \ {0}
    /\ MaxCalls \in Nat /\ MaxRuns \in Nat

VARIABLES
    app,            \* where the application's thread is, and what it waits for
    queue,          \* ViewDispatcher.input_queue
    events,         \* how many are in ViewDispatcher.event_queue
    dispatcher,     \* the other fields of ViewDispatcher
    told,           \* the keys each view has been told are pressed
    spoiled,        \* the port was turned while a Press was in the queue
    budget

dispatcherVars == <<app, queue, events, dispatcher, told, spoiled, budget>>
vars == <<inputVars, guiVars, dispatcherVars>>

NoCall == [op |-> "none", view |-> NoView]

TypeOK ==
    /\ InputTypeOK /\ GuiTypeOK
    /\ app \in [at : {"absent", "setup", "loop", "callback", "back", "navigation",
                      "drain", "teardown", "crashed"},
                call : [op : {"none", "rotate", "remove"},
                        view : Views \union {NoView}]]
    /\ queue \in Seq(InputEvents) /\ Len(queue) <= QueueSize
    /\ events \in 0 .. QueueSize
    /\ dispatcher \in [views : SUBSET Views, current : Views \union {NoView},
                       ongoing : SUBSET InputKeys, ongoingView : Views \union {NoView},
                       stop : BOOLEAN]
    /\ told \in [Views -> SUBSET InputKeys]
    /\ spoiled \in BOOLEAN
    /\ budget \in [calls : 0 .. MaxCalls, runs : 0 .. MaxRuns]

NewDispatcher == [views |-> {}, current |-> NoView, ongoing |-> {}, ongoingView |-> NoView,
                  stop |-> FALSE]
NobodyTold == [v \in Views |-> {}]

Init ==
    /\ InputInit /\ GuiInit
    /\ app = [at |-> "absent", call |-> NoCall]
    /\ queue = <<>> /\ events = 0
    /\ dispatcher = NewDispatcher
    /\ told = NobodyTold
    /\ spoiled = FALSE
    /\ budget = [calls |-> MaxCalls, runs |-> MaxRuns]

AppGoes(place) == app' = [at |-> place, call |-> NoCall]
AppCalls(op, v) == app' = [app EXCEPT !.call = [op |-> op, view |-> v]]
Unhindered == app.call = NoCall

----------------------------------------------------------------------------
(* The GUI's thread in view_dispatcher_input_callback, with both mutexes.  *)

InputCallback ==
    /\ gui.at = "delivering"
    /\ Len(queue) < QueueSize
    /\ queue' = Append(queue, MapInput(gui.event, orientation))
    /\ GuiReturns
    /\ UNCHANGED <<inputVars, fullscreen, enabled, orientation, others,
                   app, events, dispatcher, told, spoiled, budget>>

----------------------------------------------------------------------------
(* view_dispatcher_set_current_view.  The orientation is set with the view *)
(* port's mutex; the other view port calls give up waiting for it.         *)

\* place: where the application's code is after the call.
SetCurrentView(v, place) ==
    IF v = NoView
    THEN /\ dispatcher' = [dispatcher EXCEPT !.current = NoView, !.stop = TRUE]
         /\ enabled' = FALSE
         /\ AppGoes(place)
    ELSE /\ dispatcher' = [dispatcher EXCEPT !.current = v]
         /\ IF ViewOrientation[v] = orientation
            THEN enabled' = TRUE /\ AppGoes(place)
            ELSE /\ app' = [at |-> place, call |-> [op |-> "rotate", view |-> v]]
                 /\ UNCHANGED enabled

\* Fault: the keys that are pressed are kept when the port is turned.
RotateKeepInput ==
    /\ app.call.op = "rotate"
    /\ Unlocked
    /\ orientation' = ViewOrientation[app.call.view]
    /\ told' = NobodyTold
    /\ spoiled' = (spoiled \/ \E i \in DOMAIN queue : queue[i].type = "Press")
    /\ enabled' = TRUE
    /\ app' = [app EXCEPT !.call = NoCall]
    /\ UNCHANGED <<dispatcher, inputVars, gui, fullscreen, others, queue, events, budget>>

\* The input given up with ongoing_input is given up for the views as well.
Rotate ==
    /\ app.call.op = "rotate"
    /\ Unlocked
    /\ orientation' = ViewOrientation[app.call.view]
    /\ dispatcher' = [dispatcher EXCEPT !.ongoing = {}]
    /\ told' = NobodyTold
    /\ spoiled' = (spoiled \/ \E i \in DOMAIN queue : queue[i].type = "Press")
    /\ enabled' = TRUE
    /\ app' = [app EXCEPT !.call = NoCall]
    /\ UNCHANGED <<inputVars, gui, fullscreen, others, queue, events, budget>>

----------------------------------------------------------------------------
(* The application's code: before it runs the dispatcher, in callbacks,    *)
(* and when the dispatcher has returned.                                   *)

\* view_dispatcher_alloc, _add_view, _attach_to_gui
Attach ==
    /\ app.at = "absent" /\ budget.runs > 0
    /\ AddPort("app")
    /\ dispatcher' = [dispatcher EXCEPT !.views = Views]
    /\ budget' = [budget EXCEPT !.runs = @ - 1]
    /\ AppGoes("setup")
    /\ UNCHANGED <<inputVars, gui, enabled, orientation, others, queue, events, told, spoiled>>

\* The application switches to its first view and runs the dispatcher.
Start ==
    /\ app.at = "setup"
    /\ SetCurrentView(FirstView, "loop")
    /\ UNCHANGED <<inputVars, gui, fullscreen, orientation, others,
                   queue, events, told, spoiled, budget>>

MayCall ==
    /\ app.at \in {"callback", "back", "navigation"} /\ Unhindered
    /\ budget.calls > 0
    /\ budget' = [budget EXCEPT !.calls = @ - 1]

SwitchToView(v) ==
    /\ MayCall
    /\ v \in dispatcher.views \union {NoView}
    /\ SetCurrentView(v, app.at)
    /\ UNCHANGED <<inputVars, gui, fullscreen, orientation, others,
                   queue, events, told, spoiled>>

StopDispatcher ==
    /\ MayCall
    /\ dispatcher' = [dispatcher EXCEPT !.stop = TRUE]
    /\ UNCHANGED <<inputVars, guiVars, app, queue, events, told, spoiled>>

\* view_dispatcher_remove_view takes the GUI's mutex, and waits for it.
CallRemoveView(v) ==
    /\ MayCall
    /\ v \in dispatcher.views
    /\ AppCalls("remove", v)
    /\ UNCHANGED <<inputVars, guiVars, queue, events, dispatcher, told, spoiled>>

\* view_dispatcher_send_to_front and _send_to_back
SendPort ==
    /\ MayCall
    /\ Unlocked
    /\ SendToFront("app") \/ SendToBack("app")
    /\ UNCHANGED <<inputVars, gui, enabled, orientation, others,
                   app, queue, events, dispatcher, told, spoiled>>

\* Fault: the view of the keys that are pressed is not forgotten.
RemoveViewKeepInput(v) ==
    /\ dispatcher' =
          [dispatcher EXCEPT !.views = @ \ {v},
                             !.current = IF @ = v THEN NoView ELSE @,
                             !.stop = @ \/ dispatcher.current = v]
    /\ enabled' = (enabled /\ dispatcher.current # v)
    /\ told' = [told EXCEPT ![v] = {}]

RemoveView(v) ==
    /\ dispatcher' =
          [dispatcher EXCEPT !.views = @ \ {v},
                             !.current = IF @ = v THEN NoView ELSE @,
                             !.stop = @ \/ dispatcher.current = v,
                             !.ongoingView = IF @ = v THEN NoView ELSE @]
    /\ enabled' = (enabled /\ dispatcher.current # v)
    /\ told' = [told EXCEPT ![v] = {}]

RemoveViewLocked ==
    /\ app.call.op = "remove" /\ Unlocked
    /\ RemoveView(app.call.view)
    /\ app' = [app EXCEPT !.call = NoCall]
    /\ UNCHANGED <<inputVars, gui, fullscreen, orientation, others, queue, events, spoiled, budget>>

\* The callback of a view, or of the application, returns.  A view that does not
\* use Back gives way to another view or to the navigation callback.
CodeReturns ==
    /\ Unhindered
    /\ \/ /\ app.at \in {"setup", "callback", "back", "navigation"}
          /\ AppGoes("loop")
          /\ UNCHANGED <<dispatcher, enabled>>
       \/ /\ app.at = "back"
          /\ \/ /\ dispatcher.current = NoView
                /\ AppGoes("crashed")
                /\ UNCHANGED <<dispatcher, enabled>>
             \/ /\ dispatcher.current # NoView
                /\ \/ \E v \in dispatcher.views \union {NoView} : SetCurrentView(v, "loop")
                   \/ AppGoes("navigation") /\ UNCHANGED <<dispatcher, enabled>>
       \/ /\ app.at = "navigation"
          /\ dispatcher' = [dispatcher EXCEPT !.stop = TRUE]
          /\ AppGoes("loop")
          /\ UNCHANGED enabled
    /\ UNCHANGED <<inputVars, gui, fullscreen, orientation, others,
                   queue, events, told, spoiled, budget>>

----------------------------------------------------------------------------
(* The event loop of view_dispatcher_run: a stop comes first.              *)

InLoop == app.at = "loop" /\ Unhindered

\* Fault: only the current view gets an event.
AddresseeCurrent(e, current, ongoingView) ==
    IF current = ongoingView THEN current ELSE NoView

Addressee(e, current, ongoingView) ==
    IF current # NoView /\ current = ongoingView THEN current
    ELSE IF e.type = "Release" THEN ongoingView ELSE NoView

IsBack(e) == e.key = "Back" /\ e.type \in {"Short", "Long"}

\* view_dispatcher_handle_input
HandleInput ==
    /\ InLoop /\ ~dispatcher.stop
    /\ queue # <<>>
    /\ queue' = Tail(queue)
    /\ LET e == Head(queue)
           ongoing == KeysAfter(e, dispatcher.ongoing)
           ongoingView == IF IsFirstPress(e, ongoing)
                          THEN dispatcher.current ELSE dispatcher.ongoingView
           to == Addressee(e, dispatcher.current, ongoingView)
       IN IF ~IsComplementary(e, dispatcher.ongoing)
          THEN UNCHANGED <<dispatcher, app, told>>
          ELSE /\ dispatcher' = [dispatcher EXCEPT !.ongoing = ongoing,
                                                   !.ongoingView = ongoingView]
               /\ IF to = NoView
                  THEN UNCHANGED <<app, told>>
                  ELSE /\ told' = [told EXCEPT ![to] = KeysAfter(e, @)]
                       /\ AppGoes(IF IsBack(e) THEN "back" ELSE "callback")
    /\ UNCHANGED <<inputVars, guiVars, events, spoiled, budget>>

\* Fault: the event has been taken from the queue before.
HandleEventTwice ==
    /\ InLoop /\ ~dispatcher.stop
    /\ queue # <<>> \/ events > 0
    /\ events' = events - 1
    /\ AppGoes("callback")
    /\ UNCHANGED <<inputVars, guiVars, queue, dispatcher, told, spoiled, budget>>

HandleEvent ==
    /\ InLoop /\ ~dispatcher.stop
    /\ events > 0
    /\ events' = events - 1
    /\ AppGoes("callback")
    /\ UNCHANGED <<inputVars, guiVars, queue, dispatcher, told, spoiled, budget>>

\* view_dispatcher_send_custom_event by another thread.
SendCustomEvent ==
    /\ app.at \notin {"absent", "crashed"}
    /\ others > 0 /\ events < QueueSize
    /\ events' = events + 1
    /\ others' = others - 1
    /\ UNCHANGED <<inputVars, gui, fullscreen, enabled, orientation,
                   app, queue, dispatcher, told, spoiled, budget>>

RunStops ==
    /\ InLoop /\ dispatcher.stop
    /\ dispatcher' = [dispatcher EXCEPT !.stop = FALSE]
    /\ AppGoes("drain")
    /\ UNCHANGED <<inputVars, guiVars, queue, events, told, spoiled, budget>>

\* Fault: only presses are counted.
DrainPresses ==
    /\ app.at = "drain" /\ dispatcher.ongoing # {}
    /\ queue # <<>>
    /\ queue' = Tail(queue)
    /\ dispatcher' = [dispatcher EXCEPT !.ongoing = @ \union KeysAfter(Head(queue), @)]
    /\ UNCHANGED <<inputVars, guiVars, app, events, told, spoiled, budget>>

Drain ==
    /\ app.at = "drain" /\ dispatcher.ongoing # {}
    /\ queue # <<>>
    /\ queue' = Tail(queue)
    /\ dispatcher' = [dispatcher EXCEPT !.ongoing = KeysAfter(Head(queue), @)]
    /\ UNCHANGED <<inputVars, guiVars, app, events, told, spoiled, budget>>

DrainEnds ==
    /\ app.at = "drain" /\ dispatcher.ongoing = {}
    /\ AppGoes("teardown")
    /\ UNCHANGED <<inputVars, guiVars, queue, events, dispatcher, told, spoiled, budget>>

\* The application removes its views and frees the dispatcher: view_dispatcher_free
\* waits for the GUI's mutex, and after that nothing refers to the port.
Free ==
    /\ app.at = "teardown"
    /\ RemovePort("app")
    /\ AppGoes("absent")
    /\ queue' = <<>> /\ events' = 0 /\ dispatcher' = NewDispatcher
    /\ enabled' = FALSE /\ orientation' = "Horizontal"
    /\ told' = NobodyTold /\ spoiled' = FALSE
    /\ UNCHANGED <<inputVars, others, budget>>

----------------------------------------------------------------------------
(* The threads.                                                            *)

InputThread ==
    /\ \E k \in Keys : KeyPressed(k) \/ KeyLet(k) \/ KeyReleased(k)
    /\ UNCHANGED <<guiVars, dispatcherVars>>

TimerThread ==
    /\ \E k \in Keys : KeyHeld(k)
    /\ UNCHANGED <<guiVars, dispatcherVars>>

\* What the input thread does when every key is let go.
KeysAreLet ==
    /\ \E k \in Keys : KeyLet(k) \/ KeyReleased(k)
    /\ UNCHANGED <<guiVars, dispatcherVars>>

GuiThread ==
    \/ GuiInput /\ UNCHANGED dispatcherVars
    \/ InputCallback

AppThread ==
    \/ Attach \/ Start
    \/ \E v \in Views \union {NoView} : SwitchToView(v)
    \/ \E v \in Views : CallRemoveView(v)
    \/ StopDispatcher \/ SendPort
    \/ Rotate \/ RemoveViewLocked
    \/ CodeReturns
    \/ HandleInput \/ HandleEvent \/ RunStops
    \/ Drain \/ DrainEnds \/ Free

OtherThreads ==
    \/ OtherCalls /\ UNCHANGED dispatcherVars
    \/ SendCustomEvent

Next == InputThread \/ TimerThread \/ GuiThread \/ AppThread \/ OtherThreads

Spec == Init /\ [][Next]_vars

\* Keys are let go in the end, and the two threads run when they can.
Fairness ==
    /\ WF_vars(KeysAreLet)
    /\ WF_vars(GuiThread)
    /\ WF_vars(AppThread)

FairSpec == Spec /\ Fairness

----------------------------------------------------------------------------
(* Properties.                                                             *)

Quiet ==
    /\ \A k \in Keys : keys[k] = "up"
    /\ inputQueue = <<>> /\ queue = <<>>
    /\ gui.at = "idle"

\* view_dispatcher_run waits until ongoing_input is zero, and gui_input chooses a view
\* port only for the first key: when no key is pressed and every event has been
\* handled, neither believes that one is.  Excepted is the dispatcher whose port was
\* turned while a Press mapped for the old orientation was in its queue: the release is
\* mapped for the new one.
NoStuckKey ==
    Quiet => gui.ongoing = {} /\ (spoiled \/ dispatcher.ongoing = {})

\* A view that was told of a press is told of the release, whatever has become
\* current, enabled or locked meanwhile ("Sending key ... to previous view"), with the
\* same exception.
ViewsSeeRelease ==
    Quiet /\ app.at \in {"loop", "callback", "back", "navigation"} /\ ~spoiled =>
        told = NobodyTold

\* gui_input and gui_redraw use the view ports of the layers and the one of the keys
\* that are pressed; view_port_input checks that the port it is given is attached.
PortLives ==
    /\ gui.port # NoPort => Attached(gui.port)
    /\ gui.at = "delivering" => Attached("app")

\* The views that view_dispatcher_handle_input calls have not been removed, however
\* a removal falls between a press and its release.
ViewLives == {dispatcher.current, dispatcher.ongoingView} \subseteq dispatcher.views \union {NoView}

\* A dispatcher that was stopped while keys were pressed does return.
RunReturns == app.at = "drain" /\ ~spoiled ~> app.at = "teardown"

\* "We are not going to lockup system": the GUI's thread does not wait for space in the
\* queue of an application that waits for a mutex the GUI's thread holds.
NoLockup ==
    ~ /\ gui.at = "delivering" /\ Len(queue) = QueueSize
      /\ app.call.op # "none" \/ app.at = "teardown"
=============================================================================
