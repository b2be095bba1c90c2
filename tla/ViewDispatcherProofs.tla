------------------------ MODULE ViewDispatcherProofs ------------------------
(***************************************************************************)
(* Proofs about ViewDispatcher, Gui and Input, for any keys, views and     *)
(* lengths of the queues, and any number of presses, calls and runs.       *)
(***************************************************************************)
EXTENDS ViewDispatcher, IntrusiveListProofs, TLAPS

-----------------------------------------------------------------------------
(* The parts of the inductive invariant.                                   *)

\* Whether k is pressed after the first n events of q, if those of ongoing were before.
Pressed(q, ongoing, k, n) ==
    \/ \E i \in 1..n :
          q[i] = Event(k, "Press") /\ \A j \in (i + 1)..n : q[j] # Event(k, "Release")
    \/ k \in ongoing /\ \A j \in 1..n : q[j] # Event(k, "Release")

\* No key is pressed that is pressed already.
Proper(q, ongoing) ==
    \A i \in 1..Len(q) : q[i].type = "Press" => ~Pressed(q, ongoing, q[i].key, i - 1)

\* What the GUI believes and what it still has to learn is how the keys are.
GuiInv ==
    /\ \A i \in 1..Len(inputQueue) : inputQueue[i].key \in Keys
    /\ \A k \in Keys : Pressed(inputQueue, gui.ongoing, k, Len(inputQueue)) <=> keys[k] # "up"
    /\ Proper(inputQueue, gui.ongoing)

\* Who is attached, and what the application's thread may be waiting for.
Control ==
    /\ app.at = "absent" <=> ~Attached("app")
    /\ app.at = "setup" => dispatcher.views = Views
    /\ app.call.op = "none" => app.call = NoCall
    /\ app.call.op # "none" =>
          app.call.view \in Views /\ app.at \in {"loop", "callback", "back", "navigation"}
    /\ gui.at = "delivering" =>
          /\ gui.port = "app"
          /\ gui.event.type = "Press" => gui.event.key \in gui.ongoing
          /\ gui.event.type = "Release" => gui.event.key \notin gui.ongoing

\* The keys the GUI has sent to the application.
SentToApp(d) ==
    /\ gui.port = "app"
    /\ \/ \E k \in gui.ongoing :
             /\ MapKey(k, orientation) = d
             /\ ~(gui.at = "delivering" /\ gui.event = Event(k, "Press"))
       \/ /\ gui.at = "delivering" /\ gui.event.type = "Release"
          /\ MapKey(gui.event.key, orientation) = d

\* What the dispatcher believes and what it still has to learn is what the GUI has sent,
\* and its views have been told of nothing else.
DispatcherInv ==
    ~spoiled =>
        /\ \A d \in InputKeys : Pressed(queue, dispatcher.ongoing, d, Len(queue)) => SentToApp(d)
        /\ Proper(queue, dispatcher.ongoing)
ToldInv ==
    ~spoiled /\ app.at \notin {"drain", "teardown", "crashed"} =>
        \A v \in Views : /\ told[v] \subseteq dispatcher.ongoing
                         /\ told[v] # {} => v = dispatcher.ongoingView

\* The inductive invariant.
DispatchInv ==
    /\ TypeOK
    /\ Control
    /\ PortLives
    /\ ViewLives
    /\ GuiInv
    /\ DispatcherInv
    /\ ToldInv

-----------------------------------------------------------------------------
(* Keys and queues *)

\* After an event the keys are what KeysAfter says.
LEMMA KeysAfterIs ==
    ASSUME NEW e \in InputEvents, NEW ongoing, NEW k
    PROVE  k \in KeysAfter(e, ongoing) <=>
              e = Event(k, "Press") \/ (k \in ongoing /\ e # Event(k, "Release"))
BY DEF KeysAfter, InputEvents, InputTypes, Event

\* An event that gui_input and view_dispatcher_handle_input drop changes no key.
LEMMA DroppedIs ==
    ASSUME NEW e \in InputEvents, NEW ongoing, ~IsComplementary(e, ongoing)
    PROVE  KeysAfter(e, ongoing) = ongoing
BY DEF IsComplementary, KeysAfter

\* One event more.
LEMMA PressedNext ==
    ASSUME NEW q, NEW ongoing, NEW k, NEW n \in Nat
    PROVE  Pressed(q, ongoing, k, n + 1) <=>
              \/ q[n + 1] = Event(k, "Press")
              \/ q[n + 1] # Event(k, "Release") /\ Pressed(q, ongoing, k, n)
<1>1. Event(k, "Press") # Event(k, "Release")
    BY DEF Event
<1>2. /\ \A j : j \in 1..(n + 1) <=> j \in 1..n \/ j = n + 1
      /\ \A i \in 1..n : \A j : j \in (i + 1)..(n + 1) <=> j \in (i + 1)..n \/ j = n + 1
      /\ (n + 1 + 1)..(n + 1) = {}
      /\ n + 1 \in 1..(n + 1)
    OBVIOUS
<1>3. ASSUME q[n + 1] = Event(k, "Press")
      PROVE  Pressed(q, ongoing, k, n + 1)
    BY <1>2, <1>3 DEF Pressed
<1>4. ASSUME q[n + 1] # Event(k, "Release"), Pressed(q, ongoing, k, n)
      PROVE  Pressed(q, ongoing, k, n + 1)
    BY <1>2, <1>4 DEF Pressed
<1>5. ASSUME Pressed(q, ongoing, k, n + 1), q[n + 1] # Event(k, "Press")
      PROVE  q[n + 1] # Event(k, "Release") /\ Pressed(q, ongoing, k, n)
    <2>1. CASE \E i \in 1..(n + 1) :
                  /\ q[i] = Event(k, "Press")
                  /\ \A j \in (i + 1)..(n + 1) : q[j] # Event(k, "Release")
        <3>1. PICK i \in 1..(n + 1) :
                  /\ q[i] = Event(k, "Press")
                  /\ \A j \in (i + 1)..(n + 1) : q[j] # Event(k, "Release")
            BY <2>1
        <3>2. i \in 1..n
            BY <1>2, <1>5, <3>1
        <3>3. n + 1 \in (i + 1)..(n + 1) /\ \A j \in (i + 1)..n : j \in (i + 1)..(n + 1)
            BY <1>2, <3>2
        <3> QED
            BY <3>1, <3>2, <3>3 DEF Pressed
    <2>2. CASE k \in ongoing /\ \A j \in 1..(n + 1) : q[j] # Event(k, "Release")
        BY <1>2, <2>2 DEF Pressed
    <2> QED
        BY <1>5, <2>1, <2>2 DEF Pressed
<1> QED
    BY <1>1, <1>3, <1>4, <1>5

\* Only the events counted matter.
LEMMA PressedSame ==
    ASSUME NEW q, NEW p, NEW ongoing, NEW k, NEW n \in Nat, \A i \in 1..n : q[i] = p[i]
    PROVE  Pressed(q, ongoing, k, n) <=> Pressed(p, ongoing, k, n)
<1>1. \A i \in 1..n : \A j \in (i + 1)..n : j \in 1..n
    OBVIOUS
<1> QED
    BY <1>1 DEF Pressed

\* Before any event the keys are the ongoing ones.
LEMMA PressedNone ==
    ASSUME NEW q, NEW ongoing, NEW k
    PROVE  Pressed(q, ongoing, k, 0) <=> k \in ongoing
<1>1. 1..0 = {}
    OBVIOUS
<1> QED
    BY <1>1 DEF Pressed

\* A new event at the end of a queue.
LEMMA PressedAppend ==
    ASSUME NEW q \in Seq(InputEvents), NEW e \in InputEvents, NEW ongoing
    PROVE  /\ \A k : Pressed(Append(q, e), ongoing, k, Len(Append(q, e))) <=>
                        \/ e = Event(k, "Press")
                        \/ e # Event(k, "Release") /\ Pressed(q, ongoing, k, Len(q))
           /\ Proper(q, ongoing) /\ (e.type = "Press" => ~Pressed(q, ongoing, e.key, Len(q)))
                 => Proper(Append(q, e), ongoing)
<1> DEFINE p == Append(q, e)
<1>1. /\ p \in Seq(InputEvents) /\ Len(p) = Len(q) + 1 /\ Len(q) \in Nat
      /\ \A i \in 1..Len(q) : p[i] = q[i]
      /\ p[Len(q) + 1] = e
    OBVIOUS
<1> HIDE DEF p
<1>2. ASSUME NEW k
      PROVE  Pressed(p, ongoing, k, Len(p)) <=>
                \/ e = Event(k, "Press")
                \/ e # Event(k, "Release") /\ Pressed(q, ongoing, k, Len(q))
    <2>1. Pressed(p, ongoing, k, Len(q)) <=> Pressed(q, ongoing, k, Len(q))
        BY <1>1, PressedSame
    <2>2. Pressed(p, ongoing, k, Len(q) + 1) <=>
             \/ p[Len(q) + 1] = Event(k, "Press")
             \/ p[Len(q) + 1] # Event(k, "Release") /\ Pressed(p, ongoing, k, Len(q))
        BY <1>1, PressedNext
    <2> QED
        BY <1>1, <2>1, <2>2
<1>3. ASSUME Proper(q, ongoing), e.type = "Press" => ~Pressed(q, ongoing, e.key, Len(q))
      PROVE  Proper(p, ongoing)
    <2> SUFFICES ASSUME NEW i \in 1..Len(p), p[i].type = "Press"
                 PROVE  ~Pressed(p, ongoing, p[i].key, i - 1)
        BY DEF Proper
    <2>1. /\ i - 1 \in Nat /\ \A j \in 1..(i - 1) : p[j] = q[j]
          /\ i \in 1..Len(q) \/ i = Len(q) + 1
        BY <1>1
    <2>2. Pressed(p, ongoing, p[i].key, i - 1) <=> Pressed(q, ongoing, p[i].key, i - 1)
        BY <2>1, PressedSame
    <2>3. CASE i \in 1..Len(q)
        BY <1>1, <1>3, <2>2, <2>3 DEF Proper
    <2>4. CASE i = Len(q) + 1
        <3>1. i - 1 = Len(q) /\ p[i] = e
            BY <1>1, <2>4
        <3> QED
            BY <1>3, <2>2, <3>1
    <2> QED
        BY <2>1, <2>3, <2>4
<1> QED
    BY <1>2, <1>3 DEF p

\* The first event is taken and handled.
LEMMA PressedTail ==
    ASSUME NEW q \in Seq(InputEvents), q # <<>>, NEW ongoing
    PROVE  /\ Head(q) \in InputEvents
           /\ \A k : Pressed(Tail(q), KeysAfter(Head(q), ongoing), k, Len(Tail(q))) <=>
                        Pressed(q, ongoing, k, Len(q))
           /\ Proper(q, ongoing) => /\ Proper(Tail(q), KeysAfter(Head(q), ongoing))
                                    /\ Head(q).type = "Press" => Head(q).key \notin ongoing
<1> DEFINE p == Tail(q)
           after == KeysAfter(Head(q), ongoing)
<1>1. /\ Len(p) = Len(q) - 1 /\ Len(p) \in Nat /\ Len(q) \in Nat
      /\ Head(q) = q[1] /\ Head(q) \in InputEvents /\ 1 \in 1..Len(q)
      /\ \A i \in 1..Len(p) : p[i] = q[i + 1]
    OBVIOUS
<1>a. \A k : k \in after <=>
               q[1] = Event(k, "Press") \/ (k \in ongoing /\ q[1] # Event(k, "Release"))
    BY <1>1, KeysAfterIs
<1> HIDE DEF p, after
<1>2. ASSUME NEW k, NEW n \in 0..Len(p)
      PROVE  Pressed(p, after, k, n) <=> Pressed(q, ongoing, k, n + 1)
    <2>a. Event(k, "Press") # Event(k, "Release")
        BY DEF Event
    <2>b. \A i \in 1..n : p[i] = q[i + 1] /\ i + 1 \in 2..(n + 1)
        BY <1>1
    <2>c. \A i \in 2..(n + 1) : i - 1 \in 1..n /\ q[i] = p[i - 1]
        BY <1>1
    <2>d. 1 \in 1..(n + 1) /\ \A i : i \in 1..(n + 1) <=> i = 1 \/ i \in 2..(n + 1)
        BY <1>1
    <2>1. (\A j \in 1..n : p[j] # Event(k, "Release")) <=>
              \A j \in 2..(n + 1) : q[j] # Event(k, "Release")
        BY <2>b, <2>c
    <2>2. ASSUME NEW i \in 1..n
          PROVE  (\A j \in (i + 1)..n : p[j] # Event(k, "Release")) <=>
                    \A j \in (i + 2)..(n + 1) : q[j] # Event(k, "Release")
        <3>1. \A j \in (i + 1)..n : j \in 1..n /\ j + 1 \in (i + 2)..(n + 1) /\ p[j] = q[j + 1]
            BY <2>b
        <3>2. \A j \in (i + 2)..(n + 1) : j - 1 \in (i + 1)..n /\ q[j] = p[j - 1]
            BY <2>c
        <3> QED
            BY <3>1, <3>2
    <2>3. ASSUME Pressed(p, after, k, n)
          PROVE  Pressed(q, ongoing, k, n + 1)
        <3>1. CASE \E i \in 1..n : /\ p[i] = Event(k, "Press")
                                   /\ \A j \in (i + 1)..n : p[j] # Event(k, "Release")
            <4>1. PICK i \in 1..n : /\ p[i] = Event(k, "Press")
                                    /\ \A j \in (i + 1)..n : p[j] # Event(k, "Release")
                BY <3>1
            <4>2. /\ q[i + 1] = Event(k, "Press")
                  /\ \A j \in (i + 2)..(n + 1) : q[j] # Event(k, "Release")
                BY <2>2, <2>b, <4>1
            <4>3. i + 1 \in 1..(n + 1) /\ (i + 1) + 1 = i + 2
                OBVIOUS
            <4> QED
                BY <4>2, <4>3 DEF Pressed
        <3>2. CASE k \in after /\ \A j \in 1..n : p[j] # Event(k, "Release")
            <4>1. \A j \in 2..(n + 1) : q[j] # Event(k, "Release")
                BY <2>1, <3>2
            <4>2. CASE q[1] = Event(k, "Press")
                <5>1. \A j \in (1 + 1)..(n + 1) : q[j] # Event(k, "Release")
                    BY <4>1
                <5> QED
                    BY <2>d, <4>2, <5>1 DEF Pressed
            <4>3. CASE k \in ongoing /\ q[1] # Event(k, "Release")
                BY <2>d, <4>1, <4>3 DEF Pressed
            <4> QED
                BY <1>a, <3>2, <4>2, <4>3
        <3> QED
            BY <2>3, <3>1, <3>2 DEF Pressed
    <2>4. ASSUME Pressed(q, ongoing, k, n + 1)
          PROVE  Pressed(p, after, k, n)
        <3>1. ASSUME NEW i \in 2..(n + 1), q[i] = Event(k, "Press"),
                     \A j \in (i + 1)..(n + 1) : q[j] # Event(k, "Release")
              PROVE  Pressed(p, after, k, n)
            <4>1. i - 1 \in 1..n /\ p[i - 1] = Event(k, "Press") /\ (i - 1) + 2 = i + 1
                BY <2>c, <3>1
            <4>2. \A j \in (i - 1 + 1)..n : p[j] # Event(k, "Release")
                BY <2>2, <3>1, <4>1
            <4> QED
                BY <4>1, <4>2 DEF Pressed
        <3>2. ASSUME q[1] = Event(k, "Press") \/ (k \in ongoing /\ q[1] # Event(k, "Release")),
                     \A j \in 2..(n + 1) : q[j] # Event(k, "Release")
              PROVE  Pressed(p, after, k, n)
            BY <1>a, <2>1, <3>2 DEF Pressed
        <3>3. CASE \E i \in 1..(n + 1) :
                      /\ q[i] = Event(k, "Press")
                      /\ \A j \in (i + 1)..(n + 1) : q[j] # Event(k, "Release")
            <4>1. PICK i \in 1..(n + 1) :
                      /\ q[i] = Event(k, "Press")
                      /\ \A j \in (i + 1)..(n + 1) : q[j] # Event(k, "Release")
                BY <3>3
            <4>2. CASE i = 1
                <5>1. \A j \in 2..(n + 1) : q[j] # Event(k, "Release")
                    BY <4>1, <4>2
                <5> QED
                    BY <3>2, <4>1, <4>2, <5>1
            <4>3. CASE i \in 2..(n + 1)
                BY <3>1, <4>1, <4>3
            <4> QED
                BY <2>d, <4>2, <4>3
        <3>4. CASE k \in ongoing /\ \A j \in 1..(n + 1) : q[j] # Event(k, "Release")
            BY <2>d, <3>2, <3>4
        <3> QED
            BY <2>4, <3>3, <3>4 DEF Pressed
    <2> QED
        BY <2>3, <2>4
<1>3. \A k : Pressed(p, after, k, Len(p)) <=> Pressed(q, ongoing, k, Len(q))
    <2>1. Len(p) \in 0..Len(p) /\ Len(p) + 1 = Len(q)
        BY <1>1
    <2> QED
        BY <1>2, <2>1
<1>4. ASSUME Proper(q, ongoing)
      PROVE  Proper(p, after) /\ (q[1].type = "Press" => q[1].key \notin ongoing)
    <2>1. ASSUME NEW i \in 1..Len(p), p[i].type = "Press"
          PROVE  ~Pressed(p, after, p[i].key, i - 1)
        <3>1. i + 1 \in 1..Len(q) /\ p[i] = q[i + 1] /\ (i + 1) - 1 = (i - 1) + 1
            BY <1>1
        <3>2. ~Pressed(q, ongoing, p[i].key, (i - 1) + 1)
            BY <1>4, <2>1, <3>1 DEF Proper
        <3>3. i - 1 \in 0..Len(p)
            BY <1>1
        <3> QED
            BY <1>2, <3>2, <3>3
    <2>2. q[1].type = "Press" => ~Pressed(q, ongoing, q[1].key, 0)
        BY <1>1, <1>4 DEF Proper
    <2> QED
        BY <2>1, <2>2, PressedNone DEF Proper
<1> QED
    BY <1>1, <1>3, <1>4 DEF p, after

-----------------------------------------------------------------------------
(* Keys and view ports *)

\* However a view port is turned, every key stands for one key, and no two for the same.
LEMMA TurnedKeys ==
    /\ \A k \in InputKeys : Opposite[k] \in InputKeys /\ Turned[k] \in InputKeys
    /\ \A k, l \in InputKeys : Opposite[k] = Opposite[l] => k = l
    /\ \A k, l \in InputKeys : Turned[k] = Turned[l] => k = l
<1>1. /\ Opposite["Up"] = "Down" /\ Opposite["Down"] = "Up"
      /\ Opposite["Right"] = "Left" /\ Opposite["Left"] = "Right"
      /\ Opposite["Ok"] = "Ok" /\ Opposite["Back"] = "Back"
    BY DEF Opposite
<1>2. /\ Turned["Up"] = "Right" /\ Turned["Down"] = "Left"
      /\ Turned["Right"] = "Down" /\ Turned["Left"] = "Up"
      /\ Turned["Ok"] = "Ok" /\ Turned["Back"] = "Back"
    BY DEF Turned
<1>3. \A k \in InputKeys : Opposite[k] \in InputKeys
    BY <1>1 DEF InputKeys
<1>4. \A k \in InputKeys : Turned[k] \in InputKeys
    BY <1>2 DEF InputKeys
<1>5. \A k, l \in InputKeys : Opposite[k] = Opposite[l] => k = l
    BY <1>1 DEF InputKeys
<1>6. \A k, l \in InputKeys : Turned[k] = Turned[l] => k = l
    BY <1>2 DEF InputKeys
<1> QED
    BY <1>3, <1>4, <1>5, <1>6

\* view_port_map_input gives different keys different names, in every orientation.
LEMMA MappedKeys ==
    ASSUME NEW o \in Orientations
    PROVE  /\ \A k \in InputKeys : MapKey(k, o) \in InputKeys
           /\ \A k, l \in InputKeys : MapKey(k, o) = MapKey(l, o) => k = l
<1>1. /\ \A k \in InputKeys : ForHand(k) \in InputKeys
      /\ \A k, l \in InputKeys : ForHand(k) = ForHand(l) => k = l
    BY TurnedKeys DEF ForHand
<1>2. CASE o = "Horizontal"
    BY <1>1, <1>2 DEF MapKey
<1>3. CASE o = "HorizontalFlip"
    <2>1. \A k : MapKey(k, o) = Opposite[ForHand(k)]
        BY <1>3 DEF MapKey
    <2> QED
        BY <1>1, <2>1, TurnedKeys
<1>4. CASE o = "Vertical"
    <2>1. \A k : MapKey(k, o) = Turned[k]
        BY <1>4 DEF MapKey
    <2> QED
        BY <2>1, TurnedKeys
<1>5. CASE o = "VerticalFlip"
    <2>1. \A k : MapKey(k, o) = Opposite[Turned[k]]
        BY <1>5 DEF MapKey
    <2> QED
        BY <2>1, TurnedKeys
<1> QED
    BY <1>2, <1>3, <1>4, <1>5 DEF Orientations

\* view_port_map_input changes the key of an event only.
LEMMA MappedEvent ==
    ASSUME NEW e \in InputEvents, NEW o \in Orientations
    PROVE  /\ MapInput(e, o) \in InputEvents
           /\ MapInput(e, o).type = e.type /\ MapInput(e, o).key = MapKey(e.key, o)
BY MappedKeys DEF InputEvents, MapInput

\* The view port on top is attached (gui_view_port_find_enabled).
LEMMA TopIsAttached ==
    ASSUME TypeOK
    PROVE  TopPort \in Ports /\ Attached(TopPort)
<1>1. fullscreen \in Seq({"app", "dialog"}) /\ Len(fullscreen) \in Nat
    BY DEF TypeOK, GuiTypeOK
<1>2. CASE gui.lockdown \/ Shown = {}
    BY <1>2 DEF TopPort, Attached, Ports
<1>3. CASE ~gui.lockdown /\ Shown # {}
    <2>1. Shown \in SUBSET (1..Len(fullscreen))
        BY DEF Shown
    <2>2. \E last \in Shown : \A i \in Shown : i <= last
        BY <1>1, <1>3, <2>1, LastPosition
    <2>3. \E last \in Shown : \A i \in Shown : last >= i
        BY <1>1, <2>1, <2>2
    <2>4. Max(Shown) \in Shown
        BY <2>3 DEF Max
    <2>5. /\ TopPort = fullscreen[Max(Shown)]
          /\ Max(Shown) \in 1..Len(fullscreen)
        BY <1>3, <2>1, <2>4 DEF TopPort
    <2> QED
        BY <1>1, <2>5 DEF Attached, Has, Ports
<1> QED
    BY <1>2, <1>3

\* The ports, views and events of a type, spelled out.
LEMMA Types ==
    ASSUME TypeOK
    PROVE  /\ keys \in [Keys -> {"up", "down", "long", "releasing"}]
           /\ inputQueue \in Seq(InputEvents) /\ queue \in Seq(InputEvents)
           /\ gui \in [at : {"idle", "delivering"}, event : InputEvents,
                       ongoing : SUBSET Keys, port : Ports \union {NoPort},
                       lockdown : BOOLEAN, direct : BOOLEAN]
           /\ fullscreen \in Seq({"app", "dialog"}) /\ NoDuplicates(fullscreen)
           /\ orientation \in Orientations
           /\ dispatcher \in [views : SUBSET Views, current : Views \union {NoView},
                              ongoing : SUBSET InputKeys, ongoingView : Views \union {NoView},
                              stop : BOOLEAN]
           /\ told \in [Views -> SUBSET InputKeys]
           /\ app \in [at : {"absent", "setup", "loop", "callback", "back", "navigation",
                             "drain", "teardown", "crashed"},
                       call : [op : {"none", "rotate", "remove"}, view : Views \union {NoView}]]
           /\ spoiled \in BOOLEAN
           /\ NoView \notin Views /\ FirstView \in Views /\ Keys \subseteq InputKeys
           /\ NoPort \notin Ports
BY InputAssumption, GuiAssumption, ViewDispatcherAssumption
   DEF TypeOK, InputTypeOK, GuiTypeOK, InputAssumption, GuiAssumption, ViewDispatcherAssumption

\* The layers after a view port was added, removed or moved.
LEMMA LayerSteps ==
    ASSUME TypeOK, NEW p \in {"app", "dialog"}
    PROVE  /\ AddPort(p) /\ ~Attached(p) =>
                 /\ fullscreen' \in Seq({"app", "dialog"}) /\ NoDuplicates(fullscreen')
                 /\ \A r : Has(fullscreen', r) <=> Has(fullscreen, r) \/ r = p
           /\ RemovePort(p) =>
                 /\ fullscreen' \in Seq({"app", "dialog"}) /\ NoDuplicates(fullscreen')
                 /\ \A r : Has(fullscreen', r) <=> Has(fullscreen, r) /\ r # p
           /\ (SendToFront(p) \/ SendToBack(p)) /\ Attached(p) =>
                 /\ fullscreen' \in Seq({"app", "dialog"}) /\ NoDuplicates(fullscreen')
                 /\ \A r : Has(fullscreen', r) <=> Has(fullscreen, r)
<1> DEFINE S == {"app", "dialog"}
           rest == Unlink(fullscreen, p)
<1>1. fullscreen \in Seq(S) /\ NoDuplicates(fullscreen) /\ p # "desktop"
    BY Types
<1> HIDE DEF S
<1>a. p \in S
    BY DEF S
<1>2. /\ rest \in Seq(S) /\ NoDuplicates(rest)
      /\ \A r : Has(rest, r) <=> Has(fullscreen, r) /\ r # p
    BY <1>1, UnlinkType, UnlinkElements, UnlinkHas
<1> HIDE DEF rest
<1>3. ~Has(rest, p)
    BY <1>2
<1>4. /\ Append(rest, p) \in Seq(S) /\ NoDuplicates(Append(rest, p))
      /\ \A r : Has(Append(rest, p), r) <=> Has(rest, r) \/ r = p
    BY <1>2, <1>3, <1>a, AppendElements
<1>5. /\ InsertAfter(rest, 0, p) \in Seq(S) /\ NoDuplicates(InsertAfter(rest, 0, p))
      /\ \A r : Has(InsertAfter(rest, 0, p), r) <=> Has(rest, r) \/ r = p
    <2>1. 0 \in 0..Len(rest)
        BY <1>2
    <2> QED
        BY <1>2, <1>3, <1>a, <2>1, InsertElements
<1>6. ASSUME AddPort(p), ~Attached(p)
      PROVE  /\ fullscreen' \in Seq(S) /\ NoDuplicates(fullscreen')
             /\ \A r : Has(fullscreen', r) <=> Has(fullscreen, r) \/ r = p
    BY <1>1, <1>6, <1>a, AppendElements DEF AddPort, Attached
<1>7. ASSUME RemovePort(p)
      PROVE  /\ fullscreen' \in Seq(S) /\ NoDuplicates(fullscreen')
             /\ \A r : Has(fullscreen', r) <=> Has(fullscreen, r) /\ r # p
    BY <1>2, <1>7 DEF RemovePort, rest
<1>8. ASSUME SendToFront(p) \/ SendToBack(p), Attached(p)
      PROVE  /\ fullscreen' \in Seq(S) /\ NoDuplicates(fullscreen')
             /\ \A r : Has(fullscreen', r) <=> Has(fullscreen, r)
    <2>1. fullscreen' = Append(rest, p) \/ fullscreen' = InsertAfter(rest, 0, p)
        BY <1>8 DEF SendToFront, SendToBack, rest
    <2>2. \A r : (Has(rest, r) \/ r = p) <=> Has(fullscreen, r)
        BY <1>1, <1>2, <1>8 DEF Attached
    <2> QED
        BY <1>4, <1>5, <2>1, <2>2
<1> QED
    BY <1>6, <1>7, <1>8 DEF S

-----------------------------------------------------------------------------
(* What the steps do *)

\* A key sends an event that says what has become of it.
KeyStep(k) == KeyPressed(k) \/ KeyLet(k) \/ KeyReleased(k) \/ KeyHeld(k)
Tells(k, type, to) ==
    /\ Publish(k, type)
    /\ keys' = [keys EXCEPT ![k] = to]
    /\ IF type = "Press" THEN keys[k] = "up" /\ to # "up"
       ELSE keys[k] # "up" /\ (to = "up" <=> type = "Release")

\* Each of the steps of a key is one of these.
LEMMA KeySteps ==
    ASSUME TypeOK, NEW k \in Keys, KeyStep(k)
    PROVE  /\ presses' \in 0..MaxPresses
           /\ \E type \in InputTypes, to \in {"up", "down", "long", "releasing"} :
                 Tells(k, type, to)
<1>1. /\ keys \in [Keys -> {"up", "down", "long", "releasing"}]
      /\ presses \in 0..MaxPresses /\ MaxPresses \in Nat
    BY InputAssumption DEF TypeOK, InputTypeOK, InputAssumption
<1>2. presses' \in 0..MaxPresses
    BY <1>1 DEF KeyStep, KeyPressed, KeyLet, KeyReleased, KeyHeld
<1>3. CASE KeyPressed(k)
    <2>1. Tells(k, "Press", "down")
        BY <1>3 DEF KeyPressed, Tells
    <2> QED
        BY <1>2, <2>1 DEF InputTypes
<1>4. CASE KeyLet(k)
    <2>1. Tells(k, "Short", "releasing")
        BY <1>4 DEF KeyLet, Tells
    <2> QED
        BY <1>2, <2>1 DEF InputTypes
<1>5. CASE KeyReleased(k)
    <2>1. Tells(k, "Release", "up")
        BY <1>5 DEF KeyReleased, Tells
    <2> QED
        BY <1>2, <2>1 DEF InputTypes
<1>6. CASE KeyHeld(k)
    <2>1. CASE keys[k] = "down"
        <3>1. Tells(k, "Long", "long")
            BY <1>6, <2>1 DEF KeyHeld, Tells
        <3> QED
            BY <1>2, <3>1 DEF InputTypes
    <2>2. CASE keys[k] # "down"
        <3>1. Publish(k, "Repeat") /\ keys[k] = "long" /\ keys' = keys
            BY <1>6, <2>2 DEF KeyHeld
        <3>2. keys' = [keys EXCEPT ![k] = "long"]
            BY <1>1, <3>1
        <3>3. Tells(k, "Repeat", "long")
            BY <3>1, <3>2 DEF Tells
        <3> QED
            BY <1>2, <3>3 DEF InputTypes
    <2> QED
        BY <2>1, <2>2
<1> QED
    BY <1>3, <1>4, <1>5, <1>6 DEF KeyStep

\* The GUI takes an event; the key changes for it in any case, the view port with the
\* first key, and the application's view port gets what is for it.
GuiTypes ==
    [at : {"idle", "delivering"}, event : InputEvents, ongoing : SUBSET Keys,
     port : Ports \union {NoPort}, lockdown : BOOLEAN, direct : BOOLEAN]
PortAfter(e) == IF IsFirstPress(e, gui'.ongoing) THEN TopPort ELSE gui.port

\* gui_input for every event: dropped, drawn directly, for another port, or for the application.
LEMMA GuiInputIs ==
    ASSUME TypeOK, GuiInv, GuiInput, NEW e, e = Head(inputQueue)
    PROVE  /\ gui.at = "idle" /\ inputQueue # <<>> /\ inputQueue' = Tail(inputQueue)
           /\ e \in InputEvents /\ e.key \in Keys
           /\ gui' \in GuiTypes /\ gui'.ongoing = KeysAfter(e, gui.ongoing)
           /\ \/ gui' = gui
              \/ gui'.at = "idle" /\ gui'.port = gui.port /\ gui.port = NoPort
              \/ /\ gui'.at = "idle" /\ gui'.port = PortAfter(e)
                 /\ e.type = "Release" => gui'.port # "app"
              \/ /\ gui'.at = "delivering" /\ gui'.port = PortAfter(e)
                 /\ gui'.port = "app" /\ gui'.event = e
<1>1. /\ gui \in GuiTypes /\ inputQueue \in Seq(InputEvents)
      /\ NoPort \notin Ports
    BY Types DEF GuiTypes
<1>2. gui.at = "idle" /\ inputQueue # <<>> /\ inputQueue' = Tail(inputQueue)
    BY DEF GuiInput
<1>3. e \in InputEvents /\ e = inputQueue[1] /\ 1 \in 1..Len(inputQueue)
    BY <1>1, <1>2
<1>4. e.key \in Keys
    BY <1>3 DEF GuiInv
<1> DEFINE ongoing == KeysAfter(e, gui.ongoing)
           port == IF IsFirstPress(e, ongoing) THEN TopPort ELSE gui.port
           target == Receiver(e, TopPort, port)
           pressed == [gui EXCEPT !.ongoing = ongoing]
<1>5. gui' = IF ~IsComplementary(e, gui.ongoing) THEN gui
             ELSE IF gui.direct /\ gui.port = NoPort THEN pressed
             ELSE IF target # "app" THEN [pressed EXCEPT !.port = port]
             ELSE [pressed EXCEPT !.port = port, !.at = "delivering", !.event = e]
    BY DEF GuiInput
<1>6. ongoing \in SUBSET Keys
    BY <1>1, <1>3, <1>4, KeysAfterIs DEF GuiTypes, Event
<1>7. port \in Ports \union {NoPort}
    BY <1>1, TopIsAttached DEF GuiTypes
<1>8. target = "app" => port = "app"
    BY <1>1 DEF Receiver, Ports
<1>9. e.type = "Release" => target = port
    BY DEF Receiver
<1> HIDE DEF ongoing, port, target
<1>10. pressed \in GuiTypes /\ pressed.ongoing = ongoing
    BY <1>1, <1>6 DEF GuiTypes
<1>11. gui' \in GuiTypes
    BY <1>1, <1>3, <1>5, <1>7, <1>10 DEF GuiTypes
<1>12. CASE ~IsComplementary(e, gui.ongoing)
    <2>1. gui' = gui /\ ongoing = gui.ongoing
        BY <1>3, <1>5, <1>12, DroppedIs DEF ongoing
    <2> QED
        BY <1>2, <1>3, <1>4, <1>11, <2>1 DEF ongoing
<1>13. CASE IsComplementary(e, gui.ongoing) /\ gui.direct /\ gui.port = NoPort
    <2>1. gui' = pressed
        BY <1>5, <1>13
    <2>2. gui'.ongoing = ongoing /\ gui'.at = gui.at /\ gui'.port = gui.port
        BY <1>1, <2>1 DEF GuiTypes
    <2> QED
        BY <1>2, <1>3, <1>4, <1>11, <1>13, <2>2 DEF ongoing
<1>14. CASE IsComplementary(e, gui.ongoing) /\ ~(gui.direct /\ gui.port = NoPort)
    <2>1. gui'.ongoing = ongoing /\ gui'.port = port
        BY <1>1, <1>5, <1>14 DEF GuiTypes
    <2>2. port = PortAfter(e)
        BY <2>1 DEF PortAfter, port
    <2>3. CASE target # "app"
        <3>1. gui'.at = gui.at
            BY <1>1, <1>5, <1>14, <2>3 DEF GuiTypes
        <3>2. e.type = "Release" => gui'.port # "app"
            BY <1>9, <2>1, <2>3
        <3> QED
            BY <1>2, <1>3, <1>4, <1>11, <2>1, <2>2, <3>1, <3>2 DEF ongoing
    <2>4. CASE target = "app"
        <3>1. gui'.at = "delivering" /\ gui'.event = e
            BY <1>1, <1>5, <1>14, <2>4 DEF GuiTypes
        <3> QED
            BY <1>2, <1>3, <1>4, <1>8, <1>11, <2>1, <2>2, <2>4, <3>1 DEF ongoing
    <2> QED
        BY <2>3, <2>4
<1> QED
    BY <1>12, <1>13, <1>14

-----------------------------------------------------------------------------
(* The steps of the application's thread that send no key anywhere.        *)

AppTypes ==
    [at : {"absent", "setup", "loop", "callback", "back", "navigation",
           "drain", "teardown", "crashed"},
     call : [op : {"none", "rotate", "remove"}, view : Views \union {NoView}]]
DispatcherTypes ==
    [views : SUBSET Views, current : Views \union {NoView}, ongoing : SUBSET InputKeys,
     ongoingView : Views \union {NoView}, stop : BOOLEAN]
CallPlaces == {"loop", "callback", "back", "navigation"}
Ending == {"drain", "teardown", "crashed"}

Counters ==
    /\ others \in 0..MaxOthers /\ events \in 0..QueueSize
    /\ budget \in [calls : 0..MaxCalls, runs : 0..MaxRuns]

\* Where the thread may go, and what it may wait for then.
AppMoves ==
    /\ app' \in AppTypes
    /\ \/ app'.at = app.at
       \/ app.at \notin {"absent"} \union Ending /\ app'.at \notin {"absent", "setup"}
       \/ app.at = "drain" /\ app'.at = "teardown"
    /\ \/ app'.call = NoCall
       \/ app'.call.op # "none" /\ app'.call.view \in Views /\ app'.at \in CallPlaces
       \/ app' = app

\* The dispatcher may get another current view, and be stopped.
DispatcherMoves ==
    /\ dispatcher' \in DispatcherTypes
    /\ dispatcher'.views = dispatcher.views
    /\ dispatcher'.ongoing = dispatcher.ongoing
    /\ dispatcher'.ongoingView = dispatcher.ongoingView
    /\ dispatcher'.current \in dispatcher.views \union {NoView}

AppStep ==
    /\ UNCHANGED <<keys, inputQueue, presses, gui, fullscreen, orientation, queue, told, spoiled>>
    /\ enabled' \in BOOLEAN
    /\ Counters'
    /\ AppMoves
    /\ DispatcherMoves

\* view_dispatcher_set_current_view
LEMMA SetCurrentViewIs ==
    ASSUME TypeOK, NEW v \in dispatcher.views \union {NoView}, NEW place \in CallPlaces,
           app.at \notin {"absent"} \union Ending, SetCurrentView(v, place)
    PROVE  DispatcherMoves /\ AppMoves /\ enabled' \in BOOLEAN
<1>1. dispatcher \in DispatcherTypes /\ app \in AppTypes /\ NoView \notin Views
    BY Types DEF DispatcherTypes, AppTypes
<1>2. enabled \in BOOLEAN
    BY DEF TypeOK, GuiTypeOK
<1>3. v \in Views \union {NoView}
    BY <1>1 DEF DispatcherTypes
<1>4. DispatcherMoves
    <2>1. \/ dispatcher' = [dispatcher EXCEPT !.current = NoView, !.stop = TRUE] /\ v = NoView
          \/ dispatcher' = [dispatcher EXCEPT !.current = v]
        BY DEF SetCurrentView
    <2> QED
        BY <1>1, <1>3, <2>1 DEF DispatcherMoves, DispatcherTypes
<1>5. enabled' \in BOOLEAN
    BY <1>2 DEF SetCurrentView
<1>6. AppMoves
    <2>1. \/ app' = [at |-> place, call |-> NoCall]
          \/ app' = [at |-> place, call |-> [op |-> "rotate", view |-> v]] /\ v # NoView
        BY DEF SetCurrentView, AppGoes
    <2> QED
        BY <1>1, <1>3, <2>1 DEF AppMoves, AppTypes, CallPlaces, NoCall, Ending
<1> QED
    BY <1>4, <1>5, <1>6

\* The calls that only switch views, stop the dispatcher or run callbacks are such steps.
LEMMA AppSteps ==
    ASSUME TypeOK, Control, ViewLives,
           \/ Start \/ StopDispatcher \/ CodeReturns \/ HandleEvent \/ RunStops \/ DrainEnds
           \/ SendCustomEvent
           \/ \E v \in Views \union {NoView} : SwitchToView(v)
           \/ \E v \in Views : CallRemoveView(v)
    PROVE  AppStep
<1>1. dispatcher \in DispatcherTypes /\ app \in AppTypes /\ NoView \notin Views
    BY Types DEF DispatcherTypes, AppTypes
<1>2. enabled \in BOOLEAN /\ Counters
    BY DEF TypeOK, GuiTypeOK, Counters
<1>3. MaxOthers \in Nat /\ QueueSize \in Nat /\ MaxCalls \in Nat /\ MaxRuns \in Nat
    BY GuiAssumption, ViewDispatcherAssumption DEF GuiAssumption, ViewDispatcherAssumption
<1>4. dispatcher.current \in dispatcher.views \union {NoView}
    BY DEF ViewLives
<1>5. MayCall => budget' \in [calls : 0..MaxCalls, runs : 0..MaxRuns]
    BY <1>2, <1>3 DEF MayCall, Counters
<1>6. \A place : app' = [at |-> place, call |-> NoCall]
                 /\ place \in CallPlaces \union {"crashed"}
                 /\ app.at \notin {"absent"} \union Ending => AppMoves
    BY <1>1 DEF AppMoves, AppTypes, CallPlaces, NoCall, Ending
<1>7. app' = app => AppMoves
    BY <1>1 DEF AppMoves
<1>8. dispatcher' = dispatcher => DispatcherMoves
    BY <1>1, <1>4 DEF DispatcherMoves
<1>9. \A b \in BOOLEAN : dispatcher' = [dispatcher EXCEPT !.stop = b] => DispatcherMoves
    BY <1>1, <1>4 DEF DispatcherMoves, DispatcherTypes
<1>10. UNCHANGED <<others, events, budget>> => Counters'
    BY <1>2 DEF Counters
<1>11. UNCHANGED <<others, events>> /\ MayCall => Counters'
    BY <1>2, <1>5 DEF Counters
<1>12. CASE Start
    <2>1. FirstView \in dispatcher.views
        BY <1>12, Types DEF Start, Control
    <2>2. app.at \notin {"absent"} \union Ending /\ "loop" \in CallPlaces
        BY <1>12 DEF Start, Ending, CallPlaces
    <2>3. DispatcherMoves /\ AppMoves /\ enabled' \in BOOLEAN
        BY <1>12, <2>1, <2>2, SetCurrentViewIs DEF Start
    <2> QED
        BY <1>10, <1>12, <2>3 DEF Start, AppStep, inputVars
<1>13. CASE StopDispatcher
    <2>1. UNCHANGED <<others, events>> /\ MayCall
        BY <1>13 DEF StopDispatcher, guiVars
    <2>2. DispatcherMoves
        BY <1>9, <1>13 DEF StopDispatcher
    <2> QED
        BY <1>2, <1>7, <1>11, <1>13, <2>1, <2>2 DEF StopDispatcher, AppStep, inputVars, guiVars
<1>14. CASE CodeReturns
    <2>1. Counters' /\ UNCHANGED <<keys, inputQueue, presses, gui, fullscreen, orientation, queue, told, spoiled>>
        BY <1>10, <1>14 DEF CodeReturns, inputVars
    <2>2. CASE AppGoes("loop") /\ app.at \in {"setup", "callback", "back", "navigation"}
               /\ (UNCHANGED dispatcher \/ dispatcher' = [dispatcher EXCEPT !.stop = TRUE])
               /\ UNCHANGED enabled
        <3>1. AppMoves
            BY <1>6, <2>2 DEF AppGoes, CallPlaces, Ending
        <3> QED
            BY <1>2, <1>8, <1>9, <2>1, <2>2, <3>1 DEF AppStep
    <2>3. CASE app.at = "back" /\ AppGoes("crashed") /\ UNCHANGED <<dispatcher, enabled>>
        <3>1. AppMoves
            BY <1>6, <2>3 DEF AppGoes, Ending
        <3> QED
            BY <1>2, <1>8, <2>1, <2>3, <3>1 DEF AppStep
    <2>4. CASE app.at = "back" /\ \E v \in dispatcher.views \union {NoView} : SetCurrentView(v, "loop")
        <3>1. app.at \notin {"absent"} \union Ending /\ "loop" \in CallPlaces
            BY <2>4 DEF Ending, CallPlaces
        <3>2. DispatcherMoves /\ AppMoves /\ enabled' \in BOOLEAN
            BY <2>4, <3>1, SetCurrentViewIs
        <3> QED
            BY <2>1, <3>2 DEF AppStep
    <2>5. CASE app.at = "back" /\ AppGoes("navigation") /\ UNCHANGED <<dispatcher, enabled>>
        <3>1. AppMoves
            BY <1>6, <2>5 DEF AppGoes, Ending, CallPlaces
        <3> QED
            BY <1>2, <1>8, <2>1, <2>5, <3>1 DEF AppStep
    <2> QED
        BY <1>14, <2>2, <2>3, <2>4, <2>5 DEF CodeReturns
<1>15. CASE HandleEvent
    <2>1. Counters'
        BY <1>2, <1>3, <1>15 DEF HandleEvent, Counters, guiVars
    <2>2. AppMoves
        BY <1>6, <1>15 DEF HandleEvent, InLoop, AppGoes, Ending, CallPlaces
    <2> QED
        BY <1>2, <1>8, <1>15, <2>1, <2>2 DEF HandleEvent, AppStep, inputVars, guiVars
<1>16. CASE RunStops
    <2>1. AppMoves
        BY <1>1, <1>16 DEF RunStops, InLoop, AppGoes, AppMoves, AppTypes, NoCall, Ending
    <2>2. DispatcherMoves
        BY <1>9, <1>16 DEF RunStops
    <2> QED
        BY <1>2, <1>10, <1>16, <2>1, <2>2 DEF RunStops, AppStep, inputVars, guiVars
<1>17. CASE DrainEnds
    <2>1. AppMoves
        BY <1>1, <1>17 DEF DrainEnds, AppGoes, AppMoves, AppTypes, NoCall
    <2> QED
        BY <1>2, <1>8, <1>10, <1>17, <2>1 DEF DrainEnds, AppStep, inputVars, guiVars
<1>18. CASE SendCustomEvent
    <2>1. Counters'
        BY <1>2, <1>3, <1>18 DEF SendCustomEvent, Counters
    <2> QED
        BY <1>2, <1>7, <1>8, <1>18, <2>1 DEF SendCustomEvent, AppStep, inputVars
<1>19. ASSUME NEW v \in Views \union {NoView}, SwitchToView(v)
       PROVE  AppStep
    <2>1. UNCHANGED <<others, events>> /\ MayCall
        BY <1>19 DEF SwitchToView
    <2>2. app.at \notin {"absent"} \union Ending /\ app.at \in CallPlaces
        BY <1>19 DEF SwitchToView, MayCall, Ending, CallPlaces
    <2>3. DispatcherMoves /\ AppMoves /\ enabled' \in BOOLEAN
        BY <1>19, <2>2, SetCurrentViewIs DEF SwitchToView
    <2> QED
        BY <1>11, <1>19, <2>1, <2>3 DEF SwitchToView, AppStep, inputVars
<1>20. ASSUME NEW v \in Views, CallRemoveView(v)
       PROVE  AppStep
    <2>1. UNCHANGED <<others, events>> /\ MayCall
        BY <1>20 DEF CallRemoveView, guiVars
    <2>2. AppMoves
        BY <1>1, <1>20 DEF CallRemoveView, MayCall, AppCalls, AppMoves, AppTypes, CallPlaces
    <2> QED
        BY <1>2, <1>8, <1>11, <1>20, <2>1, <2>2 DEF CallRemoveView, AppStep, inputVars, guiVars
<1> QED
    BY <1>12, <1>13, <1>14, <1>15, <1>16, <1>17, <1>18, <1>19, <1>20

-----------------------------------------------------------------------------
(* What preserves the parts of the invariant                               *)

\* The types after a step, part by part.
LEMMA TypesAfter ==
    ASSUME InputTypeOK', gui' \in GuiTypes,
           fullscreen' \in Seq({"app", "dialog"}), NoDuplicates(fullscreen'),
           enabled' \in BOOLEAN, orientation' \in Orientations, Counters',
           app' \in AppTypes, queue' \in Seq(InputEvents), Len(queue') <= QueueSize,
           dispatcher' \in DispatcherTypes, told' \in [Views -> SUBSET InputKeys],
           spoiled' \in BOOLEAN
    PROVE  TypeOK'
BY DEF TypeOK, GuiTypeOK, GuiTypes, Counters, AppTypes, DispatcherTypes

\* The types before a step, part by part.
LEMMA TypesBefore ==
    ASSUME TypeOK
    PROVE  /\ InputTypeOK /\ gui \in GuiTypes
           /\ fullscreen \in Seq({"app", "dialog"}) /\ NoDuplicates(fullscreen)
           /\ enabled \in BOOLEAN /\ orientation \in Orientations /\ Counters
           /\ app \in AppTypes /\ queue \in Seq(InputEvents) /\ Len(queue) <= QueueSize
           /\ dispatcher \in DispatcherTypes /\ told \in [Views -> SUBSET InputKeys]
           /\ spoiled \in BOOLEAN
BY DEF TypeOK, GuiTypeOK, GuiTypes, Counters, AppTypes, DispatcherTypes

\* What the GUI believes of the keys changes only with the keys and its queue.
LEMMA SameInput ==
    ASSUME UNCHANGED <<keys, inputQueue, presses>>
    PROVE  /\ InputTypeOK => InputTypeOK'
           /\ gui'.ongoing = gui.ongoing /\ GuiInv => GuiInv'
<1>1. InputTypeOK => InputTypeOK'
    BY DEF InputTypeOK
<1>2. ASSUME gui'.ongoing = gui.ongoing, GuiInv
      PROVE  GuiInv'
    BY <1>2 DEF GuiInv
<1> QED
    BY <1>1, <1>2

\* What the GUI has sent, and what the dispatcher believes, change only with their parts.
LEMMA SameDispatcher ==
    ASSUME DispatcherInv,
           UNCHANGED <<queue, spoiled>>, dispatcher'.ongoing = dispatcher.ongoing,
           \A d \in InputKeys : SentToApp(d) => SentToApp(d)'
    PROVE  DispatcherInv'
BY DEF DispatcherInv

\* What the GUI has sent changes only with the GUI and the orientation of the port.
LEMMA SameSent ==
    ASSUME UNCHANGED <<gui, orientation>>, NEW d
    PROVE  SentToApp(d) => SentToApp(d)'
BY DEF SentToApp

\* What the views were told changes only when they are told, or removed.
LEMMA SameTold ==
    ASSUME ToldInv, UNCHANGED <<told, spoiled>>,
           dispatcher'.ongoing = dispatcher.ongoing,
           dispatcher'.ongoingView = dispatcher.ongoingView,
           app'.at \notin Ending => app.at \notin Ending
    PROVE  ToldInv'
BY DEF ToldInv, Ending

\* The steps of the application's thread that only move it.
LEMMA AppStepInv ==
    ASSUME DispatchInv, AppStep
    PROVE  DispatchInv'
<1> USE DEF AppStep
<1>a. UNCHANGED <<keys, inputQueue, presses, gui, fullscreen, orientation, queue, told, spoiled>>
    OBVIOUS
<1>b. TypeOK /\ Control /\ PortLives /\ ViewLives /\ GuiInv /\ DispatcherInv /\ ToldInv
    BY DEF DispatchInv
<1>c. InputTypeOK' /\ GuiInv'
    BY <1>a, <1>b, SameInput, TypesBefore
<1>1. TypeOK'
    BY <1>a, <1>b, <1>c, TypesBefore, TypesAfter DEF AppMoves, DispatcherMoves
<1>2. Control'
    <2>1. app \in AppTypes
        BY <1>b, TypesBefore
    <2>2. (app'.at = "absent" <=> app.at = "absent") /\ (app'.at = "setup" => app.at = "setup")
        BY DEF AppMoves
    <2>3. /\ app'.call.op = "none" => app'.call = NoCall
          /\ app'.call.op # "none" => app'.call.view \in Views /\ app'.at \in CallPlaces
        BY <1>b, <2>1 DEF AppMoves, Control, NoCall, CallPlaces
    <2>4. Attached("app")' <=> Attached("app")
        BY <1>a DEF Attached
    <2> HIDE DEF AppStep
    <2> QED
        BY <1>a, <1>b, <2>2, <2>3, <2>4 DEF AppStep, DispatcherMoves, Control, CallPlaces
<1>3. PortLives'
    BY <1>a, <1>b DEF PortLives, Attached
<1>4. ViewLives'
    BY <1>b DEF ViewLives, DispatcherMoves
<1>5. DispatcherInv'
    <2>1. dispatcher'.ongoing = dispatcher.ongoing
        BY DEF DispatcherMoves
    <2> HIDE DEF AppStep
    <2> QED
        BY <1>a, <1>b, <2>1, SameDispatcher, SameSent
<1>6. ToldInv'
    <2>1. dispatcher'.ongoing = dispatcher.ongoing /\ dispatcher'.ongoingView = dispatcher.ongoingView
        BY DEF DispatcherMoves
    <2>2. app'.at \notin Ending => app.at \notin Ending
        BY DEF AppMoves, Ending
    <2> HIDE DEF AppStep
    <2> QED
        BY <1>a, <1>b, <2>1, <2>2, SameTold
<1> QED
    BY <1>c, <1>1, <1>2, <1>3, <1>4, <1>5, <1>6 DEF DispatchInv

-----------------------------------------------------------------------------
(* The steps of the keys and of the GUI's thread                           *)

\* The input thread or a key's timer sends an event.
LEMMA KeyStepInv ==
    ASSUME DispatchInv, NEW k \in Keys, KeyStep(k), UNCHANGED <<guiVars, dispatcherVars>>
    PROVE  DispatchInv'
<1>a. TypeOK /\ Control /\ PortLives /\ ViewLives /\ GuiInv /\ DispatcherInv /\ ToldInv
    BY DEF DispatchInv
<1>b. UNCHANGED <<gui, fullscreen, enabled, orientation, others, app, queue, events, dispatcher,
                  told, spoiled, budget>>
    BY DEF guiVars, dispatcherVars
<1>1. presses' \in 0..MaxPresses
    BY <1>a, KeySteps
<1>2. PICK type \in InputTypes, to \in {"up", "down", "long", "releasing"} : Tells(k, type, to)
    BY <1>a, KeySteps
<1> DEFINE e == Event(k, type)
<1>3. /\ keys \in [Keys -> {"up", "down", "long", "releasing"}]
      /\ inputQueue \in Seq(InputEvents) /\ k \in InputKeys
    BY <1>a, Types
<1>4. e \in InputEvents /\ e.key = k /\ e.type = type
    BY <1>3 DEF Event, InputEvents
<1>5. inputQueue' = Append(inputQueue, e) /\ Len(inputQueue) < GuiQueueSize
    BY <1>2 DEF Tells, Publish
<1>6. /\ keys' \in [Keys -> {"up", "down", "long", "releasing"}] /\ keys'[k] = to
      /\ \A l \in Keys : l # k => keys'[l] = keys[l]
    BY <1>2, <1>3 DEF Tells
<1>7. InputTypeOK'
    <2>1. GuiQueueSize \in Nat
        BY InputAssumption DEF InputAssumption
    <2> QED
        BY <1>1, <1>3, <1>4, <1>5, <1>6, <2>1 DEF InputTypeOK
<1>8. GuiInv'
    <2>1. \A l : \A t : e = Event(l, t) <=> l = k /\ t = type
        BY DEF Event
    <2> HIDE DEF e
    <2>2. \A i \in 1..Len(inputQueue') : inputQueue'[i].key \in Keys
        BY <1>3, <1>4, <1>5, <1>a DEF GuiInv
    <2>3. \A l \in Keys : Pressed(inputQueue', gui.ongoing, l, Len(inputQueue')) <=>
                              \/ e = Event(l, "Press")
                              \/ e # Event(l, "Release") /\ keys[l] # "up"
        BY <1>3, <1>4, <1>5, <1>a, PressedAppend DEF GuiInv
    <2>4. \A l \in Keys : Pressed(inputQueue', gui.ongoing, l, Len(inputQueue')) <=>
                              keys'[l] # "up"
        <3> SUFFICES ASSUME NEW l \in Keys
                     PROVE  Pressed(inputQueue', gui.ongoing, l, Len(inputQueue')) <=>
                              keys'[l] # "up"
            OBVIOUS
        <3>1. CASE l # k
            BY <1>6, <2>1, <2>3, <3>1
        <3>2. CASE l = k
            BY <1>2, <1>6, <2>1, <2>3, <3>2 DEF Tells
        <3> QED
            BY <3>1, <3>2
    <2>5. e.type = "Press" => ~Pressed(inputQueue, gui.ongoing, e.key, Len(inputQueue))
        BY <1>2, <1>4, <1>a DEF GuiInv, Tells
    <2>6. Proper(inputQueue', gui.ongoing)
        BY <1>3, <1>4, <1>5, <1>a, <2>5, PressedAppend DEF GuiInv
    <2> QED
        BY <1>b, <2>2, <2>4, <2>6 DEF GuiInv
<1>9. TypeOK'
    <2>1. Counters /\ Counters'
        BY <1>a, <1>b, TypesBefore DEF Counters
    <2> QED
        BY <1>a, <1>b, <1>7, <2>1, TypesBefore, TypesAfter
<1>10. Control' /\ PortLives' /\ ViewLives'
    BY <1>a, <1>b DEF Control, PortLives, ViewLives, Attached
<1>11. DispatcherInv' /\ ToldInv'
    BY <1>a, <1>b, SameDispatcher, SameSent, SameTold
<1> QED
    BY <1>8, <1>9, <1>10, <1>11 DEF DispatchInv

\* gui_input takes an event.  When it chooses the view port for the keys anew no key is
\* pressed, so nothing that an application was sent is forgotten.
LEMMA GuiInputInv ==
    ASSUME DispatchInv, GuiInput, UNCHANGED dispatcherVars
    PROVE  DispatchInv'
<1>a. TypeOK /\ Control /\ PortLives /\ ViewLives /\ GuiInv /\ DispatcherInv /\ ToldInv
    BY DEF DispatchInv
<1>b. UNCHANGED <<keys, presses, fullscreen, enabled, orientation, others, app, queue, events,
                  dispatcher, told, spoiled, budget>>
    BY DEF GuiInput, dispatcherVars
<1> DEFINE e == Head(inputQueue)
<1>1. /\ gui.at = "idle" /\ inputQueue # <<>> /\ inputQueue' = Tail(inputQueue)
      /\ e \in InputEvents /\ e.key \in Keys
      /\ gui' \in GuiTypes /\ gui'.ongoing = KeysAfter(e, gui.ongoing)
      /\ \/ gui' = gui
         \/ gui'.at = "idle" /\ gui'.port = gui.port /\ gui.port = NoPort
         \/ /\ gui'.at = "idle" /\ gui'.port = PortAfter(e)
            /\ e.type = "Release" => gui'.port # "app"
         \/ /\ gui'.at = "delivering" /\ gui'.port = PortAfter(e)
            /\ gui'.port = "app" /\ gui'.event = e
    BY <1>a, GuiInputIs
<1>2. inputQueue \in Seq(InputEvents) /\ gui \in GuiTypes /\ NoPort \notin Ports
    BY <1>a, Types DEF GuiTypes
<1>3. InputTypeOK'
    <2>1. GuiQueueSize \in Nat /\ Len(inputQueue) <= GuiQueueSize /\ InputTypeOK
        BY <1>a, InputAssumption DEF InputAssumption, TypeOK, InputTypeOK
    <2>2. Tail(inputQueue) \in Seq(InputEvents) /\ Len(Tail(inputQueue)) <= GuiQueueSize
        BY <1>1, <1>2, <2>1
    <2> QED
        BY <1>1, <1>b, <2>1, <2>2 DEF InputTypeOK
<1>4. TypeOK'
    <2>1. Counters /\ Counters'
        BY <1>a, <1>b, TypesBefore DEF Counters
    <2> QED
        BY <1>a, <1>b, <1>1, <1>3, <2>1, TypesBefore, TypesAfter
<1> HIDE DEF e
<1>5. /\ \A k : Pressed(Tail(inputQueue), KeysAfter(e, gui.ongoing), k, Len(Tail(inputQueue)))
                  <=> Pressed(inputQueue, gui.ongoing, k, Len(inputQueue))
      /\ Proper(Tail(inputQueue), KeysAfter(e, gui.ongoing))
      /\ e.type = "Press" => e.key \notin gui.ongoing
    BY <1>a, <1>1, <1>2, PressedTail DEF GuiInv, e
<1>6. GuiInv'
    <2>1. \A i \in 1..Len(Tail(inputQueue)) : Tail(inputQueue)[i].key \in Keys
        BY <1>a, <1>1, <1>2 DEF GuiInv
    <2> QED
        BY <1>a, <1>b, <1>1, <1>5, <2>1 DEF GuiInv
<1>7. e = Event(e.key, e.type)
    BY <1>1 DEF Event, InputEvents
<1>8. \A k : k \in gui'.ongoing <=>
                e = Event(k, "Press") \/ (k \in gui.ongoing /\ e # Event(k, "Release"))
    BY <1>1, KeysAfterIs
<1>9. IsFirstPress(e, gui'.ongoing) => gui.ongoing = {}
    <2> SUFFICES ASSUME IsFirstPress(e, gui'.ongoing), NEW k \in gui.ongoing
                 PROVE  FALSE
        OBVIOUS
    <2>1. e.type = "Press" /\ gui'.ongoing \subseteq {e.key}
        BY DEF IsFirstPress
    <2>2. e # Event(k, "Release")
        BY <2>1 DEF Event
    <2>3. k = e.key
        BY <1>8, <2>1, <2>2
    <2> QED
        BY <1>5, <2>1, <2>3
<1>10. ASSUME NEW d \in InputKeys, SentToApp(d)
       PROVE  SentToApp(d)'
    <2>1. PICK k \in gui.ongoing : MapKey(k, orientation) = d
        BY <1>1, <1>10 DEF SentToApp
    <2>2. gui.port = "app" /\ gui.ongoing # {} /\ gui.port # NoPort
        BY <1>2, <1>10, <2>1 DEF SentToApp, Ports
    <2>3. PortAfter(e) = "app"
        BY <1>9, <2>2 DEF PortAfter
    <2>4. CASE gui' = gui
        BY <1>b, <1>10, <2>4, SameSent
    <2>5. CASE gui'.at = "idle" /\ gui'.port = PortAfter(e) /\ (e.type = "Release" => gui'.port # "app")
        <3>1. e # Event(k, "Release")
            BY <2>3, <2>5 DEF Event
        <3>2. k \in gui'.ongoing
            BY <1>8, <3>1
        <3> QED
            BY <1>b, <2>1, <2>3, <2>5, <3>2 DEF SentToApp
    <2>6. CASE gui'.at = "delivering" /\ gui'.port = PortAfter(e) /\ gui'.event = e
        <3>1. CASE e = Event(k, "Release")
            <4>1. e.type = "Release" /\ e.key = k
                BY <3>1 DEF Event
            <4> QED
                BY <1>b, <2>1, <2>3, <2>6, <4>1 DEF SentToApp
        <3>2. CASE e # Event(k, "Release")
            <4>1. k \in gui'.ongoing
                BY <1>8, <3>2
            <4>2. e # Event(k, "Press")
                BY <1>5 DEF Event
            <4> QED
                BY <1>b, <2>1, <2>3, <2>6, <4>1, <4>2 DEF SentToApp
        <3> QED
            BY <3>1, <3>2
    <2> QED
        BY <1>1, <2>2, <2>4, <2>5, <2>6
<1>11. DispatcherInv' /\ ToldInv'
    BY <1>a, <1>b, <1>10, SameDispatcher, SameTold
<1>12. PortLives'
    <2>1. Attached(TopPort)
        BY <1>a, TopIsAttached
    <2>2. \A p : Attached(p)' <=> Attached(p)
        BY <1>b DEF Attached
    <2>3. PortAfter(e) # NoPort => Attached(PortAfter(e))
        BY <1>a, <2>1 DEF PortAfter, PortLives
    <2>4. "app" # NoPort
        BY <1>2 DEF Ports
    <2> QED
        BY <1>a, <1>1, <2>2, <2>3, <2>4 DEF PortLives
<1>13. Control' /\ ViewLives'
    <2>1. gui'.at = "delivering" => gui'.port = "app" /\ gui'.event = e
        BY <1>1
    <2>2. e.type = "Press" => e.key \in gui'.ongoing
        BY <1>7, <1>8
    <2>3. e.type = "Release" => e.key \notin gui'.ongoing
        BY <1>7, <1>8 DEF Event
    <2> QED
        BY <1>a, <1>b, <2>1, <2>2, <2>3 DEF Control, ViewLives, Attached
<1> QED
    BY <1>4, <1>6, <1>11, <1>12, <1>13 DEF DispatchInv

\* view_dispatcher_input_callback puts an event into the dispatcher's queue.
LEMMA InputCallbackInv ==
    ASSUME DispatchInv, InputCallback
    PROVE  DispatchInv'
<1>a. TypeOK /\ Control /\ PortLives /\ ViewLives /\ GuiInv /\ DispatcherInv /\ ToldInv
    BY DEF DispatchInv
<1>b. UNCHANGED <<keys, inputQueue, presses, fullscreen, enabled, orientation, others, app,
                  events, dispatcher, told, spoiled, budget>>
    BY DEF InputCallback, inputVars
<1> DEFINE e == gui.event
           m == MapInput(e, orientation)
<1>1. gui \in GuiTypes /\ orientation \in Orientations /\ queue \in Seq(InputEvents)
      /\ Keys \subseteq InputKeys
    BY <1>a, Types DEF GuiTypes
<1>2. e \in InputEvents
    BY <1>1 DEF GuiTypes
<1>3. m \in InputEvents /\ m.type = e.type /\ m.key = MapKey(e.key, orientation)
    BY <1>1, <1>2, MappedEvent
<1>4. gui.at = "delivering" /\ Len(queue) < QueueSize /\ queue' = Append(queue, m)
    BY DEF InputCallback
<1>5. gui' \in GuiTypes /\ gui'.at = "idle" /\ gui'.port = gui.port /\ gui'.ongoing = gui.ongoing
    <2>1. NoEvent \in InputEvents
        BY DEF NoEvent, Event, InputEvents, InputKeys, InputTypes
    <2> QED
        BY <1>1, <2>1 DEF InputCallback, GuiReturns, GuiTypes
<1>6. /\ gui.port = "app"
      /\ e.type = "Press" => e.key \in gui.ongoing
      /\ e.type = "Release" => e.key \notin gui.ongoing
    BY <1>a, <1>4 DEF Control
<1>7. e = Event(e.key, e.type) /\ m = Event(m.key, m.type)
    BY <1>2, <1>3 DEF Event, InputEvents
<1> HIDE DEF m, e
<1>8. InputTypeOK' /\ GuiInv'
    BY <1>a, <1>b, <1>5, SameInput, TypesBefore
<1>9. TypeOK'
    <2>1. QueueSize \in Nat
        BY ViewDispatcherAssumption DEF ViewDispatcherAssumption
    <2>2. queue' \in Seq(InputEvents) /\ Len(queue') <= QueueSize
        BY <1>1, <1>3, <1>4, <2>1
    <2>3. Counters /\ Counters'
        BY <1>a, <1>b, TypesBefore DEF Counters
    <2> QED
        BY <1>a, <1>b, <1>5, <1>8, <2>2, <2>3, TypesBefore, TypesAfter
<1>10. Control' /\ PortLives' /\ ViewLives'
    BY <1>a, <1>b, <1>5 DEF Control, PortLives, ViewLives, Attached
<1>11. ToldInv'
    BY <1>a, <1>b, SameTold
<1>12. DispatcherInv'
    <2> SUFFICES ASSUME ~spoiled
                 PROVE  /\ \A d \in InputKeys :
                              Pressed(queue', dispatcher.ongoing, d, Len(queue')) => SentToApp(d)'
                        /\ Proper(queue', dispatcher.ongoing)
        BY <1>b DEF DispatcherInv
    <2>1. /\ \A d \in InputKeys :
                Pressed(queue, dispatcher.ongoing, d, Len(queue)) => SentToApp(d)
          /\ Proper(queue, dispatcher.ongoing)
        BY <1>a DEF DispatcherInv
    <2>2. \A d : Pressed(queue', dispatcher.ongoing, d, Len(queue')) <=>
                    \/ m = Event(d, "Press")
                    \/ m # Event(d, "Release") /\ Pressed(queue, dispatcher.ongoing, d, Len(queue))
        BY <1>1, <1>3, <1>4, PressedAppend
    <2>3. ASSUME NEW d \in InputKeys, Pressed(queue', dispatcher.ongoing, d, Len(queue'))
          PROVE  SentToApp(d)'
        <3>1. CASE m = Event(d, "Press")
            <4>1. e.type = "Press" /\ MapKey(e.key, orientation) = d
                BY <1>3, <3>1 DEF Event
            <4> QED
                BY <1>b, <1>5, <1>6, <4>1 DEF SentToApp
        <3>2. CASE m # Event(d, "Press")
            <4>1. m # Event(d, "Release") /\ SentToApp(d)
                BY <2>1, <2>2, <2>3, <3>2
            <4>2. ~(e.type = "Release" /\ MapKey(e.key, orientation) = d)
                BY <1>3, <1>7, <4>1
            <4>3. \E k \in gui.ongoing : MapKey(k, orientation) = d
                BY <4>1, <4>2 DEF SentToApp, e
            <4> QED
                BY <1>b, <1>5, <1>6, <4>3 DEF SentToApp
        <3> QED
            BY <3>1, <3>2
    <2>4. ASSUME m.type = "Press", Pressed(queue, dispatcher.ongoing, m.key, Len(queue))
          PROVE  FALSE
        <3>1. m.key \in InputKeys
            BY <1>3 DEF InputEvents
        <3>2. SentToApp(m.key)
            BY <2>1, <2>4, <3>1
        <3>3. e.type = "Press" /\ e.type # "Release"
            BY <1>3, <2>4
        <3>4. PICK k \in gui.ongoing :
                 MapKey(k, orientation) = m.key /\ ~(gui.at = "delivering" /\ e = Event(k, "Press"))
            BY <3>2, <3>3 DEF SentToApp, e
        <3>5. k \in InputKeys /\ e.key \in InputKeys
            BY <1>1, <1>2 DEF GuiTypes, InputEvents
        <3>6. k = e.key
            BY <1>1, <1>3, <3>4, <3>5, MappedKeys
        <3> QED
            BY <1>4, <1>7, <3>3, <3>4, <3>6
    <2>5. Proper(queue', dispatcher.ongoing)
        BY <1>1, <1>3, <1>4, <2>1, <2>4, PressedAppend
    <2> QED
        BY <2>3, <2>5
<1> QED
    BY <1>8, <1>9, <1>10, <1>11, <1>12 DEF DispatchInv

-----------------------------------------------------------------------------
(* The steps that change the layers                                        *)

\* A dispatcher is attached to the GUI.
LEMMA AttachInv ==
    ASSUME DispatchInv, Attach
    PROVE  DispatchInv'
<1>a. TypeOK /\ Control /\ PortLives /\ ViewLives /\ GuiInv /\ DispatcherInv /\ ToldInv
    BY DEF DispatchInv
<1>b. UNCHANGED <<keys, inputQueue, presses, gui, enabled, orientation, others, queue, events,
                  told, spoiled>>
    BY DEF Attach, inputVars
<1>1. dispatcher \in DispatcherTypes /\ app \in AppTypes /\ Counters
    BY <1>a, TypesBefore
<1>2. /\ fullscreen' \in Seq({"app", "dialog"}) /\ NoDuplicates(fullscreen')
      /\ \A r : Has(fullscreen', r) <=> Has(fullscreen, r) \/ r = "app"
    BY <1>a, LayerSteps DEF Attach, Control
<1>3. app' = [at |-> "setup", call |-> NoCall] /\ app' \in AppTypes
    BY DEF Attach, AppGoes, AppTypes, NoCall
<1>4. /\ dispatcher' \in DispatcherTypes /\ dispatcher'.views = Views
      /\ dispatcher'.ongoing = dispatcher.ongoing
      /\ dispatcher'.ongoingView = dispatcher.ongoingView
      /\ dispatcher'.current = dispatcher.current
    BY <1>1 DEF Attach, DispatcherTypes
<1>5. InputTypeOK' /\ GuiInv'
    BY <1>a, <1>b, SameInput, TypesBefore
<1>6. TypeOK'
    <2>1. MaxCalls \in Nat /\ MaxRuns \in Nat
        BY ViewDispatcherAssumption DEF ViewDispatcherAssumption
    <2>2. Counters'
        BY <1>1, <1>b, <2>1 DEF Attach, Counters
    <2> QED
        BY <1>a, <1>b, <1>2, <1>3, <1>4, <1>5, <2>2, TypesBefore, TypesAfter
<1>7. Control'
    <2>1. Attached("app")'
        BY <1>2 DEF Attached
    <2>2. app'.at = "setup" /\ app'.call.op = "none" /\ app'.call = NoCall
        BY <1>3 DEF NoCall
    <2> QED
        BY <1>a, <1>b, <1>4, <2>1, <2>2 DEF Control
<1>8. PortLives'
    BY <1>a, <1>b, <1>2 DEF PortLives, Attached
<1>9. ViewLives'
    BY <1>1, <1>4 DEF ViewLives, DispatcherTypes
<1>10. DispatcherInv'
    BY <1>a, <1>b, <1>4, SameDispatcher, SameSent
<1>11. ToldInv'
    BY <1>a, <1>b, <1>4, SameTold DEF Attach, Ending
<1> QED
    BY <1>5, <1>6, <1>7, <1>8, <1>9, <1>10, <1>11 DEF DispatchInv

\* view_dispatcher_send_to_front and _send_to_back
LEMMA SendPortInv ==
    ASSUME DispatchInv, SendPort
    PROVE  DispatchInv'
<1>a. TypeOK /\ Control /\ PortLives /\ ViewLives /\ GuiInv /\ DispatcherInv /\ ToldInv
    BY DEF DispatchInv
<1>b. UNCHANGED <<keys, inputQueue, presses, gui, enabled, orientation, others, app, queue, events,
                  dispatcher, told, spoiled>>
    BY DEF SendPort, inputVars
<1>1. Attached("app")
    BY <1>a DEF SendPort, MayCall, Control
<1>2. /\ fullscreen' \in Seq({"app", "dialog"}) /\ NoDuplicates(fullscreen')
      /\ \A r : Has(fullscreen', r) <=> Has(fullscreen, r)
    BY <1>a, <1>1, LayerSteps DEF SendPort
<1>3. InputTypeOK' /\ GuiInv'
    BY <1>a, <1>b, SameInput, TypesBefore
<1>4. TypeOK'
    <2>1. MaxCalls \in Nat /\ MaxRuns \in Nat /\ Counters
        BY <1>a, TypesBefore, ViewDispatcherAssumption DEF ViewDispatcherAssumption
    <2>2. Counters'
        BY <1>b, <2>1 DEF SendPort, MayCall, Counters
    <2> QED
        BY <1>a, <1>b, <1>2, <1>3, <2>2, TypesBefore, TypesAfter
<1>5. \A p : Attached(p)' <=> Attached(p)
    BY <1>2 DEF Attached
<1>6. Control' /\ PortLives' /\ ViewLives'
    BY <1>a, <1>b, <1>5 DEF Control, PortLives, ViewLives
<1>7. DispatcherInv' /\ ToldInv'
    BY <1>a, <1>b, SameDispatcher, SameSent, SameTold
<1> QED
    BY <1>3, <1>4, <1>6, <1>7 DEF DispatchInv

\* Other threads add and remove the dialog, lock the desktop or draw directly.
LEMMA OtherCallsInv ==
    ASSUME DispatchInv, OtherCalls, UNCHANGED dispatcherVars
    PROVE  DispatchInv'
<1>a. TypeOK /\ Control /\ PortLives /\ ViewLives /\ GuiInv /\ DispatcherInv /\ ToldInv
    BY DEF DispatchInv
<1>b. UNCHANGED <<keys, inputQueue, presses, enabled, orientation, app, queue, events,
                  dispatcher, told, spoiled, budget>>
    BY DEF OtherCalls, inputVars, dispatcherVars
<1>1. gui \in GuiTypes /\ NoPort \notin Ports
      /\ fullscreen \in Seq({"app", "dialog"}) /\ NoDuplicates(fullscreen)
    BY <1>a, Types DEF GuiTypes
<1>2. gui.at = "idle"
    BY DEF OtherCalls, AddPort, RemovePort, Unlocked
<1>3. \/ ~Attached("dialog") /\ AddPort("dialog") /\ UNCHANGED gui
      \/ RemovePort("dialog")
      \/ gui' = [gui EXCEPT !.lockdown = ~@] /\ UNCHANGED fullscreen
      \/ gui' = [gui EXCEPT !.direct = ~@] /\ UNCHANGED fullscreen
    BY DEF OtherCalls
<1>4. /\ fullscreen' \in Seq({"app", "dialog"}) /\ NoDuplicates(fullscreen')
      /\ \A r : Has(fullscreen', r) /\ r # "dialog" <=> Has(fullscreen, r) /\ r # "dialog"
    BY <1>a, <1>1, <1>3, LayerSteps
<1>5. /\ gui' \in GuiTypes /\ gui'.at = "idle" /\ gui'.ongoing = gui.ongoing
      /\ gui'.event = gui.event
      /\ \/ gui'.port = gui.port /\ (\A r : Has(fullscreen, r) => Has(fullscreen', r))
         \/ gui'.port = gui.port /\ gui.port # "dialog"
         \/ gui.port = "dialog" /\ gui'.port = NoPort
    <2>1. CASE ~Attached("dialog") /\ AddPort("dialog") /\ UNCHANGED gui
        <3>1. \A r : Has(fullscreen, r) => Has(fullscreen', r)
            BY <1>a, <2>1, LayerSteps
        <3> QED
            BY <1>1, <1>2, <2>1, <3>1
    <2>2. CASE RemovePort("dialog")
        <3>1. gui' = [gui EXCEPT !.port = IF @ = "dialog" THEN NoPort ELSE @]
            BY <2>2 DEF RemovePort
        <3> QED
            BY <1>1, <1>2, <3>1 DEF GuiTypes
    <2>3. CASE gui' = [gui EXCEPT !.lockdown = ~@] /\ UNCHANGED fullscreen
        BY <1>1, <1>2, <2>3 DEF GuiTypes
    <2>4. CASE gui' = [gui EXCEPT !.direct = ~@] /\ UNCHANGED fullscreen
        BY <1>1, <1>2, <2>4 DEF GuiTypes
    <2> QED
        BY <1>3, <2>1, <2>2, <2>3, <2>4
<1>6. InputTypeOK' /\ GuiInv'
    BY <1>a, <1>b, <1>5, SameInput, TypesBefore
<1>7. TypeOK'
    <2>1. MaxOthers \in Nat /\ Counters
        BY <1>a, TypesBefore, GuiAssumption DEF GuiAssumption
    <2>2. others > 0 /\ others' = others - 1
        BY DEF OtherCalls
    <2>3. Counters'
        BY <1>b, <2>1, <2>2 DEF Counters
    <2> QED
        BY <1>a, <1>b, <1>4, <1>5, <1>6, <2>3, TypesBefore, TypesAfter
<1>8. Attached("app")' <=> Attached("app")
    BY <1>4 DEF Attached
<1>9. Control' /\ ViewLives'
    BY <1>a, <1>b, <1>5, <1>8 DEF Control, ViewLives
<1>10. PortLives'
    <2> SUFFICES ASSUME gui'.port # NoPort
                 PROVE  gui'.port = "desktop" \/ Has(fullscreen', gui'.port)
        BY <1>5 DEF PortLives, Attached
    <2>1. gui'.port = gui.port /\ Attached(gui.port)
        BY <1>a, <1>5 DEF PortLives
    <2> QED
        BY <1>4, <1>5, <2>1 DEF Attached
<1>11. ASSUME NEW d \in InputKeys, SentToApp(d)
       PROVE  SentToApp(d)'
    <2>1. gui'.port = "app"
        BY <1>5, <1>11 DEF SentToApp
    <2> QED
        BY <1>b, <1>2, <1>5, <1>11, <2>1 DEF SentToApp
<1>12. DispatcherInv' /\ ToldInv'
    BY <1>a, <1>b, <1>11, SameDispatcher, SameTold
<1> QED
    BY <1>6, <1>7, <1>9, <1>10, <1>12 DEF DispatchInv

\* The dispatcher is freed: its port, its queues and what it believed are gone.
LEMMA FreeInv ==
    ASSUME DispatchInv, Free
    PROVE  DispatchInv'
<1>a. TypeOK /\ Control /\ PortLives /\ ViewLives /\ GuiInv /\ DispatcherInv /\ ToldInv
    BY DEF DispatchInv
<1>b. UNCHANGED <<keys, inputQueue, presses, others, budget>>
    BY DEF Free, inputVars
<1>1. gui \in GuiTypes /\ NoPort \notin Ports /\ Counters
    BY <1>a, Types, TypesBefore DEF GuiTypes
<1>2. /\ fullscreen' \in Seq({"app", "dialog"}) /\ NoDuplicates(fullscreen')
      /\ \A r : Has(fullscreen', r) <=> Has(fullscreen, r) /\ r # "app"
    BY <1>a, LayerSteps DEF Free
<1>3. /\ gui' \in GuiTypes /\ gui'.at = "idle" /\ gui'.ongoing = gui.ongoing
      /\ gui'.port = NoPort \/ (gui'.port = gui.port /\ gui.port # "app")
    <2>1. gui.at = "idle" /\ gui' = [gui EXCEPT !.port = IF @ = "app" THEN NoPort ELSE @]
        BY DEF Free, RemovePort, Unlocked
    <2> QED
        BY <1>1, <2>1 DEF GuiTypes
<1>4. /\ app' = [at |-> "absent", call |-> NoCall] /\ app' \in AppTypes
      /\ app'.at = "absent" /\ app'.call.op = "none" /\ app'.call = NoCall
    BY DEF Free, AppGoes, AppTypes, NoCall
<1>5. /\ queue' = <<>> /\ events' = 0 /\ dispatcher' = NewDispatcher /\ enabled' = FALSE
      /\ orientation' = "Horizontal" /\ told' = NobodyTold /\ spoiled' = FALSE
    BY DEF Free
<1>6. InputTypeOK' /\ GuiInv'
    BY <1>a, <1>b, <1>3, SameInput, TypesBefore
<1>7. TypeOK'
    <2>1. QueueSize \in Nat
        BY ViewDispatcherAssumption DEF ViewDispatcherAssumption
    <2>2. Counters'
        BY <1>b, <1>1, <1>5, <2>1 DEF Counters
    <2>3. dispatcher' \in DispatcherTypes
        BY <1>5 DEF NewDispatcher, DispatcherTypes
    <2>4. queue' \in Seq(InputEvents) /\ Len(queue') <= QueueSize
        BY <1>5, <2>1
    <2>5. told' \in [Views -> SUBSET InputKeys]
        BY <1>5 DEF NobodyTold
    <2>6. orientation' \in Orientations /\ enabled' \in BOOLEAN /\ spoiled' \in BOOLEAN
        BY <1>5 DEF Orientations
    <2> QED
        BY <1>2, <1>3, <1>4, <1>6, <2>2, <2>3, <2>4, <2>5, <2>6, TypesAfter
<1>8. Control'
    BY <1>2, <1>3, <1>4 DEF Control, Attached
<1>9. PortLives'
    BY <1>a, <1>1, <1>2, <1>3 DEF PortLives, Attached, Ports
<1>10. ViewLives'
    BY <1>5 DEF ViewLives, NewDispatcher
<1>11. DispatcherInv'
    <2>1. \A d : ~Pressed(<<>>, {}, d, 0)
        BY PressedNone
    <2>2. Len(<<>>) = 0 /\ Proper(<<>>, {})
        BY DEF Proper
    <2> QED
        BY <1>5, <2>1, <2>2 DEF DispatcherInv, NewDispatcher
<1>12. ToldInv'
    BY <1>5 DEF ToldInv, NobodyTold
<1> QED
    BY <1>6, <1>7, <1>8, <1>9, <1>10, <1>11, <1>12 DEF DispatchInv

-----------------------------------------------------------------------------
(* The steps of the application's thread that change what it believes      *)

\* The port is turned, and the keys that are pressed are given up.
LEMMA RotateInv ==
    ASSUME DispatchInv, Rotate
    PROVE  DispatchInv'
<1>a. TypeOK /\ Control /\ PortLives /\ ViewLives /\ GuiInv /\ DispatcherInv /\ ToldInv
    BY DEF DispatchInv
<1>b. UNCHANGED <<keys, inputQueue, presses, gui, fullscreen, others, queue, events, budget>>
    BY DEF Rotate, inputVars
<1>1. dispatcher \in DispatcherTypes /\ app \in AppTypes /\ Counters /\ spoiled \in BOOLEAN
    BY <1>a, TypesBefore
<1>2. app.call.view \in Views /\ app.at \in CallPlaces /\ gui.at = "idle"
    BY <1>a DEF Rotate, Control, CallPlaces, Unlocked
<1>3. app' \in AppTypes /\ app'.at = app.at /\ app'.call.op = "none" /\ app'.call = NoCall
    BY <1>1 DEF Rotate, AppTypes, NoCall
<1>4. /\ dispatcher' \in DispatcherTypes /\ dispatcher'.views = dispatcher.views
      /\ dispatcher'.ongoing = {} /\ dispatcher'.ongoingView = dispatcher.ongoingView
      /\ dispatcher'.current = dispatcher.current
    BY <1>1 DEF Rotate, DispatcherTypes
<1>5. InputTypeOK' /\ GuiInv'
    BY <1>a, <1>b, SameInput, TypesBefore
<1>6. TypeOK'
    <2>1. orientation' \in Orientations /\ enabled' \in BOOLEAN
        BY <1>2, ViewDispatcherAssumption DEF Rotate, ViewDispatcherAssumption
    <2>2. told' \in [Views -> SUBSET InputKeys] /\ spoiled' \in BOOLEAN
        BY <1>1 DEF Rotate, NobodyTold
    <2>3. Counters'
        BY <1>b, <1>1 DEF Counters
    <2> QED
        BY <1>a, <1>b, <1>3, <1>4, <1>5, <2>1, <2>2, <2>3, TypesBefore, TypesAfter
<1>7. Control' /\ PortLives' /\ ViewLives'
    BY <1>a, <1>b, <1>2, <1>3, <1>4 DEF Control, PortLives, ViewLives, Attached, CallPlaces
<1>8. DispatcherInv'
    <2> SUFFICES ASSUME ~spoiled'
                 PROVE  /\ \A d : ~Pressed(queue, {}, d, Len(queue))
                        /\ Proper(queue, {})
        BY <1>b, <1>4 DEF DispatcherInv
    <2>1. \A i \in 1..Len(queue) : queue[i].type # "Press"
        <3>1. DOMAIN queue = 1..Len(queue)
            BY <1>a, Types
        <3>2. ~(\E i \in DOMAIN queue : queue[i].type = "Press")
            BY <1>1 DEF Rotate
        <3> QED
            BY <3>1, <3>2
    <2> QED
        BY <2>1 DEF Pressed, Proper, Event
<1>9. ToldInv'
    BY <1>4 DEF Rotate, NobodyTold, ToldInv
<1> QED
    BY <1>5, <1>6, <1>7, <1>8, <1>9 DEF DispatchInv

\* A view is removed: it is not current, and not that of the keys that are pressed.
LEMMA RemoveViewInv ==
    ASSUME DispatchInv, RemoveViewLocked
    PROVE  DispatchInv'
<1>a. TypeOK /\ Control /\ PortLives /\ ViewLives /\ GuiInv /\ DispatcherInv /\ ToldInv
    BY DEF DispatchInv
<1>b. UNCHANGED <<keys, inputQueue, presses, gui, fullscreen, orientation, others, queue, events,
                  spoiled, budget>>
    BY DEF RemoveViewLocked, inputVars
<1>1. /\ dispatcher \in DispatcherTypes /\ app \in AppTypes /\ Counters
      /\ enabled \in BOOLEAN /\ told \in [Views -> SUBSET InputKeys] /\ NoView \notin Views
    BY <1>a, TypesBefore, Types
<1> DEFINE v == app.call.view
<1>2. v \in Views /\ app.at \in CallPlaces
    BY <1>a DEF RemoveViewLocked, Control, CallPlaces
<1>3. app' \in AppTypes /\ app'.at = app.at /\ app'.call.op = "none" /\ app'.call = NoCall
    BY <1>1 DEF RemoveViewLocked, AppTypes, NoCall
<1> HIDE DEF v
<1>4. /\ dispatcher' = [dispatcher EXCEPT !.views = @ \ {v},
                                          !.current = IF @ = v THEN NoView ELSE @,
                                          !.stop = @ \/ dispatcher.current = v,
                                          !.ongoingView = IF @ = v THEN NoView ELSE @]
      /\ enabled' = (enabled /\ dispatcher.current # v)
      /\ told' = [told EXCEPT ![v] = {}]
    BY DEF RemoveViewLocked, RemoveView, v
<1>5. /\ dispatcher' \in DispatcherTypes /\ dispatcher'.views = dispatcher.views \ {v}
      /\ dispatcher'.ongoing = dispatcher.ongoing
      /\ dispatcher'.ongoingView = IF dispatcher.ongoingView = v THEN NoView ELSE dispatcher.ongoingView
      /\ dispatcher'.current = IF dispatcher.current = v THEN NoView ELSE dispatcher.current
    BY <1>1, <1>4 DEF DispatcherTypes
<1>6. InputTypeOK' /\ GuiInv'
    BY <1>a, <1>b, SameInput, TypesBefore
<1>7. TypeOK'
    <2>1. told' \in [Views -> SUBSET InputKeys] /\ enabled' \in BOOLEAN
        BY <1>1, <1>2, <1>4
    <2>2. Counters'
        BY <1>b, <1>1 DEF Counters
    <2> QED
        BY <1>a, <1>b, <1>3, <1>5, <1>6, <2>1, <2>2, TypesBefore, TypesAfter
<1>8. Control' /\ PortLives'
    BY <1>a, <1>b, <1>2, <1>3 DEF Control, PortLives, Attached, CallPlaces
<1>9. ViewLives'
    BY <1>a, <1>5 DEF ViewLives
<1>10. DispatcherInv'
    BY <1>a, <1>b, <1>5, SameDispatcher, SameSent
<1>11. ToldInv'
    BY <1>a, <1>b, <1>1, <1>2, <1>3, <1>4, <1>5 DEF ToldInv
<1> QED
    BY <1>6, <1>7, <1>8, <1>9, <1>10, <1>11 DEF DispatchInv

\* Taking an event from the queue and marking the key keeps what the two say together.
LEMMA QueueTaken ==
    ASSUME DispatchInv, queue # <<>>, queue' = Tail(queue),
           dispatcher'.ongoing = KeysAfter(Head(queue), dispatcher.ongoing),
           UNCHANGED <<gui, orientation, spoiled>>
    PROVE  /\ queue' \in Seq(InputEvents) /\ Len(queue') <= QueueSize
           /\ Head(queue) \in InputEvents
           /\ KeysAfter(Head(queue), dispatcher.ongoing) \in SUBSET InputKeys
           /\ ~spoiled /\ Head(queue).type = "Press" => Head(queue).key \notin dispatcher.ongoing
           /\ DispatcherInv'
<1>1. /\ queue \in Seq(InputEvents) /\ Len(queue) <= QueueSize /\ QueueSize \in Nat
      /\ dispatcher \in DispatcherTypes /\ DispatcherInv
    BY TypesBefore, ViewDispatcherAssumption DEF DispatchInv, ViewDispatcherAssumption
<1>2. queue' \in Seq(InputEvents) /\ Len(queue') <= QueueSize /\ Head(queue) \in InputEvents
    BY <1>1
<1>3. KeysAfter(Head(queue), dispatcher.ongoing) \in SUBSET InputKeys
    BY <1>1, <1>2 DEF KeysAfter, InputEvents, DispatcherTypes
<1>4. /\ \A k : Pressed(queue', dispatcher'.ongoing, k, Len(queue')) <=>
                   Pressed(queue, dispatcher.ongoing, k, Len(queue))
      /\ Proper(queue, dispatcher.ongoing) => /\ Proper(queue', dispatcher'.ongoing)
                                              /\ Head(queue).type = "Press" =>
                                                    Head(queue).key \notin dispatcher.ongoing
    BY <1>1, PressedTail
<1>5. \A d : SentToApp(d) => SentToApp(d)'
    BY SameSent
<1>6. DispatcherInv'
    BY <1>1, <1>4, <1>5 DEF DispatcherInv
<1> QED
    BY <1>1, <1>2, <1>3, <1>4, <1>6 DEF DispatcherInv

\* After a stop the dispatcher waits for the keys to be released.
LEMMA DrainInv ==
    ASSUME DispatchInv, Drain
    PROVE  DispatchInv'
<1>a. TypeOK /\ Control /\ PortLives /\ ViewLives /\ GuiInv /\ DispatcherInv /\ ToldInv
    BY DEF DispatchInv
<1>b. UNCHANGED <<keys, inputQueue, presses, gui, fullscreen, enabled, orientation, others, app,
                  events, told, spoiled, budget>>
    BY DEF Drain, inputVars, guiVars
<1>1. dispatcher \in DispatcherTypes /\ Counters
    BY <1>a, TypesBefore
<1>2. /\ dispatcher'.views = dispatcher.views /\ dispatcher'.current = dispatcher.current
      /\ dispatcher'.ongoing = KeysAfter(Head(queue), dispatcher.ongoing)
      /\ dispatcher'.ongoingView = dispatcher.ongoingView /\ dispatcher'.stop = dispatcher.stop
      /\ dispatcher' = [dispatcher EXCEPT !.ongoing = KeysAfter(Head(queue), dispatcher.ongoing)]
    BY <1>1 DEF Drain, DispatcherTypes
<1>3. queue # <<>> /\ queue' = Tail(queue)
    BY DEF Drain
<1>4. /\ queue' \in Seq(InputEvents) /\ Len(queue') <= QueueSize
      /\ KeysAfter(Head(queue), dispatcher.ongoing) \in SUBSET InputKeys
      /\ DispatcherInv'
    BY <1>b, <1>2, <1>3, QueueTaken
<1>5. dispatcher' \in DispatcherTypes
    BY <1>1, <1>2, <1>4 DEF DispatcherTypes
<1>6. InputTypeOK' /\ GuiInv'
    BY <1>a, <1>b, SameInput, TypesBefore
<1>7. TypeOK'
    <2>1. Counters'
        BY <1>b, <1>1 DEF Counters
    <2> QED
        BY <1>a, <1>b, <1>4, <1>5, <1>6, <2>1, TypesBefore, TypesAfter
<1>8. Control' /\ PortLives' /\ ViewLives'
    BY <1>a, <1>b, <1>2 DEF Control, PortLives, ViewLives, Attached
<1>9. ToldInv'
    BY <1>b DEF ToldInv, Drain
<1> QED
    BY <1>4, <1>6, <1>7, <1>8, <1>9 DEF DispatchInv

\* view_dispatcher_handle_input: the keys a view knows of are told to it until they are
\* released.  When another view gets the first key, none is pressed.
LEMMA HandleInputInv ==
    ASSUME DispatchInv, HandleInput
    PROVE  DispatchInv'
<1>a. TypeOK /\ Control /\ PortLives /\ ViewLives /\ GuiInv /\ DispatcherInv /\ ToldInv
    BY DEF DispatchInv
<1>b. UNCHANGED <<keys, inputQueue, presses, gui, fullscreen, enabled, orientation, others,
                  events, spoiled, budget>>
    BY DEF HandleInput, inputVars, guiVars
<1> DEFINE e == Head(queue)
           ongoing == KeysAfter(e, dispatcher.ongoing)
           view == IF IsFirstPress(e, ongoing) THEN dispatcher.current ELSE dispatcher.ongoingView
           to == Addressee(e, dispatcher.current, view)
<1>1. /\ dispatcher \in DispatcherTypes /\ app \in AppTypes /\ Counters
      /\ told \in [Views -> SUBSET InputKeys] /\ NoView \notin Views
      /\ queue \in Seq(InputEvents)
    BY <1>a, TypesBefore, Types
<1>2. app.at = "loop" /\ app.call = NoCall /\ queue # <<>> /\ queue' = Tail(queue)
    BY DEF HandleInput, InLoop, Unhindered
<1>3. e \in InputEvents
    BY <1>1, <1>2
<1>4. \/ /\ ~IsComplementary(e, dispatcher.ongoing)
         /\ UNCHANGED <<dispatcher, app, told>>
      \/ /\ dispatcher' = [dispatcher EXCEPT !.ongoing = ongoing, !.ongoingView = view]
         /\ \/ to = NoView /\ UNCHANGED <<app, told>>
            \/ /\ to # NoView
               /\ told' = [told EXCEPT ![to] = KeysAfter(e, @)]
               /\ AppGoes("back") \/ AppGoes("callback")
    BY DEF HandleInput
<1>5. view \in {dispatcher.current, dispatcher.ongoingView}
    OBVIOUS
<1>6. to \in {view, NoView}
    BY DEF Addressee
<1>7. to = NoView /\ e.type = "Release" => view = NoView
    BY DEF Addressee
<1> HIDE DEF e, ongoing, view, to
<1>8. /\ dispatcher'.views = dispatcher.views /\ dispatcher'.current = dispatcher.current
      /\ dispatcher'.ongoing = ongoing
      /\ dispatcher'.ongoingView \in {view, dispatcher.ongoingView}
    <2>1. ~IsComplementary(e, dispatcher.ongoing) => ongoing = dispatcher.ongoing
        BY <1>3, DroppedIs DEF ongoing
    <2> QED
        BY <1>1, <1>4, <2>1 DEF DispatcherTypes
<1>9. /\ queue' \in Seq(InputEvents) /\ Len(queue') <= QueueSize
      /\ ongoing \in SUBSET InputKeys
      /\ ~spoiled /\ e.type = "Press" => e.key \notin dispatcher.ongoing
      /\ DispatcherInv'
    BY <1>b, <1>2, <1>8, QueueTaken DEF e, ongoing
<1>10. view \in Views \union {NoView} /\ to \in Views \union {NoView}
    BY <1>1, <1>5, <1>6 DEF DispatcherTypes
<1>11. dispatcher' \in DispatcherTypes
    BY <1>1, <1>4, <1>9, <1>10 DEF DispatcherTypes
<1>12. /\ app' \in AppTypes /\ app'.call = NoCall /\ app'.call.op = "none"
       /\ app'.at \in {"loop", "back", "callback"}
    BY <1>1, <1>2, <1>4 DEF AppTypes, AppGoes, NoCall
<1>13. told' \in [Views -> SUBSET InputKeys]
    <2>1. e.key \in InputKeys /\ \A t \in SUBSET InputKeys : KeysAfter(e, t) \in SUBSET InputKeys
        BY <1>3 DEF KeysAfter, InputEvents
    <2> QED
        BY <1>1, <1>4, <2>1
<1>14. InputTypeOK' /\ GuiInv'
    BY <1>a, <1>b, SameInput, TypesBefore
<1>15. TypeOK'
    <2>1. Counters'
        BY <1>b, <1>1 DEF Counters
    <2> QED
        BY <1>a, <1>b, <1>9, <1>11, <1>12, <1>13, <1>14, <2>1, TypesBefore, TypesAfter
<1>16. Control' /\ PortLives'
    BY <1>a, <1>b, <1>2, <1>8, <1>12 DEF Control, PortLives, Attached
<1>17. ViewLives'
    BY <1>a, <1>5, <1>8 DEF ViewLives
<1>18. ToldInv'
    <2> SUFFICES ASSUME ~spoiled, NEW v \in Views
                 PROVE  /\ told'[v] \subseteq ongoing
                        /\ told'[v] # {} => v = dispatcher'.ongoingView
        BY <1>b, <1>8 DEF ToldInv
    <2>1. /\ told[v] \subseteq dispatcher.ongoing
          /\ told[v] # {} => v = dispatcher.ongoingView
        BY <1>a, <1>2 DEF ToldInv
    <2>2. CASE UNCHANGED <<dispatcher, app, told>>
        BY <1>8, <2>1, <2>2
    <2>3. CASE dispatcher' = [dispatcher EXCEPT !.ongoing = ongoing, !.ongoingView = view]
               /\ to = NoView /\ UNCHANGED <<app, told>>
        <3>1. dispatcher'.ongoingView = view
            BY <1>1, <2>3 DEF DispatcherTypes
        <3>2. CASE IsFirstPress(e, ongoing)
            <4>1. dispatcher.ongoing = {}
                BY <1>9, <3>2 DEF IsFirstPress, KeysAfter, ongoing
            <4> QED
                BY <2>1, <2>3, <4>1
        <3>3. CASE ~IsFirstPress(e, ongoing)
            <4>1. view = dispatcher.ongoingView
                BY <3>3 DEF view
            <4>2. e.type = "Release" => told[v] = {}
                BY <1>1, <1>7, <2>1, <2>3, <4>1
            <4>3. e.type # "Release" => dispatcher.ongoing \subseteq ongoing
                BY DEF KeysAfter, ongoing
            <4> QED
                BY <2>1, <2>3, <3>1, <4>1, <4>2, <4>3
        <3> QED
            BY <3>2, <3>3
    <2>4. CASE /\ dispatcher' = [dispatcher EXCEPT !.ongoing = ongoing, !.ongoingView = view]
               /\ to # NoView
               /\ told' = [told EXCEPT ![to] = KeysAfter(e, @)]
        <3>1. dispatcher'.ongoingView = view /\ to = view /\ to \in Views
            BY <1>1, <1>6, <1>10, <2>4 DEF DispatcherTypes
        <3>2. told'[v] = IF v = view THEN KeysAfter(e, told[v]) ELSE told[v]
            BY <1>1, <2>4, <3>1
        <3>3. KeysAfter(e, told[v]) \subseteq ongoing
            BY <2>1 DEF KeysAfter, ongoing
        <3>4. v # view => told[v] = {}
            <4>1. CASE IsFirstPress(e, ongoing)
                <5>1. dispatcher.ongoing = {}
                    BY <1>9, <4>1 DEF IsFirstPress, KeysAfter, ongoing
                <5> QED
                    BY <2>1, <5>1
            <4>2. CASE ~IsFirstPress(e, ongoing)
                BY <2>1, <4>2 DEF view
            <4> QED
                BY <4>1, <4>2
        <3> QED
            BY <3>1, <3>2, <3>3, <3>4
    <2> QED
        BY <1>4, <2>2, <2>3, <2>4
<1> QED
    BY <1>9, <1>14, <1>15, <1>16, <1>17, <1>18 DEF DispatchInv

-----------------------------------------------------------------------------
(* The invariant, and the properties it implies                            *)

\* At the start no key is pressed and nobody believes that one is.
LEMMA InitDispatchInv ==
    ASSUME Init
    PROVE  DispatchInv
<1> USE DEF Init, InputInit, GuiInit
<1>1. /\ GuiQueueSize \in Nat /\ MaxPresses \in Nat /\ MaxOthers \in Nat
      /\ QueueSize \in Nat /\ MaxCalls \in Nat /\ MaxRuns \in Nat
    BY InputAssumption, GuiAssumption, ViewDispatcherAssumption
       DEF InputAssumption, GuiAssumption, ViewDispatcherAssumption
<1>2. NoEvent \in InputEvents
    BY DEF NoEvent, Event, InputEvents, InputKeys, InputTypes
<1>3. <<>> \in Seq(InputEvents) /\ <<>> \in Seq({"app", "dialog"}) /\ Len(<<>>) = 0
    OBVIOUS
<1>4. InputTypeOK
    BY <1>1, <1>3 DEF InputTypeOK
<1>5. GuiTypeOK
    <2>1. gui \in [at : {"idle", "delivering"}, event : InputEvents, ongoing : SUBSET Keys,
                   port : Ports \union {NoPort}, lockdown : BOOLEAN, direct : BOOLEAN]
        BY <1>2
    <2>2. NoDuplicates(fullscreen)
        BY DEF NoDuplicates
    <2>3. orientation \in Orientations
        BY DEF Orientations
    <2>4. others \in 0..MaxOthers
        BY <1>1
    <2>5. fullscreen \in Seq({"app", "dialog"}) /\ enabled \in BOOLEAN
        BY <1>3
    <2> HIDE DEF Init, GuiInit
    <2> QED
        BY <2>1, <2>2, <2>3, <2>4, <2>5 DEF GuiTypeOK
<1>6. TypeOK
    <2>1. app \in AppTypes /\ dispatcher \in DispatcherTypes
        BY DEF AppTypes, NoCall, NewDispatcher, DispatcherTypes
    <2>2. budget \in [calls : 0..MaxCalls, runs : 0..MaxRuns] /\ events \in 0..QueueSize
        BY <1>1
    <2>3. queue \in Seq(InputEvents) /\ Len(queue) <= QueueSize
        BY <1>1
    <2>4. told \in [Views -> SUBSET InputKeys] /\ spoiled \in BOOLEAN
        BY DEF NobodyTold
    <2> HIDE DEF Init
    <2> QED
        BY <1>4, <1>5, <2>1, <2>2, <2>3, <2>4 DEF TypeOK, AppTypes, DispatcherTypes
<1>7. Control
    BY DEF Control, Attached, Has, NoCall
<1>8. PortLives /\ ViewLives
    BY DEF PortLives, ViewLives, NewDispatcher
<1>9. \A ongoing : Proper(<<>>, ongoing)
    BY <1>3 DEF Proper
<1>10. \A k : ~Pressed(<<>>, {}, k, 0)
    <2>1. ASSUME NEW k
          PROVE  Pressed(<<>>, {}, k, 0) <=> k \in {}
        BY PressedNone
    <2> QED
        BY <2>1
<1>11. GuiInv
    BY <1>3, <1>9, <1>10 DEF GuiInv
<1>12. DispatcherInv
    BY <1>3, <1>9, <1>10 DEF DispatcherInv, NewDispatcher
<1>13. ToldInv
    BY DEF ToldInv, NobodyTold
<1> QED
    BY <1>6, <1>7, <1>8, <1>11, <1>12, <1>13 DEF DispatchInv

\* The invariant is about the variables of the specification only.
LEMMA StutterDispatchInv ==
    ASSUME DispatchInv, UNCHANGED vars
    PROVE  DispatchInv'
<1>1. UNCHANGED <<keys, inputQueue, presses, gui, fullscreen, enabled, orientation, others,
                  app, queue, events, dispatcher, told, spoiled, budget>>
    BY DEF vars, inputVars, guiVars, dispatcherVars
<1>2. TypeOK'
    BY <1>1 DEF DispatchInv, TypeOK, InputTypeOK, GuiTypeOK
<1>3. Control' /\ PortLives' /\ ViewLives'
    BY <1>1 DEF DispatchInv, Control, PortLives, ViewLives, Attached
<1>4. GuiInv'
    BY <1>1, SameInput DEF DispatchInv
<1>5. DispatcherInv' /\ ToldInv'
    BY <1>1, SameDispatcher, SameSent, SameTold DEF DispatchInv
<1> QED
    BY <1>2, <1>3, <1>4, <1>5 DEF DispatchInv

\* Every step of every thread keeps the invariant.
LEMMA NextDispatchInv ==
    ASSUME DispatchInv, Next
    PROVE  DispatchInv'
<1>1. CASE InputThread \/ TimerThread
    BY <1>1, KeyStepInv DEF InputThread, TimerThread, KeyStep
<1>2. CASE GuiThread
    BY <1>2, GuiInputInv, InputCallbackInv DEF GuiThread
<1>3. CASE OtherThreads
    BY <1>3, OtherCallsInv, AppSteps, AppStepInv DEF OtherThreads, DispatchInv
<1>4. CASE AppThread
    <2>1. \/ Start \/ StopDispatcher \/ CodeReturns \/ HandleEvent \/ RunStops \/ DrainEnds
          \/ (\E v \in Views \union {NoView} : SwitchToView(v))
          \/ (\E v \in Views : CallRemoveView(v))
          \/ Attach \/ SendPort \/ Rotate \/ RemoveViewLocked \/ HandleInput \/ Drain \/ Free
        BY <1>4 DEF AppThread
    <2> QED
        BY <2>1, AppSteps, AppStepInv, AttachInv, SendPortInv, RotateInv, RemoveViewInv,
           HandleInputInv, DrainInv, FreeInv DEF DispatchInv
<1> QED
    BY <1>1, <1>2, <1>3, <1>4 DEF Next

\* What each of the GUI, the dispatcher and its views believes of the keys, with the events
\* it has not handled yet, is what the one before it has told it, at every moment.
THEOREM DispatcherInvariant == Spec => []DispatchInv
<1>1. Init => DispatchInv
    BY InitDispatchInv
<1>2. DispatchInv /\ [Next]_vars => DispatchInv'
    BY NextDispatchInv, StutterDispatchInv
<1> QED
    BY <1>1, <1>2, PTL DEF Spec

\* The types of the variables of Input, Gui and ViewDispatcher.
THEOREM DispatcherTypeOK == Spec => []TypeOK
<1>1. DispatchInv => TypeOK
    BY DEF DispatchInv
<1> QED
    BY <1>1, DispatcherInvariant, PTL

\* gui_input and view_port_input use view ports that are attached.
THEOREM PortsAreAttached == Spec => []PortLives
<1>1. DispatchInv => PortLives
    BY DEF DispatchInv
<1> QED
    BY <1>1, DispatcherInvariant, PTL

\* view_dispatcher_handle_input calls views that have not been removed.
THEOREM ViewsAreAdded == Spec => []ViewLives
<1>1. DispatchInv => ViewLives
    BY DEF DispatchInv
<1> QED
    BY <1>1, DispatcherInvariant, PTL

\* When every key is up and every event was handled, neither Gui.ongoing_input nor
\* ViewDispatcher.ongoing_input holds a key.
THEOREM NoKeyIsStuck == Spec => []NoStuckKey
<1>1. ASSUME DispatchInv, Quiet
      PROVE  gui.ongoing = {} /\ (spoiled \/ dispatcher.ongoing = {})
    <2>1. /\ gui.at = "idle" /\ inputQueue = <<>> /\ queue = <<>> /\ Len(<<>>) = 0
          /\ \A k \in Keys : keys[k] = "up"
        BY <1>1 DEF Quiet
    <2>2. gui.ongoing \in SUBSET Keys /\ dispatcher.ongoing \in SUBSET InputKeys
        BY <1>1, Types DEF DispatchInv
    <2>3. \A k \in Keys : k \in gui.ongoing <=> keys[k] # "up"
        BY <1>1, <2>1, PressedNone DEF DispatchInv, GuiInv
    <2>4. gui.ongoing = {}
        BY <2>1, <2>2, <2>3
    <2>5. ~spoiled => \A d \in InputKeys : d \in dispatcher.ongoing => SentToApp(d)
        BY <1>1, <2>1, PressedNone DEF DispatchInv, DispatcherInv
    <2>6. \A d : ~SentToApp(d)
        BY <2>1, <2>4 DEF SentToApp
    <2> QED
        BY <2>2, <2>4, <2>5, <2>6
<1>2. DispatchInv => NoStuckKey
    BY <1>1 DEF NoStuckKey
<1> QED
    BY <1>2, DispatcherInvariant, PTL

\* A view that was told of a press has been told of the release when every key is up and
\* every event was handled, whatever was switched, removed, locked or drawn meanwhile.
THEOREM EveryReleaseIsTold == Spec => []ViewsSeeRelease
<1>1. ASSUME DispatchInv, NoStuckKey, Quiet, ~spoiled,
             app.at \in {"loop", "callback", "back", "navigation"}
      PROVE  told = NobodyTold
    <2>1. told \in [Views -> SUBSET InputKeys] /\ dispatcher.ongoing = {}
        BY <1>1, Types DEF DispatchInv, NoStuckKey
    <2>2. \A v \in Views : told[v] \subseteq dispatcher.ongoing
        BY <1>1 DEF DispatchInv, ToldInv
    <2>3. \A v \in Views : told[v] = {}
        BY <2>1, <2>2
    <2> QED
        BY <2>1, <2>3 DEF NobodyTold
<1>2. DispatchInv /\ NoStuckKey => ViewsSeeRelease
    BY <1>1 DEF ViewsSeeRelease
<1> QED
    BY <1>2, DispatcherInvariant, NoKeyIsStuck, PTL

=============================================================================
