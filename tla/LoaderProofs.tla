---------------------------- MODULE LoaderProofs ----------------------------
(***************************************************************************)
(* Proofs about Loader and Threads, for any names, any length of the       *)
(* launch queue and of the queue of the init thread, and any number of     *)
(* calls.                                                                  *)
(***************************************************************************)
EXTENDS Loader, FiniteSetTheorems, SequenceTheorems, TLAPS

-----------------------------------------------------------------------------
(* The parts of the inductive invariant.                                   *)

StartTypes == {"StartByName", "Detached", "Autorun", "Deferred"}
ClosedTypes == {"MenuClosed", "ApplicationsClosed", "AppClosed"}

\* Who sends what: the handler of a message may rely on it.
WhoSends(m) ==
    \/ m.from = "none" /\ m.type \in AsyncTypes
    \/ m.from \in {"menu", "apps"} /\ m.type = "StartByName"
    \/ /\ m.from = "app" /\ m.type \in {"EnqueueLaunch", "ClearLaunchQueue"}
       /\ m.type = "EnqueueLaunch" => m.name \in LaunchNames
    \/ m.from = "remote" /\ m.type = remote.type /\ m.type \in Queries \union {"StartByName"}
    \/ m.from = "desktop" /\ m.type = "IsLocked"

\* What the loader is at work on.
Starting == loader.at \in {"announcing", "starting", "dialog"}
WhatIsHandled ==
    /\ Starting =>
          \/ loader.msg.type = "StartByName" /\ loader.msg.from \in {"menu", "apps", "remote"}
          \/ loader.msg.type \in {"Detached", "Autorun", "Deferred"} /\ loader.msg.from = "none"
    /\ Starting /\ loader.msg.type = "Deferred" => loader.msg.name \in LaunchNames
    /\ loader.at = "joining" => loader.msg.type \in ClosedTypes
    /\ loader.at = "dialog" => loader.msg.type \in {"Detached", "Deferred"}
    /\ \A i \in 1..Len(launchQueue) : launchQueue[i] \in LaunchNames

\* Every caller is inside one call: its message waits, is handled, or is answered.
Handled(c) == loader.at \in {"announcing", "starting"} /\ loader.msg.from = c
Calls ==
    /\ queue # <<>> => WhoSends(Head(queue))
    /\ desktop.at = "posting" => desktop.msg.type \in {"ShowMenu", "Detached"} /\ desktop.msg.from = "none"
    /\ \A c \in Callers :
          /\ queue # <<>> /\ Head(queue).from = c => Calling(c) /\ answers[c] = "none" /\ ~Handled(c)
          /\ Handled(c) => Calling(c) /\ answers[c] = "none"
          /\ answers[c] # "none" => Calling(c)
    /\ Handled("remote") => remote.type = "StartByName"

\* The life of the threads: what the code does and what waits to be scrubbed.
Life ==
    /\ \A t \in Threads :
          /\ doing[t] \in {"active", "calling", "waiting", "closing"} => threadState[t] = "Running"
          /\ doing[t] = "over" => threadState[t] \in {"Stopping", "Stopped"}
    /\ \A i \in 1..Len(scrubQueue) : threadState[scrubQueue[i]] = "Stopping"
    /\ \A i, j \in 1..Len(scrubQueue) : scrubQueue[i] = scrubQueue[j] => i = j

\* The end of the application is announced by one of three.
InQueue == queue # <<>> /\ Head(queue).type = "AppClosed"
Joining == loader.at = "joining" /\ loader.msg.type = "AppClosed"
Closing ==
    /\ app.thread = "app" <=> threadState["app"] # "Freed"
    /\ threadState["app"] = "Stopped" <=> InQueue \/ Joining \/ scrubbed = "app"
    /\ ~(InQueue /\ Joining) /\ ~(InQueue /\ scrubbed = "app") /\ ~(Joining /\ scrubbed = "app")

\* The lock is given back by the thread that got it.
Unlocking == queue # <<>> /\ Head(queue).type = "Unlock"
Granted == remote.at = "calling" /\ remote.type = "Lock" /\ answers["remote"] = "true"
LockInv ==
    /\ Unlocking \/ Granted \/ remote.locked => app.thread = "locked"
    /\ ~(Unlocking /\ Granted) /\ ~(Unlocking /\ remote.locked) /\ ~(Granted /\ remote.locked)

\* What is kept of the running application is about it.
Kept == app.thread = "app" => app.path = running.name /\ app.insomniac = (running.name = "external")

\* What the desktop has been told of a start, and what it will be.
Last == events[Len(events)]
Told ==
    /\ desktop.at = "boot" => events = <<>>
    /\ loader.at = "starting" =>
          /\ desktop.at \in {"boot", "subscribed", "calling"} /\ answers["desktop"] = "none"
          /\ events = <<>>
    /\ loader.at = "announcing" /\ animation =>
          desktop.at \in {"ready", "posting"} /\ events = <<>> /\ desktop.appRunning
    /\ loader.at = "announcing" /\ ~animation =>
          /\ events # <<>> /\ Last = "before"
          /\ \A i \in 1..Len(events) : events[i] = "before" => i = Len(events)
    /\ loader.at # "announcing" =>
          ~animation /\ \A i \in 1..Len(events) : events[i] # "before"

\* What it knows of an application that runs.
Known ==
    app.thread = "app" =>
        /\ \A i \in 1..Len(events) : events[i] # "after"
        /\ desktop.at \in {"ready", "posting"} => desktop.appRunning
        /\ desktop.at = "calling" => answers["desktop"] \in {"none", "true"}

\* What is left in the launch queue is left by the application that runs, or is being
\* launched one after the other.
Left == launchQueue # <<>> =>
    app.thread = "app" \/ (Starting /\ loader.msg.type = "Deferred")

\* The inductive invariant.
LoaderInv ==
    /\ TypeOK
    /\ Calls
    /\ WhatIsHandled
    /\ Life
    /\ Closing
    /\ LockInv
    /\ Kept
    /\ InsomniaBalanced

-----------------------------------------------------------------------------
(* Queues *)

\* What holds of all elements of a queue holds of its first and of the rest.
LEMMA QueueTail ==
    ASSUME NEW S, NEW q \in Seq(S), q # <<>>
    PROVE  /\ Head(q) = q[1] /\ Head(q) \in S
           /\ Tail(q) \in Seq(S) /\ Len(Tail(q)) = Len(q) - 1
           /\ 1 \in 1..Len(q)
           /\ \A i \in 1..Len(Tail(q)) : i + 1 \in 2..Len(q) /\ Tail(q)[i] = q[i + 1]
OBVIOUS

\* What holds of all elements of a queue and of a new one holds of all again.
LEMMA QueueAppend ==
    ASSUME NEW S, NEW q \in Seq(S), NEW m \in S
    PROVE  /\ Append(q, m) \in Seq(S) /\ Len(Append(q, m)) = Len(q) + 1
           /\ Len(q) \in Nat
           /\ \A i \in 1..Len(Append(q, m)) :
                 \/ i \in 1..Len(q) /\ Append(q, m)[i] = q[i]
                 \/ i = Len(q) + 1 /\ Append(q, m)[i] = m
OBVIOUS

\* The queue of one message is empty when a message is posted, and holds that one then.
LEMMA PostAlone ==
    ASSUME TypeOK, NEW m \in Messages, Post(m)
    PROVE  /\ queue = <<>>
           /\ queue' # <<>> /\ Head(queue') = m
           /\ queue' \in Seq(Messages) /\ Len(queue') <= 1
<1>1. queue \in Seq(Messages) /\ queue' = Append(queue, m) /\ Len(queue) < 1
    BY DEF Post, TypeOK
<1>2. queue = <<>> /\ Len(queue) = 0
    BY <1>1, EmptySeq
<1>3. queue' \in Seq(Messages) /\ Len(queue') = 1 /\ queue' # <<>>
    BY <1>1, <1>2, AppendProperties
<1>4. Head(queue') = m
    BY <1>1, <1>2, HeadTailAppend, Zenon
<1> QED
    BY <1>2, <1>3, <1>4

\* It is empty again when the loader has taken the message.
LEMMA TakeAlone ==
    ASSUME TypeOK, queue # <<>>
    PROVE  Head(queue) \in Messages /\ Tail(queue) = <<>>
<1>1. queue \in Seq(Messages) /\ Len(queue) <= 1
    BY DEF TypeOK
<1>2. /\ Head(queue) \in Messages /\ Tail(queue) \in Seq(Messages)
      /\ Len(Tail(queue)) = Len(queue) - 1
    BY <1>1, HeadTailProperties, Zenon
<1>3. Len(queue) \in Nat \ {0}
    BY <1>1, EmptySeq, Zenon
<1>4. Len(Tail(queue)) = 0
    BY <1>1, <1>2, <1>3
<1> QED
    BY <1>2, <1>4, EmptySeq

\* The threads of the loader are the application's, the menu's and the browser's.
LEMMA TheThreads ==
    /\ Threads = {"app", "menu", "apps"}
    /\ Callers = {"app", "menu", "apps", "remote", "desktop"}
    /\ NoName \notin Names /\ NoThread \notin Threads
    /\ LaunchNames \subseteq Names
    /\ StartNames \subseteq Names
    /\ DesktopNames \subseteq Names
    /\ Autorun \in Names \union {NoName}
    /\ RemoteQueries \subseteq Queries
BY LoaderAssumption, ThreadsAssumption DEF LoaderAssumption, ThreadsAssumption, Callers

-----------------------------------------------------------------------------
(* Types *)

LoaderTyped ==
    /\ loader \in [at : {"boot", "get", "announcing", "starting", "dialog", "joining"},
                   msg : Messages]
    /\ launchQueue \in Seq(Names) /\ Len(launchQueue) <= LaunchQueueSize
    /\ events \in Seq({"before", "after"})
    /\ stopFlag \in BOOLEAN

\* The events published to the desktop and the browser keep their types.
LEMMA EmitTyped ==
    ASSUME TypeOK, NEW thread, EmitQueueEmpty(thread)
    PROVE  events' \in Seq({"before", "after"}) /\ stopFlag' \in BOOLEAN
<1>1. events \in Seq({"before", "after"}) /\ stopFlag \in BOOLEAN
    BY DEF TypeOK
<1>2. events' = events \/ events' = Append(events, "after")
    BY DEF EmitQueueEmpty
<1>3. stopFlag' = stopFlag \/ stopFlag' = (stopFlag \/ AppsListens)
    BY DEF EmitQueueEmpty
<1>4. stopFlag' \in BOOLEAN
    BY <1>1, <1>3, Zenon
<1> QED
    BY <1>1, <1>2, <1>4

\* The start of an application begins well typed.
LEMMA BeginTyped ==
    ASSUME TypeOK, NEW m \in Messages, BeginStart(m)
    PROVE  /\ loader' \in [at : {"announcing", "starting"}, msg : {m}]
           /\ events' \in Seq({"before", "after"}) /\ stopFlag' \in BOOLEAN
<1>1. events \in Seq({"before", "after"}) /\ stopFlag \in BOOLEAN
    BY DEF TypeOK
<1>2. events' = events \/ events' = Append(events, "before")
    BY DEF BeginStart
<1>3. events' \in Seq({"before", "after"})
    BY <1>1, <1>2
<1> QED
    BY <1>1, <1>3 DEF BeginStart, LoaderGoes

\* So does the next of the launch queue.
LEMMA DeferredTyped ==
    ASSUME TypeOK, NEW thread, NextDeferred(thread)
    PROVE  LoaderTyped'
<1>1. launchQueue \in Seq(Names) /\ Len(launchQueue) <= LaunchQueueSize /\ LaunchQueueSize \in Nat
    BY LoaderAssumption DEF TypeOK, LoaderAssumption
<1>2. NoMessage \in Messages
    BY DEF NoMessage, Message, Messages
<1>3. CASE launchQueue = <<>>
    BY <1>1, <1>2, <1>3, EmitTyped DEF NextDeferred, LoaderGoes, LoaderTyped
<1>4. CASE launchQueue # <<>>
    <2>1. /\ Head(launchQueue) \in Names /\ Tail(launchQueue) \in Seq(Names)
          /\ Len(Tail(launchQueue)) <= LaunchQueueSize
        BY <1>1, <1>4, QueueTail
    <2>2. Message("Deferred", Head(launchQueue), "none") \in Messages
        BY <2>1 DEF Message, Messages
    <2> QED
        BY <1>4, <2>1, <2>2, BeginTyped DEF NextDeferred, LoaderTyped
<1> QED
    BY <1>3, <1>4

\* What follows a start that failed keeps the types.
LEMMA FailureTyped ==
    ASSUME TypeOK, NEW m \in Messages, AfterFailure(m)
    PROVE  LoaderTyped'
<1>1. NoMessage \in Messages
    BY DEF NoMessage, Message, Messages
<1>2. CASE m.type = "Deferred" /\ NextDeferred(app.thread)
    BY <1>2, DeferredTyped
<1>3. CASE LoaderGoes("get", NoMessage) /\ UNCHANGED launchQueue
    <2>1. events' \in Seq({"before", "after"}) /\ stopFlag' \in BOOLEAN
        BY EmitTyped, DeferredTyped DEF AfterFailure, TypeOK, LoaderTyped
    <2> QED
        BY <1>1, <1>3, <2>1 DEF LoaderGoes, LoaderTyped, TypeOK
<1> QED
    BY <1>2, <1>3 DEF AfterFailure

\* The system starts well typed.
LEMMA TypedInit == Init => TypeOK
<1> SUFFICES ASSUME Init PROVE TypeOK
    OBVIOUS
<1> USE TheThreads
<1>1. ThreadsTypeOK
    <2>1. ScrubQueueSize \in Nat
        BY ThreadsAssumption DEF ThreadsAssumption
    <2> QED
        BY <2>1 DEF Init, ThreadsInit, ThreadsTypeOK, ThreadStates
<1>2. /\ budget \in [remote : 0 .. MaxRemote, desktop : 0 .. MaxDesktop,
                     starts : 0 .. MaxStarts, calls : 0 .. MaxAppCalls]
      /\ LaunchQueueSize \in Nat
    BY LoaderAssumption DEF LoaderAssumption, Init
<1>3. NoMessage \in Messages
    BY DEF NoMessage, Message, Messages
<1>4. LoaderTyped /\ queue \in Seq(Messages) /\ Len(queue) <= 1
    <2>1. stopFlag \in BOOLEAN
        BY Zenon DEF Init
    <2> QED
        BY <1>2, <1>3, <2>1 DEF Init, LoaderTyped
<1>5. animation \in BOOLEAN /\ crashed \in BOOLEAN
    BY Zenon DEF Init
<1>6. /\ app \in [thread : {"NULL", "locked", "app"}, path : Names \union {NoName},
                  insomniac : BOOLEAN]
      /\ remote \in [at : {"idle", "calling"}, type : SyncTypes \union {"none"},
                     locked : BOOLEAN]
      /\ desktop \in [at : {"boot", "subscribed", "calling", "ready", "posting"},
                      msg : Messages, appRunning : BOOLEAN]
    BY <1>3 DEF Init
<1>7. /\ answers \in [Callers -> Results \union {"none"}]
      /\ doing \in [Threads -> {"away", "active", "calling", "waiting", "closing", "over"}]
      /\ running \in [name : Names \union {NoName}, by : Callers \union {"none"}]
      /\ shown = {} /\ insomnia = 0
    BY DEF Init, Nobody
<1> QED
    BY <1>1, <1>2, <1>4, <1>5, <1>6, <1>7 DEF TypeOK, LoaderTyped

\* Each step of a thread's life keeps the types.
LEMMA ThreadStepTyped ==
    ASSUME TypeOK, NEW t \in Threads,
           \/ ThreadStarts(t) \/ ThreadBegins(t) \/ ThreadEnds(t) \/ ThreadQueues(t)
           \/ ScrubTakes \/ ScrubCalls(t) \/ ThreadJoined(t) \/ UNCHANGED threadVars
    PROVE  ThreadsTypeOK'
<1>1. /\ threadState \in [Threads -> ThreadStates]
      /\ scrubQueue \in Seq(Threads) /\ Len(scrubQueue) <= ScrubQueueSize
      /\ scrubbed \in Threads \union {NoThread}
      /\ ScrubQueueSize \in Nat
    BY ThreadsAssumption DEF ThreadsAssumption, TypeOK, ThreadsTypeOK
<1>2. CASE ThreadStarts(t) \/ ThreadBegins(t) \/ ThreadEnds(t) \/ ThreadJoined(t)
    BY <1>1, <1>2 DEF ThreadStarts, ThreadBegins, ThreadEnds, ThreadJoined, ThreadGoes,
                      ThreadsTypeOK, ThreadStates
<1>3. CASE ThreadQueues(t)
    BY <1>1, <1>3, QueueAppend DEF ThreadQueues, ThreadsTypeOK
<1>4. CASE ScrubTakes
    <2>1. /\ Head(scrubQueue) \in Threads /\ Tail(scrubQueue) \in Seq(Threads)
          /\ Len(Tail(scrubQueue)) <= ScrubQueueSize
        BY <1>1, <1>4, QueueTail DEF ScrubTakes
    <2> QED
        BY <1>1, <1>4, <2>1 DEF ScrubTakes, ThreadsTypeOK, ThreadStates
<1>5. CASE ScrubCalls(t) \/ UNCHANGED threadVars
    BY <1>1, <1>5 DEF ScrubCalls, threadVars, ThreadsTypeOK
<1> QED
    BY <1>2, <1>3, <1>4, <1>5

\* An answer keeps the types.
LEMMA AnswerTyped ==
    ASSUME TypeOK, NEW m \in Messages, NEW r \in Results, Answer(m, r) \/ UNCHANGED answers
    PROVE  answers' \in [Callers -> Results \union {"none"}]
BY DEF Answer, TypeOK

\* The application that starts, or the browser, keeps the types.
LEMMA LaunchTyped ==
    ASSUME TypeOK, NEW m \in Messages, Launch(m), m.name # "Apps" => m.name \in Runnable
    PROVE  /\ ThreadsTypeOK' /\ LoaderTyped'
           /\ app' \in [thread : {"NULL", "locked", "app"}, path : Names \union {NoName},
                        insomniac : BOOLEAN]
           /\ shown' \subseteq {"menu", "apps"}
           /\ insomnia' \in Nat
           /\ running' \in [name : Names \union {NoName}, by : Callers \union {"none"}]
<1> USE TheThreads
<1>1. NoMessage \in Messages
    BY DEF NoMessage, Message, Messages
<1>2. LoaderTyped'
    BY <1>1 DEF Launch, LoaderGoes, LoaderTyped, TypeOK
<1>3. "apps" \in Threads /\ "app" \in Threads
    OBVIOUS
<1>4. CASE m.name = "Apps"
    <2>1. ThreadsTypeOK'
        BY <1>3, <1>4, ThreadStepTyped DEF Launch, ShowApps
    <2> QED
        BY <1>2, <1>4, <2>1 DEF Launch, ShowApps, TypeOK, Names
<1>5. CASE m.name # "Apps"
    <2>1. ThreadsTypeOK'
        BY <1>3, <1>5, ThreadStepTyped DEF Launch, StartApp
    <2>2. m.name \in Names /\ m.from \in Callers \union {"none"}
        BY <1>5 DEF Names, Messages
    <2>3. insomnia' \in Nat /\ shown' = shown
        BY <1>5 DEF Launch, StartApp, TypeOK
    <2>4. app' \in [thread : {"app"}, path : Names \union {NoName}, insomniac : BOOLEAN]
        <3>1. (m.name = "external") \in BOOLEAN
            OBVIOUS
        <3>2. app' = [thread |-> "app", path |-> m.name, insomniac |-> m.name = "external"]
            BY <1>5 DEF Launch, StartApp
        <3> QED
            BY <2>2, <3>1, <3>2, Zenon
    <2>5. running' \in [name : Names \union {NoName}, by : Callers \union {"none"}]
        BY <1>5, <2>2 DEF Launch, StartApp
    <2> QED
        BY <1>2, <2>1, <2>3, <2>4, <2>5 DEF TypeOK
<1> QED
    BY <1>4, <1>5

\* What the budget allows keeps the types.
LEMMA BudgetTyped ==
    ASSUME TypeOK,
           \/ budget.remote > 0 /\ budget' = [budget EXCEPT !.remote = @ - 1]
           \/ budget.desktop > 0 /\ budget' = [budget EXCEPT !.desktop = @ - 1]
           \/ budget.starts > 0 /\ budget' = [budget EXCEPT !.starts = @ - 1]
           \/ budget.calls > 0 /\ budget' = [budget EXCEPT !.calls = @ - 1]
    PROVE  budget' \in [remote : 0 .. MaxRemote, desktop : 0 .. MaxDesktop,
                        starts : 0 .. MaxStarts, calls : 0 .. MaxAppCalls]
<1>1. MaxRemote \in Nat /\ MaxDesktop \in Nat /\ MaxStarts \in Nat /\ MaxAppCalls \in Nat
    BY LoaderAssumption DEF LoaderAssumption
<1>2. budget \in [remote : 0 .. MaxRemote, desktop : 0 .. MaxDesktop,
                  starts : 0 .. MaxStarts, calls : 0 .. MaxAppCalls]
    BY DEF TypeOK
<1>3. /\ budget.remote > 0 => budget.remote - 1 \in 0 .. MaxRemote
      /\ budget.desktop > 0 => budget.desktop - 1 \in 0 .. MaxDesktop
      /\ budget.starts > 0 => budget.starts - 1 \in 0 .. MaxStarts
      /\ budget.calls > 0 => budget.calls - 1 \in 0 .. MaxAppCalls
    BY <1>1, <1>2
<1> QED
    BY <1>2, <1>3

\* The step of one thread, but for its life, keeps the types if its own variables do.
LEMMA CodeTyped ==
    ASSUME TypeOK, CodeOnly, ThreadsTypeOK',
           NEW t \in Threads,
           NEW from, NEW to \in {"active", "calling", "waiting", "closing", "over"},
           CodeGoes(t, from, to) \/ UNCHANGED doing,
           queue' \in Seq(Messages) /\ Len(queue') <= 1,
           stopFlag' \in BOOLEAN,
           answers' \in [Callers -> Results \union {"none"}],
           budget' \in [remote : 0 .. MaxRemote, desktop : 0 .. MaxDesktop,
                        starts : 0 .. MaxStarts, calls : 0 .. MaxAppCalls]
    PROVE  TypeOK'
BY DEF CodeOnly, loaderVars, desktopVars, CodeGoes, TypeOK

\* A step of the loader, or of the desktop, touches nothing else.
LEMMA LoaderStepTyped ==
    ASSUME TypeOK, ThreadsTypeOK', LoaderTyped',
           queue' \in Seq(Messages) /\ Len(queue') <= 1,
           app' \in [thread : {"NULL", "locked", "app"}, path : Names \union {NoName},
                     insomniac : BOOLEAN],
           shown' \subseteq {"menu", "apps"},
           insomnia' \in Nat,
           running' \in [name : Names \union {NoName}, by : Callers \union {"none"}],
           doing' \in [Threads -> {"away", "active", "calling", "waiting", "closing", "over"}],
           animation' \in BOOLEAN,
           answers' \in [Callers -> Results \union {"none"}],
           crashed' \in BOOLEAN,
           UNCHANGED <<remote, desktop, budget>>
    PROVE  TypeOK'
BY DEF LoaderTyped, TypeOK

\* A known message is one.
LEMMA KnownMessage ==
    ASSUME NEW type \in AsyncTypes \union SyncTypes \union {"Autorun", "Deferred", "none"},
           NEW name \in Names \union {NoName}, NEW from \in Callers \union {"none"}
    PROVE  Message(type, name, from) \in Messages
BY DEF Message, Messages

\* The outcome of a start is an answer, and "ok" only for what can run.
LEMMA OutcomeTyped ==
    ASSUME NEW name
    PROVE  /\ Outcome(name) \in Results
           /\ Outcome(name) = "ok" => app.thread = "NULL" /\ name \in Runnable \union {"Apps"}
<1>1. CASE app.thread # "NULL"
    <2>1. Outcome(name) = "started"
        BY <1>1 DEF Outcome
    <2> QED
        BY <2>1 DEF Results
<1>2. CASE app.thread = "NULL" /\ name \in Runnable \union {"Apps"}
    <2>1. Outcome(name) = "ok"
        BY <1>2 DEF Outcome
    <2> QED
        BY <1>2, <2>1 DEF Results
<1>3. CASE app.thread = "NULL" /\ name \notin Runnable \union {"Apps"}
    <2>1. Outcome(name) = "failed"
        BY <1>3 DEF Outcome
    <2> QED
        BY <2>1 DEF Results
<1> QED
    BY <1>1, <1>2, <1>3

\* Every step keeps the types.
LEMMA TypedStep == LoaderInv /\ [Next]_vars => TypeOK'
<1> SUFFICES ASSUME LoaderInv, [Next]_vars
             PROVE  TypeOK'
    OBVIOUS
<1>a. TypeOK
    BY DEF LoaderInv
<1>b. NoMessage \in Messages
    BY DEF NoMessage, Message, Messages
<1>c. UNCHANGED threadVars => ThreadsTypeOK'
    BY <1>a, TheThreads, ThreadStepTyped
<1>d. UNCHANGED <<loader, launchQueue, events, stopFlag>> => LoaderTyped'
    BY <1>a DEF TypeOK, LoaderTyped
<1>e. "none" \in Results \union {"none"}
    OBVIOUS
<1>1. CASE UNCHANGED vars
    BY <1>1, <1>a, <1>c DEF vars, loaderVars, codeVars, desktopVars, TypeOK
<1>2. CASE LoaderBoots
    <2>1. Autorun # NoName => Message("Autorun", Autorun, "none") \in Messages
        BY TheThreads, KnownMessage
    <2>2. LoaderTyped'
        BY <1>2, <1>a, <1>b, <2>1, BeginTyped DEF LoaderBoots, LoaderGoes, LoaderTyped, TypeOK
    <2> QED
        BY <1>2, <1>a, <1>c, <2>2 DEF LoaderBoots, TypeOK, LoaderTyped
<1>3. CASE LoaderGets
    <2> DEFINE m == Head(queue)
    <2>1. m \in Messages /\ queue' = <<>> /\ queue' \in Seq(Messages) /\ Len(queue') <= 1
        <3>1. Head(queue) \in Messages /\ queue' = <<>>
            BY <1>3, <1>a, TakeAlone DEF LoaderGets
        <3> QED
            BY <3>1, EmptySeq
    <2> HIDE DEF m
    <2>2. /\ UNCHANGED <<insomnia, running, doing, remote, desktop, animation, budget>>
          /\ insomnia \in Nat
          /\ running \in [name : Names \union {NoName}, by : Callers \union {"none"}]
          /\ doing \in [Threads -> {"away", "active", "calling", "waiting", "closing", "over"}]
          /\ animation \in BOOLEAN /\ shown \subseteq {"menu", "apps"} /\ crashed \in BOOLEAN
          /\ app \in [thread : {"NULL", "locked", "app"}, path : Names \union {NoName},
                      insomniac : BOOLEAN]
          /\ answers \in [Callers -> Results \union {"none"}]
          /\ launchQueue \in Seq(Names) /\ Len(launchQueue) <= LaunchQueueSize
          /\ events \in Seq({"before", "after"}) /\ stopFlag \in BOOLEAN
        BY <1>3, <1>a DEF LoaderGets, TypeOK
    <2>3. CASE HandleShowMenu(m)
        <3>1. ThreadsTypeOK'
            BY <1>a, <2>3, ThreadStepTyped, TheThreads DEF HandleShowMenu
        <3>2. LoaderTyped' /\ shown' \subseteq {"menu", "apps"}
            BY <1>b, <2>2, <2>3 DEF HandleShowMenu, LoaderGoes, LoaderTyped
        <3> QED
            BY <1>a, <2>1, <2>2, <2>3, <3>1, <3>2, LoaderStepTyped DEF HandleShowMenu
    <2>4. CASE HandleStart(m)
        <3>1. LoaderTyped'
            BY <1>a, <2>1, <2>2, <2>4, BeginTyped DEF HandleStart, LoaderTyped
        <3> QED
            BY <1>a, <1>c, <2>1, <2>2, <2>4, <3>1, LoaderStepTyped DEF HandleStart
    <2>5. CASE HandleClosed(m)
        <3>1. LoaderTyped'
            BY <2>1, <2>2, <2>5 DEF HandleClosed, LoaderGoes, LoaderTyped
        <3> QED
            BY <1>a, <1>c, <2>1, <2>2, <2>5, <3>1, LoaderStepTyped DEF HandleClosed
    <2>6. ASSUME Finish, LaunchQueueSize \in Nat
          PROVE  /\ ThreadsTypeOK' /\ shown' \subseteq {"menu", "apps"}
                 /\ loader' \in [at : {"get"}, msg : Messages]
                 /\ events' \in Seq({"before", "after"}) /\ stopFlag' \in BOOLEAN
        BY <1>b, <1>c, <2>2, <2>6 DEF Finish, LoaderGoes
    <2>7. LaunchQueueSize \in Nat
        BY LoaderAssumption DEF LoaderAssumption
    <2>8. CASE HandleLock(m)
        <3>1. app' \in [thread : {"NULL", "locked", "app"}, path : Names \union {NoName},
                        insomniac : BOOLEAN]
            BY <2>2, <2>8 DEF HandleLock
        <3>2. answers' \in [Callers -> Results \union {"none"}]
            BY <1>a, <2>1, <2>8, AnswerTyped DEF HandleLock, Results
        <3>3. LoaderTyped'
            BY <2>2, <2>6, <2>7, <2>8 DEF HandleLock, LoaderTyped
        <3> QED
            BY <1>a, <2>1, <2>2, <2>6, <2>7, <2>8, <3>1, <3>2, <3>3, LoaderStepTyped
               DEF HandleLock
    <2>9. CASE HandleUnlock(m)
        <3>1. app' \in [thread : {"NULL", "locked", "app"}, path : Names \union {NoName},
                        insomniac : BOOLEAN]
            BY <2>2, <2>9 DEF HandleUnlock
        <3>2. crashed' \in BOOLEAN
            BY <2>9 DEF HandleUnlock
        <3>3. LoaderTyped'
            BY <2>2, <2>6, <2>7, <2>9 DEF HandleUnlock, LoaderTyped
        <3> QED
            BY <1>a, <2>1, <2>2, <2>6, <2>7, <2>9, <3>1, <3>2, <3>3, LoaderStepTyped
               DEF HandleUnlock
    <2>10. CASE HandleQuery(m)
        <3>1. answers' \in [Callers -> Results \union {"none"}]
            BY <1>a, <2>1, <2>10, AnswerTyped DEF HandleQuery, Results
        <3>2. LoaderTyped'
            BY <2>2, <2>6, <2>7, <2>10 DEF HandleQuery, LoaderTyped
        <3> QED
            BY <1>a, <2>1, <2>2, <2>6, <2>7, <2>10, <3>1, <3>2, LoaderStepTyped
               DEF HandleQuery
    <2>11. CASE HandleEnqueueLaunch(m)
        <3>1. answers' \in [Callers -> Results \union {"none"}]
            BY <1>a, <2>1, <2>11, AnswerTyped DEF HandleEnqueueLaunch, Results
        <3>2. crashed' \in BOOLEAN
            BY <2>11 DEF HandleEnqueueLaunch
        <3>3. m.name \in Names
            <4>1. WhoSends(m)
                BY <1>3 DEF LoaderGets, LoaderInv, Calls, m
            <4> QED
                BY <2>11, <4>1, TheThreads DEF HandleEnqueueLaunch, WhoSends, AsyncTypes, Queries
        <3>4. launchQueue' \in Seq(Names) /\ Len(launchQueue') <= LaunchQueueSize
            BY <2>2, <2>7, <2>11, <3>3, QueueAppend DEF HandleEnqueueLaunch
        <3>5. LoaderTyped'
            BY <2>6, <2>7, <2>11, <3>4 DEF HandleEnqueueLaunch, LoaderTyped
        <3> QED
            BY <1>a, <2>1, <2>2, <2>6, <2>7, <2>11, <3>1, <3>2, <3>5, LoaderStepTyped
               DEF HandleEnqueueLaunch
    <2>12. CASE HandleClearLaunchQueue(m)
        <3>1. answers' \in [Callers -> Results \union {"none"}]
            BY <1>a, <2>1, <2>12, AnswerTyped DEF HandleClearLaunchQueue, Results
        <3>2. launchQueue' \in Seq(Names) /\ Len(launchQueue') <= LaunchQueueSize
            BY <2>7, <2>12 DEF HandleClearLaunchQueue
        <3>3. LoaderTyped'
            BY <2>6, <2>7, <2>12, <3>2 DEF HandleClearLaunchQueue, LoaderTyped
        <3> QED
            BY <1>a, <2>1, <2>2, <2>6, <2>7, <2>12, <3>1, <3>3, LoaderStepTyped
               DEF HandleClearLaunchQueue
    <2> QED
        BY <1>3, <2>3, <2>4, <2>5, <2>8, <2>9, <2>10, <2>11, <2>12 DEF LoaderGets, m
<1>4. CASE StartByName
    <2> DEFINE m == loader.msg
    <2>1. m \in Messages /\ app \in [thread : {"NULL", "locked", "app"},
                                     path : Names \union {NoName}, insomniac : BOOLEAN]
        BY <1>a DEF TypeOK
    <2>2. answers' \in [Callers -> Results \union {"none"}]
        BY <1>4, <1>a, <2>1, AnswerTyped, OutcomeTyped DEF StartByName
    <2>3. /\ animation' \in BOOLEAN
          /\ queue' \in Seq(Messages) /\ Len(queue') <= 1
          /\ doing' \in [Threads -> {"away", "active", "calling", "waiting", "closing", "over"}]
          /\ crashed' \in BOOLEAN /\ UNCHANGED <<remote, desktop, budget>>
        BY <1>4, <1>a DEF StartByName, TypeOK
    <2>4. CASE Launch(m) /\ Outcome(m.name) = "ok"
        <3>1. m.name # "Apps" => m.name \in Runnable
            BY <2>4, OutcomeTyped
        <3> QED
            BY <1>a, <2>1, <2>2, <2>3, <2>4, <3>1, LaunchTyped, LoaderStepTyped
    <2>5. CASE Refuse(m)
        <3>1. LoaderTyped'
            BY <1>a, <2>1, <2>5, FailureTyped DEF Refuse, LoaderGoes, LoaderTyped, TypeOK
        <3>2. UNCHANGED <<app, insomnia, running, shown, threadVars>>
            BY <2>5 DEF Refuse
        <3>3. insomnia \in Nat /\ shown \subseteq {"menu", "apps"}
              /\ running \in [name : Names \union {NoName}, by : Callers \union {"none"}]
            BY <1>a DEF TypeOK
        <3> QED
            BY <1>a, <1>c, <2>1, <2>2, <2>3, <3>1, <3>2, <3>3, LoaderStepTyped
    <2> QED
        BY <1>4, <2>4, <2>5 DEF StartByName
<1>5. CASE LoaderJoined
    <2> DEFINE t == ThreadOf(loader.msg)
    <2>1. t \in Threads
        BY TheThreads DEF ThreadOf
    <2>2. ThreadsTypeOK'
        BY <1>5, <1>a, <2>1, ThreadStepTyped DEF LoaderJoined
    <2>3. /\ animation' \in BOOLEAN
          /\ queue' \in Seq(Messages) /\ Len(queue') <= 1
          /\ doing' \in [Threads -> {"away", "active", "calling", "waiting", "closing", "over"}]
          /\ answers' \in [Callers -> Results \union {"none"}]
          /\ crashed' \in BOOLEAN /\ UNCHANGED <<remote, desktop, budget>>
          /\ shown' \subseteq {"menu", "apps"}
        BY <1>5, <1>a DEF LoaderJoined, TypeOK
    <2>4. CASE t = "app"
        <3>1. LoaderTyped'
            BY <1>5, <1>a, <2>4, DeferredTyped DEF LoaderJoined
        <3>2. /\ app' \in [thread : {"NULL", "locked", "app"}, path : Names \union {NoName},
                           insomniac : BOOLEAN]
              /\ running' \in [name : Names \union {NoName}, by : Callers \union {"none"}]
            BY <1>5, <1>a, <2>4 DEF LoaderJoined, TypeOK, Nobody
        <3>3. insomnia' \in Nat
            <4>1. threadState["app"] = "Stopped"
                BY <1>5, <2>4 DEF LoaderJoined, ThreadJoined, ThreadGoes
            <4>2. app.thread = "app" /\ app.insomniac = (running.name = "external")
                BY <4>1 DEF LoaderInv, Closing, Kept
            <4>3. insomnia = IF running.name = "external" THEN 1 ELSE 0
                BY <4>1 DEF LoaderInv, InsomniaBalanced
            <4>4. insomnia' = insomnia - (IF app.insomniac THEN 1 ELSE 0)
                BY <1>5, <2>4 DEF LoaderJoined
            <4>5. app.insomniac \in BOOLEAN
                BY <1>a DEF TypeOK
            <4>6. CASE running.name = "external"
                <5>1. app.insomniac
                    BY <4>2, <4>6
                <5> QED
                    BY <4>3, <4>4, <4>6, <5>1
            <4>7. CASE running.name # "external"
                <5>1. ~app.insomniac
                    BY <4>2, <4>7
                <5> QED
                    BY <4>3, <4>4, <4>7, <5>1
            <4> QED
                BY <4>6, <4>7
        <3> QED
            BY <1>a, <2>2, <2>3, <3>1, <3>2, <3>3, LoaderStepTyped
    <2>5. CASE t # "app"
        <3>1. LoaderTyped'
            BY <1>5, <1>a, <1>b, <2>5 DEF LoaderJoined, LoaderGoes, LoaderTyped, TypeOK
        <3>2. UNCHANGED <<app, insomnia, running>>
            BY <1>5, <2>5 DEF LoaderJoined
        <3> QED
            BY <1>a, <2>2, <2>3, <3>1, <3>2, LoaderStepTyped DEF TypeOK
    <2> QED
        BY <2>4, <2>5
<1>6. CASE DialogDismissed
    <2>1. LoaderTyped'
        BY <1>6, <1>a, FailureTyped DEF DialogDismissed, TypeOK
    <2> QED
        BY <1>6, <1>a, <1>c, <2>1, LoaderStepTyped DEF DialogDismissed, TypeOK
<1>7. CASE AnnouncementFails
    BY <1>7, <1>a, <1>c DEF AnnouncementFails, loaderVars, codeVars, desktopVars, TypeOK
<1>8. ASSUME NEW t \in Threads,
             Begin(t) \/ Answered(t) \/ Close(t) \/ End(t) \/ Queue(t) \/ StateCallback(t)
             \/ (\E n \in StartNames : CallStart(t, n))
             \/ (t = "app" /\ \E type \in {"EnqueueLaunch", "ClearLaunchQueue"},
                                 n \in Names \union {NoName} : AppCalls(type, n))
             \/ (t = "apps" /\ BrowserWakes)
             \/ Scrub
      PROVE  TypeOK'
    <2>1. /\ queue \in Seq(Messages) /\ Len(queue) <= 1 /\ stopFlag \in BOOLEAN
          /\ answers \in [Callers -> Results \union {"none"}]
          /\ budget \in [remote : 0 .. MaxRemote, desktop : 0 .. MaxDesktop,
                         starts : 0 .. MaxStarts, calls : 0 .. MaxAppCalls]
        BY <1>a DEF TypeOK
    <2>2. t \in Callers
        BY <1>8, TheThreads
    <2>3. CASE Begin(t)
        <3>1. stopFlag' \in BOOLEAN
            BY <2>3 DEF Begin
        <3>2. ThreadsTypeOK'
            BY <1>a, <2>3, ThreadStepTyped DEF Begin
        <3>3. CodeOnly /\ CodeGoes(t, "away", "active") /\ UNCHANGED <<queue, answers, budget>>
            BY <2>3 DEF Begin
        <3> QED
            BY <1>a, <2>1, <3>1, <3>2, <3>3, CodeTyped
    <2>4. CASE Answered(t)
        <3>1. answers' \in [Callers -> Results \union {"none"}]
            BY <2>1, <2>4 DEF Answered
        <3>2. /\ CodeOnly /\ UNCHANGED <<threadVars, queue, stopFlag, budget>>
              /\ CodeGoes(t, "calling", "active") \/ CodeGoes(t, "calling", "waiting")
            BY <2>4 DEF Answered
        <3> QED
            BY <1>a, <1>c, <2>1, <3>1, <3>2, CodeTyped
    <2>5. CASE Close(t)
        <3>1. queue' \in Seq(Messages) /\ Len(queue') <= 1
            BY <1>a, <2>5, KnownMessage, PostAlone DEF Close, AsyncTypes
        <3>2. /\ CodeOnly /\ UNCHANGED <<threadVars, stopFlag, answers, budget>>
              /\ CodeGoes(t, "active", "closing")
            BY <2>5 DEF Close
        <3> QED
            BY <1>a, <1>c, <2>1, <3>1, <3>2, CodeTyped
    <2>6. CASE End(t)
        <3>1. ThreadsTypeOK'
            BY <1>a, <2>6, ThreadStepTyped DEF End
        <3>2. /\ CodeOnly /\ UNCHANGED <<queue, stopFlag, answers, budget>>
              /\ CodeGoes(t, IF t = "app" THEN "active" ELSE "closing", "over")
            BY <2>6 DEF End
        <3> QED
            BY <1>a, <2>1, <3>1, <3>2, CodeTyped
    <2>7. CASE Queue(t) \/ Scrub
        <3>1. ThreadsTypeOK'
            BY <1>a, <2>7, ThreadStepTyped DEF Queue, Scrub
        <3>2. CodeOnly /\ UNCHANGED <<queue, doing, stopFlag, answers, budget>>
            BY <2>7 DEF Queue, Scrub
        <3> QED
            BY <1>a, <2>1, <3>1, <3>2, CodeTyped
    <2>8. CASE StateCallback(t)
        <3>1. ThreadsTypeOK'
            BY <1>a, <2>8, ThreadStepTyped DEF StateCallback
        <3>2. queue' \in Seq(Messages) /\ Len(queue') <= 1
            BY <1>a, <2>1, <2>8, KnownMessage, PostAlone DEF StateCallback, AsyncTypes
        <3>3. CodeOnly /\ UNCHANGED <<doing, stopFlag, answers, budget>>
            BY <2>8 DEF StateCallback
        <3> QED
            BY <1>a, <2>1, <3>1, <3>2, <3>3, CodeTyped
    <2>9. CASE \E n \in StartNames : CallStart(t, n)
        <3>1. PICK n \in StartNames : CallStart(t, n)
            BY <2>9
        <3>2. Message("StartByName", n, t) \in Messages
            BY <2>2, KnownMessage, TheThreads DEF SyncTypes
        <3>3. queue' \in Seq(Messages) /\ Len(queue') <= 1
            BY <1>a, <3>1, <3>2, PostAlone DEF CallStart
        <3>4. budget' \in [remote : 0 .. MaxRemote, desktop : 0 .. MaxDesktop,
                           starts : 0 .. MaxStarts, calls : 0 .. MaxAppCalls]
            BY <1>a, <3>1, BudgetTyped DEF CallStart
        <3>5. /\ CodeOnly /\ UNCHANGED <<threadVars, stopFlag, answers>>
              /\ CodeGoes(t, "active", "calling")
            BY <3>1 DEF CallStart
        <3> QED
            BY <1>a, <1>c, <2>1, <3>3, <3>4, <3>5, CodeTyped
    <2>10. CASE t = "app" /\ \E type \in {"EnqueueLaunch", "ClearLaunchQueue"},
                                n \in Names \union {NoName} : AppCalls(type, n)
        <3>1. PICK type \in {"EnqueueLaunch", "ClearLaunchQueue"}, n \in Names \union {NoName} :
                 AppCalls(type, n)
            BY <2>10
        <3>2. Message(type, n, "app") \in Messages
            BY <2>2, <2>10, <3>1, KnownMessage DEF SyncTypes
        <3>3. queue' \in Seq(Messages) /\ Len(queue') <= 1
            BY <1>a, <3>1, <3>2, PostAlone DEF AppCalls
        <3>4. budget' \in [remote : 0 .. MaxRemote, desktop : 0 .. MaxDesktop,
                           starts : 0 .. MaxStarts, calls : 0 .. MaxAppCalls]
            BY <1>a, <3>1, BudgetTyped DEF AppCalls
        <3>5. /\ CodeOnly /\ UNCHANGED <<threadVars, stopFlag, answers>>
              /\ CodeGoes(t, "active", "calling")
            BY <2>10, <3>1 DEF AppCalls
        <3> QED
            BY <1>a, <1>c, <2>1, <3>3, <3>4, <3>5, CodeTyped
    <2>11. CASE t = "apps" /\ BrowserWakes
        <3>1. stopFlag' \in BOOLEAN
            BY <2>11, Zenon DEF BrowserWakes
        <3>2. /\ CodeOnly /\ UNCHANGED <<threadVars, queue, answers, budget>>
              /\ CodeGoes(t, "waiting", "active")
            BY <2>11 DEF BrowserWakes
        <3> QED
            BY <1>a, <1>c, <2>1, <3>1, <3>2, CodeTyped
    <2> QED
        BY <1>8, <2>3, <2>4, <2>5, <2>6, <2>7, <2>8, <2>9, <2>10, <2>11
<1>9. ASSUME NEW type \in SyncTypes, NEW name \in Names \union {NoName}, RemoteCalls(type, name)
      PROVE  TypeOK'
    <2>1. Message(type, name, "remote") \in Messages
        BY KnownMessage, TheThreads
    <2>2. queue' \in Seq(Messages) /\ Len(queue') <= 1
        BY <1>9, <1>a, <2>1, PostAlone DEF RemoteCalls
    <2>3. budget' \in [remote : 0 .. MaxRemote, desktop : 0 .. MaxDesktop,
                       starts : 0 .. MaxStarts, calls : 0 .. MaxAppCalls]
        BY <1>9, <1>a, BudgetTyped DEF RemoteCalls
    <2>4. remote' \in [at : {"idle", "calling"}, type : SyncTypes \union {"none"}, locked : BOOLEAN]
        BY <1>9, <1>a DEF RemoteCalls, TypeOK
    <2> QED
        BY <1>9, <1>a, <1>c, <2>2, <2>3, <2>4 DEF RemoteCalls, RemoteOnly, loaderVars, codeVars,
                                                  desktopVars, TypeOK
<1>10. CASE RemoteAnswered
    <2>1. answers' \in [Callers -> Results \union {"none"}]
        BY <1>10, <1>a DEF RemoteAnswered, TypeOK
    <2>2. remote' \in [at : {"idle", "calling"}, type : SyncTypes \union {"none"}, locked : BOOLEAN]
        BY <1>10, <1>a DEF RemoteAnswered, TypeOK
    <2> QED
        BY <1>10, <1>a, <1>c, <2>1, <2>2 DEF RemoteAnswered, RemoteOnly, loaderVars, codeVars,
                                             desktopVars, TypeOK
<1>11. CASE RemoteUnlocks
    <2>1. Message("Unlock", NoName, "none") \in Messages
        BY KnownMessage DEF AsyncTypes
    <2>2. queue' \in Seq(Messages) /\ Len(queue') <= 1
        BY <1>11, <1>a, <2>1, PostAlone DEF RemoteUnlocks
    <2>3. remote' \in [at : {"idle", "calling"}, type : SyncTypes \union {"none"}, locked : BOOLEAN]
        BY <1>11, <1>a DEF RemoteUnlocks, TypeOK
    <2> QED
        BY <1>11, <1>a, <1>c, <2>2, <2>3 DEF RemoteUnlocks, RemoteOnly, loaderVars, codeVars,
                                             desktopVars, TypeOK
<1>12. ASSUME DesktopOnly,
              queue' \in Seq(Messages) /\ Len(queue') <= 1,
              desktop' \in [at : {"boot", "subscribed", "calling", "ready", "posting"},
                            msg : Messages, appRunning : BOOLEAN],
              events' \in Seq({"before", "after"}),
              animation' \in BOOLEAN,
              answers' \in [Callers -> Results \union {"none"}],
              budget' \in [remote : 0 .. MaxRemote, desktop : 0 .. MaxDesktop,
                           starts : 0 .. MaxStarts, calls : 0 .. MaxAppCalls]
       PROVE  TypeOK'
    BY <1>12, <1>a, <1>c DEF DesktopOnly, loaderVars, codeVars, TypeOK
<1>13. CASE DesktopSubscribes
    BY <1>13, <1>12, <1>a DEF DesktopSubscribes, TypeOK
<1>14. CASE DesktopAsks
    <2>1. Message("IsLocked", NoName, "desktop") \in Messages
        BY KnownMessage, TheThreads DEF SyncTypes, Queries
    <2>2. queue' \in Seq(Messages) /\ Len(queue') <= 1
        BY <1>14, <1>a, <2>1, PostAlone DEF DesktopAsks
    <2> QED
        BY <1>14, <1>12, <1>a, <2>2 DEF DesktopAsks, TypeOK
<1>15. CASE DesktopAnswered
    <2>1. /\ answers' \in [Callers -> Results \union {"none"}]
          /\ desktop' \in [at : {"boot", "subscribed", "calling", "ready", "posting"},
                           msg : Messages, appRunning : BOOLEAN]
        BY <1>15, <1>a DEF DesktopAnswered, TypeOK
    <2> QED
        BY <1>15, <1>12, <1>a, <2>1 DEF DesktopAnswered, TypeOK
<1>16. CASE DesktopEvent
    <2>1. /\ events' \in Seq({"before", "after"})
          /\ desktop' \in [at : {"boot", "subscribed", "calling", "ready", "posting"},
                           msg : Messages, appRunning : BOOLEAN]
        BY <1>16, <1>a, QueueTail DEF DesktopEvent, TypeOK
    <2>2. animation' \in BOOLEAN
        BY <1>16, <1>a DEF DesktopEvent, TypeOK
    <2> QED
        BY <1>16, <1>12, <1>a, <2>1, <2>2 DEF DesktopEvent, TypeOK
<1>17. ASSUME NEW m \in Messages, DesktopWants(m)
       PROVE  TypeOK'
    <2>1. budget' \in [remote : 0 .. MaxRemote, desktop : 0 .. MaxDesktop,
                       starts : 0 .. MaxStarts, calls : 0 .. MaxAppCalls]
        BY <1>17, <1>a, BudgetTyped DEF DesktopWants
    <2> QED
        BY <1>17, <1>12, <1>a, <2>1 DEF DesktopWants, TypeOK
<1>18. CASE DesktopPosts
    <2>1. desktop.msg \in Messages
        BY <1>a DEF TypeOK
    <2>2. queue' \in Seq(Messages) /\ Len(queue') <= 1
        BY <1>18, <1>a, <2>1, PostAlone DEF DesktopPosts
    <2> QED
        BY <1>18, <1>12, <1>a, <1>b, <2>2 DEF DesktopPosts, TypeOK
<1>19. /\ Message("ShowMenu", NoName, "none") \in Messages
       /\ \A n \in DesktopNames : Message("Detached", n, "none") \in Messages
       /\ RemoteQueries \subseteq SyncTypes /\ "StartByName" \in SyncTypes
       /\ LaunchNames \subseteq Names /\ StartNames \subseteq Names
       /\ "app" \in Threads /\ "apps" \in Threads
    BY KnownMessage, TheThreads DEF AsyncTypes, SyncTypes
<1> QED
    BY <1>1, <1>2, <1>3, <1>4, <1>5, <1>6, <1>7, <1>8, <1>9, <1>10, <1>11, <1>13, <1>14, <1>15,
       <1>16, <1>17, <1>18, <1>19
       DEF Next, LoaderStep, DesktopStep

-----------------------------------------------------------------------------
(* What a step does. *)

LoaderMoves == LoaderStep \/ DialogDismissed

\* Whatever the others do, they leave the loader's own state to it.
LEMMA LoaderAlone ==
    ASSUME [Next]_vars, ~LoaderMoves
    PROVE  UNCHANGED <<loader, app, launchQueue, shown, insomnia, running>>
<1> USE DEF loaderVars, codeVars, desktopVars
<1>1. CASE UNCHANGED vars
    BY <1>1 DEF vars
<1>2. CASE AnnouncementFails
    BY <1>2 DEF AnnouncementFails
<1>3. CASE DesktopStep \/ \E m \in Messages : DesktopWants(m)
    BY <1>3 DEF DesktopStep, DesktopSubscribes, DesktopAsks, DesktopAnswered, DesktopEvent,
                DesktopPosts, DesktopWants, DesktopOnly
<1>4. ASSUME NEW t \in Threads,
             \/ Begin(t) \/ Answered(t) \/ Close(t) \/ End(t)
             \/ Queue(t) \/ StateCallback(t)
             \/ \E n \in StartNames : CallStart(t, n)
      PROVE  CodeOnly
    BY <1>4 DEF Begin, Answered, Close, End, Queue, StateCallback, CallStart
<1>5. CASE \/ BrowserWakes \/ Scrub \/ AppCalls("ClearLaunchQueue", NoName)
           \/ \E n \in LaunchNames : AppCalls("EnqueueLaunch", n)
    BY <1>5 DEF BrowserWakes, Scrub, AppCalls, CodeOnly
<1>6. CASE \/ RemoteAnswered \/ RemoteUnlocks
           \/ \E n \in StartNames : RemoteCalls("StartByName", n)
           \/ \E type \in RemoteQueries : RemoteCalls(type, NoName)
    BY <1>6 DEF RemoteAnswered, RemoteUnlocks, RemoteCalls, RemoteOnly
<1>7. /\ Message("ShowMenu", NoName, "none") \in Messages
      /\ \A n \in DesktopNames : Message("Detached", n, "none") \in Messages
    BY KnownMessage, TheThreads DEF AsyncTypes
<1> QED
    BY <1>1, <1>2, <1>3, <1>4, <1>5, <1>6, <1>7 DEF Next, LoaderMoves, CodeOnly

\* The steps in the lives of the threads (thread.c), and those of what they run.
LifeMoves ==
    \/ /\ UNCHANGED threadVars
       /\ \/ UNCHANGED doing
          \/ \E t \in Threads, to \in {"active", "calling", "waiting", "closing"} :
                doing[t] \in {"active", "calling", "waiting"} /\ doing' = [doing EXCEPT ![t] = to]
    \/ \E t \in {"menu", "apps"} : ThreadStarts(t) /\ UNCHANGED <<doing, app.thread, insomnia, running>>
    \/ StartApp(loader.msg) /\ StartByName /\ app.thread = "NULL"
    \/ \E t \in Threads : Begin(t) \/ End(t) \/ Queue(t) \/ StateCallback(t)
    \/ Scrub
    \/ LoaderJoined

\* Every step of the system changes the threads' lives in one of the ways of LifeMoves.
LEMMA LifeSteps ==
    ASSUME LoaderInv, [Next]_vars
    PROVE  LifeMoves
<1> USE DEF loaderVars, codeVars, desktopVars
<1>1. CASE UNCHANGED vars
    BY <1>1 DEF vars, LifeMoves
<1>2. CASE AnnouncementFails \/ DialogDismissed \/ LoaderBoots
    BY <1>2 DEF AnnouncementFails, DialogDismissed, LoaderBoots, LifeMoves
<1>3. CASE DesktopStep \/ \E m \in Messages : DesktopWants(m)
    BY <1>3 DEF DesktopStep, DesktopSubscribes, DesktopAsks, DesktopAnswered, DesktopEvent,
                DesktopPosts, DesktopWants, DesktopOnly, LifeMoves
<1>4. CASE \/ RemoteAnswered \/ RemoteUnlocks
           \/ \E n \in StartNames : RemoteCalls("StartByName", n)
           \/ \E type \in RemoteQueries : RemoteCalls(type, NoName)
    BY <1>4 DEF RemoteAnswered, RemoteUnlocks, RemoteCalls, RemoteOnly, LifeMoves
<1>5. ASSUME NEW t \in Threads,
             \/ Answered(t) \/ Close(t)
             \/ \E n \in StartNames : CallStart(t, n)
      PROVE  LifeMoves
    <2>1. UNCHANGED threadVars
        BY <1>5 DEF Answered, Close, CallStart
    <2>2. \E from \in {"calling", "active"}, to \in {"active", "calling", "waiting", "closing"} :
             CodeGoes(t, from, to)
        BY <1>5 DEF Answered, Close, CallStart
    <2> QED
        BY <2>1, <2>2 DEF CodeGoes, LifeMoves
<1>6. CASE \/ BrowserWakes \/ AppCalls("ClearLaunchQueue", NoName)
           \/ \E n \in LaunchNames : AppCalls("EnqueueLaunch", n)
    BY <1>6, TheThreads DEF BrowserWakes, AppCalls, CodeGoes, LifeMoves
<1>7. CASE LoaderGets
    <2>1. UNCHANGED <<doing, insomnia, running>>
        BY <1>7 DEF LoaderGets
    <2>2. UNCHANGED threadVars \/ (ThreadStarts("menu") /\ UNCHANGED app)
        BY <1>7 DEF LoaderGets, HandleShowMenu, HandleStart, HandleClosed, HandleLock,
                    HandleUnlock, HandleQuery, HandleEnqueueLaunch, HandleClearLaunchQueue, Finish
    <2> QED
        BY <2>1, <2>2, TheThreads DEF LifeMoves
<1>8. CASE StartByName
    <2>1. UNCHANGED doing
        BY <1>8 DEF StartByName
    <2>3. CASE ShowApps
        <3>1. UNCHANGED threadVars \/ ThreadStarts("apps")
            BY <2>3 DEF ShowApps
        <3>2. UNCHANGED <<app.thread, insomnia, running>>
            BY <2>3 DEF ShowApps, LoaderInv, TypeOK
        <3> QED
            BY <2>1, <3>1, <3>2 DEF LifeMoves
    <2>4. CASE StartApp(loader.msg) /\ Outcome(loader.msg.name) = "ok"
        BY <1>8, <2>4, OutcomeTyped DEF LifeMoves
    <2>5. CASE UNCHANGED threadVars
        BY <2>1, <2>5 DEF LifeMoves
    <2> QED
        BY <1>8, <2>3, <2>4, <2>5 DEF StartByName, Launch, Refuse
<1>9. /\ Message("ShowMenu", NoName, "none") \in Messages
      /\ \A n \in DesktopNames : Message("Detached", n, "none") \in Messages
    BY KnownMessage, TheThreads DEF AsyncTypes
<1> QED
    BY <1>1, <1>2, <1>3, <1>4, <1>5, <1>6, <1>7, <1>8, <1>9 DEF Next, LoaderStep, LifeMoves

\* The steps that post a message, and to whom it belongs.
Posted(m) == queue = <<>> /\ queue' # <<>> /\ Head(queue') = m
PostMoves ==
    \/ \E type \in {"MenuClosed", "ApplicationsClosed"}, t \in Threads :
          Posted(Message(type, NoName, "none")) /\ Close(t)
    \/ Posted(Message("AppClosed", NoName, "none")) /\ StateCallback("app")
    \/ Posted(Message("Unlock", NoName, "none")) /\ RemoteUnlocks
    \/ Posted(desktop.msg) /\ DesktopPosts
    \/ Posted(Message("IsLocked", NoName, "desktop")) /\ DesktopAsks
    \/ \E t \in {"menu", "apps"}, n \in StartNames :
          Posted(Message("StartByName", n, t)) /\ CallStart(t, n)
    \/ \E n \in LaunchNames :
          Posted(Message("EnqueueLaunch", n, "app")) /\ AppCalls("EnqueueLaunch", n)
    \/ Posted(Message("ClearLaunchQueue", NoName, "app")) /\ AppCalls("ClearLaunchQueue", NoName)
    \/ \E type \in Queries \union {"StartByName"}, n \in Names \union {NoName} :
          Posted(Message(type, n, "remote")) /\ RemoteCalls(type, n)

\* The loader's queue is left alone, emptied by loader_main's get, or posted to.
LEMMA QueueSteps ==
    ASSUME LoaderInv, [Next]_vars
    PROVE  \/ UNCHANGED queue
           \/ LoaderGets /\ queue # <<>> /\ queue' = <<>> /\ Head(queue) \in Messages
           \/ PostMoves
<1> USE DEF loaderVars, codeVars, desktopVars
<1>a. TypeOK
    BY DEF LoaderInv
<1>b. ASSUME NEW m \in Messages, Post(m)
      PROVE  Posted(m)
    BY <1>a, <1>b, PostAlone DEF Posted
<1>1. CASE UNCHANGED vars
    BY <1>1 DEF vars
<1>2. CASE AnnouncementFails \/ DialogDismissed \/ LoaderBoots \/ StartByName \/ LoaderJoined
    BY <1>2 DEF AnnouncementFails, DialogDismissed, LoaderBoots, StartByName, LoaderJoined
<1>3. CASE DesktopSubscribes \/ DesktopAnswered \/ DesktopEvent \/ \E m \in Messages : DesktopWants(m)
    BY <1>3 DEF DesktopSubscribes, DesktopAnswered, DesktopEvent, DesktopWants
<1>4. CASE DesktopAsks
    <2>1. Message("IsLocked", NoName, "desktop") \in Messages
        BY KnownMessage, TheThreads DEF SyncTypes, Queries
    <2> QED
        BY <1>4, <1>b, <2>1 DEF DesktopAsks, PostMoves
<1>5. CASE DesktopPosts
    <2>1. desktop.msg \in Messages
        BY <1>a DEF TypeOK
    <2> QED
        BY <1>5, <1>b, <2>1 DEF DesktopPosts, PostMoves
<1>6. CASE RemoteAnswered
    BY <1>6 DEF RemoteAnswered
<1>7. CASE RemoteUnlocks
    <2>1. Message("Unlock", NoName, "none") \in Messages
        BY KnownMessage DEF AsyncTypes
    <2> QED
        BY <1>7, <1>b, <2>1 DEF RemoteUnlocks, PostMoves
<1>8. ASSUME NEW type \in Queries \union {"StartByName"}, NEW n \in Names \union {NoName},
             RemoteCalls(type, n)
      PROVE  PostMoves
    <2>1. Message(type, n, "remote") \in Messages
        BY KnownMessage, TheThreads DEF SyncTypes
    <2>2. Posted(Message(type, n, "remote"))
        BY <1>8, <1>b, <2>1 DEF RemoteCalls
    <2> QED
        BY <1>8, <2>2 DEF PostMoves
<1>9. ASSUME NEW t \in Threads,
             Begin(t) \/ Answered(t) \/ End(t) \/ Queue(t)
      PROVE  UNCHANGED queue
    BY <1>9 DEF Begin, Answered, End, Queue
<1>10. ASSUME NEW t \in Threads, Close(t)
       PROVE  PostMoves
    <2>1. /\ Message("MenuClosed", NoName, "none") \in Messages
          /\ Message("ApplicationsClosed", NoName, "none") \in Messages
        BY KnownMessage DEF AsyncTypes
    <2> QED
        BY <1>10, <1>b, <2>1 DEF Close, PostMoves
<1>11. ASSUME NEW t \in Threads, StateCallback(t)
       PROVE  UNCHANGED queue \/ PostMoves
    <2>1. Message("AppClosed", NoName, "none") \in Messages
        BY KnownMessage DEF AsyncTypes
    <2> QED
        BY <1>11, <1>b, <2>1 DEF StateCallback, PostMoves
<1>12. ASSUME NEW t \in Threads, NEW n \in StartNames, CallStart(t, n)
       PROVE  PostMoves
    <2>1. t \in {"menu", "apps"} /\ Message("StartByName", n, t) \in Messages
        BY <1>12, KnownMessage, TheThreads DEF SyncTypes, CallStart
    <2>2. Posted(Message("StartByName", n, t))
        BY <1>12, <1>b, <2>1 DEF CallStart
    <2> QED
        BY <1>12, <2>1, <2>2 DEF PostMoves
<1>13. ASSUME NEW n \in LaunchNames, AppCalls("EnqueueLaunch", n)
       PROVE  PostMoves
    <2>1. Message("EnqueueLaunch", n, "app") \in Messages
        BY KnownMessage, TheThreads DEF SyncTypes
    <2> QED
        BY <1>13, <1>b, <2>1 DEF AppCalls, PostMoves
<1>14. CASE AppCalls("ClearLaunchQueue", NoName)
    <2>1. Message("ClearLaunchQueue", NoName, "app") \in Messages
        BY KnownMessage, TheThreads DEF SyncTypes
    <2> QED
        BY <1>14, <1>b, <2>1 DEF AppCalls, PostMoves
<1>15. CASE BrowserWakes \/ Scrub
    BY <1>15 DEF BrowserWakes, Scrub
<1>16. CASE LoaderGets
    BY <1>16, <1>a, TakeAlone DEF LoaderGets
<1>17. /\ Message("ShowMenu", NoName, "none") \in Messages
       /\ \A n \in DesktopNames : Message("Detached", n, "none") \in Messages
       /\ RemoteQueries \subseteq Queries /\ StartNames \subseteq Names
    BY KnownMessage, TheThreads DEF AsyncTypes
<1> QED
    BY <1>1, <1>2, <1>3, <1>4, <1>5, <1>6, <1>7, <1>8, <1>9, <1>10, <1>11, <1>12, <1>13, <1>14,
       <1>15, <1>16, <1>17
       DEF Next, LoaderStep, DesktopStep

\* After an application, or after one of the launch queue that failed, the loader gets
\* the next message or begins to start the next of the launch queue.
NextOfQueue ==
    /\ launchQueue # <<>> /\ launchQueue' = Tail(launchQueue)
    /\ loader'.at \in {"announcing", "starting"}
    /\ loader'.msg = Message("Deferred", Head(launchQueue), "none")
BackToGet == loader' = [at |-> "get", msg |-> NoMessage] /\ UNCHANGED launchQueue

\* After a start the loader goes back to its queue or takes the next deferred launch
\* (loader_do_next_deferred_launch_if_available).
LEMMA DeferredMoves ==
    ASSUME NEW thread, NextDeferred(thread)
    PROVE  BackToGet \/ NextOfQueue
BY DEF NextDeferred, BeginStart, LoaderGoes, BackToGet, NextOfQueue

\* So does it after a start that failed.
LEMMA FailureMoves ==
    ASSUME NEW m, AfterFailure(m)
    PROVE  BackToGet \/ (m.type = "Deferred" /\ NextOfQueue)
BY DeferredMoves DEF AfterFailure, LoaderGoes, BackToGet

-----------------------------------------------------------------------------
(* The parts of the invariant, one by one. *)

\* The message taken is one of those WhoSends names.
LEMMA Taken ==
    ASSUME LoaderInv, LoaderGets
    PROVE  /\ Head(queue) \in Messages /\ WhoSends(Head(queue))
           /\ queue # <<>> /\ queue' = <<>>
           /\ \A c \in Callers : Head(queue).from = c =>
                 Calling(c) /\ answers[c] = "none" /\ ~Handled(c)
BY TakeAlone DEF LoaderInv, LoaderGets, Calls

\* What the loader is at work on remains what may be worked on.
LEMMA HandledStep == LoaderInv /\ [Next]_vars => WhatIsHandled'
<1> SUFFICES ASSUME LoaderInv, [Next]_vars
             PROVE  WhatIsHandled'
    OBVIOUS
<1>a. TypeOK /\ WhatIsHandled
    BY DEF LoaderInv
<1>b. launchQueue \in Seq(LaunchNames)
    <2>1. launchQueue \in Seq(Names) /\ \A i \in 1..Len(launchQueue) : launchQueue[i] \in LaunchNames
        BY <1>a DEF TypeOK, WhatIsHandled
    <2> QED
        BY <2>1
<1>c. ASSUME NEW q \in Seq(LaunchNames)
      PROVE  \A i \in 1..Len(q) : q[i] \in LaunchNames
    BY <1>c
<1>1. CASE ~LoaderMoves
    BY <1>1, <1>a, LoaderAlone DEF WhatIsHandled, Starting
<1>2. CASE BackToGet
    BY <1>2, <1>a DEF BackToGet, WhatIsHandled, Starting
<1>3. CASE NextOfQueue
    <2>1. Head(launchQueue) \in LaunchNames /\ launchQueue' \in Seq(LaunchNames)
        BY <1>3, <1>b, QueueTail DEF NextOfQueue
    <2>2. /\ loader'.msg.type = "Deferred" /\ loader'.msg.name \in LaunchNames
          /\ loader'.msg.from = "none" /\ loader'.at \in {"announcing", "starting"}
        BY <1>3, <2>1 DEF NextOfQueue, Message
    <2> QED
        BY <1>c, <2>1, <2>2 DEF WhatIsHandled, Starting
<1>4. CASE LoaderBoots
    BY <1>4, <1>a DEF LoaderBoots, LoaderGoes, BeginStart, Message, NoMessage, WhatIsHandled,
                      Starting
<1>5. CASE LoaderGets
    <2> DEFINE m == Head(queue)
    <2>1. m \in Messages /\ WhoSends(m)
        BY <1>5, Taken
    <2> HIDE DEF m
    <2>2. CASE HandleStart(m)
        <3>1. \/ m.type = "StartByName" /\ m.from \in {"menu", "apps", "remote"}
              \/ m.type = "Detached" /\ m.from = "none"
            BY <2>1, <2>2 DEF HandleStart, WhoSends, AsyncTypes, Queries
        <3> QED
            BY <1>a, <2>2, <3>1 DEF HandleStart, BeginStart, LoaderGoes, WhatIsHandled, Starting
    <2>3. CASE HandleClosed(m)
        BY <1>a, <2>3 DEF HandleClosed, LoaderGoes, WhatIsHandled, Starting, ClosedTypes
    <2>4. CASE HandleEnqueueLaunch(m)
        <3>1. m.name \in LaunchNames
            BY <2>1, <2>4 DEF HandleEnqueueLaunch, WhoSends, AsyncTypes, Queries
        <3>2. launchQueue' \in Seq(LaunchNames)
            BY <1>b, <2>4, <3>1 DEF HandleEnqueueLaunch
        <3> QED
            BY <1>c, <2>4, <3>2 DEF HandleEnqueueLaunch, Finish, LoaderGoes, WhatIsHandled, Starting
    <2>5. CASE HandleClearLaunchQueue(m)
        <3>1. launchQueue' \in Seq(LaunchNames)
            BY <2>5 DEF HandleClearLaunchQueue
        <3> QED
            BY <1>c, <2>5, <3>1 DEF HandleClearLaunchQueue, Finish, LoaderGoes, WhatIsHandled,
                                    Starting
    <2>6. CASE HandleShowMenu(m) \/ HandleLock(m) \/ HandleUnlock(m) \/ HandleQuery(m)
        <3>1. BackToGet
            BY <2>6 DEF HandleShowMenu, HandleLock, HandleUnlock, HandleQuery, Finish, LoaderGoes,
                        BackToGet
        <3> QED
            BY <1>2, <3>1
    <2> QED
        BY <1>5, <2>2, <2>3, <2>4, <2>5, <2>6 DEF LoaderGets, m
<1>6. CASE StartByName
    <2>1. BackToGet \/ NextOfQueue
          \/ (loader' = [at |-> "dialog", msg |-> loader.msg] /\ MayNeedDialog(loader.msg)
              /\ UNCHANGED launchQueue)
        BY <1>6, FailureMoves DEF StartByName, Launch, Refuse, LoaderGoes, BackToGet
    <2>2. loader.at \in {"announcing", "starting"}
        BY <1>6 DEF StartByName
    <2> QED
        BY <1>2, <1>3, <1>a, <2>1, <2>2 DEF WhatIsHandled, Starting, MayNeedDialog, NeedsDialog
<1>7. CASE LoaderJoined
    <2>1. BackToGet \/ NextOfQueue
        BY <1>7, DeferredMoves DEF LoaderJoined, LoaderGoes, BackToGet
    <2> QED
        BY <1>2, <1>3, <2>1
<1>8. CASE DialogDismissed
    BY <1>2, <1>3, <1>8, FailureMoves DEF DialogDismissed
<1> QED
    BY <1>1, <1>4, <1>5, <1>6, <1>7, <1>8 DEF LoaderMoves, LoaderStep

\* What the loader keeps of a running application is about it.
LEMMA KeptStep == LoaderInv /\ [Next]_vars => Kept'
<1> SUFFICES ASSUME LoaderInv, [Next]_vars
             PROVE  Kept'
    OBVIOUS
<1>a. TypeOK /\ Kept
    BY DEF LoaderInv
<1>1. CASE UNCHANGED <<app, running>>
    BY <1>1, <1>a DEF Kept
<1>2. CASE ~LoaderMoves
    BY <1>1, <1>2, LoaderAlone
<1>3. CASE LoaderBoots \/ DialogDismissed
    BY <1>1, <1>3 DEF LoaderBoots, DialogDismissed
<1>4. CASE LoaderGets
    <2>1. UNCHANGED running
        BY <1>4 DEF LoaderGets
    <2>2. UNCHANGED app \/ app'.thread # "app"
        BY <1>4, <1>a DEF LoaderGets, HandleShowMenu, HandleStart, HandleClosed, HandleLock,
                    HandleUnlock, HandleQuery, HandleEnqueueLaunch, HandleClearLaunchQueue, TypeOK
    <2> QED
        BY <1>1, <2>1, <2>2 DEF Kept
<1>5. CASE StartByName
    <2>1. CASE Launch(loader.msg) /\ Outcome(loader.msg.name) = "ok"
        <3>1. app.thread = "NULL"
            BY <2>1, OutcomeTyped
        <3>2. CASE ShowApps
            BY <1>a, <3>1, <3>2 DEF ShowApps, TypeOK, Kept
        <3>3. CASE StartApp(loader.msg)
            BY <3>3 DEF StartApp, Kept
        <3> QED
            BY <2>1, <3>2, <3>3 DEF Launch
    <2>2. CASE Refuse(loader.msg)
        BY <1>1, <2>2 DEF Refuse
    <2> QED
        BY <1>5, <2>1, <2>2 DEF StartByName
<1>6. CASE LoaderJoined
    BY <1>a, <1>6 DEF LoaderJoined, TypeOK, Kept
<1> QED
    BY <1>2, <1>3, <1>4, <1>5, <1>6 DEF LoaderMoves, LoaderStep

\* What runs and what waits to be scrubbed agrees with the states of the threads.
LEMMA LifeStep == LoaderInv /\ [Next]_vars => Life'
<1> SUFFICES ASSUME LoaderInv, [Next]_vars
             PROVE  Life'
    OBVIOUS
<1>a. /\ Life /\ scrubQueue \in Seq(Threads)
      /\ threadState \in [Threads -> ThreadStates]
      /\ doing \in [Threads -> {"away", "active", "calling", "waiting", "closing", "over"}]
    BY DEF LoaderInv, TypeOK, ThreadsTypeOK
<1>b. \A i \in 1..Len(scrubQueue) : scrubQueue[i] \in Threads
    BY <1>a
<1>1. ASSUME UNCHANGED threadVars,
             \/ UNCHANGED doing
             \/ \E t \in Threads, to \in {"active", "calling", "waiting", "closing"} :
                   doing[t] \in {"active", "calling", "waiting"} /\ doing' = [doing EXCEPT ![t] = to]
      PROVE  Life'
    BY <1>1, <1>a DEF threadVars, Life
<1>2. ASSUME NEW t \in Threads, ThreadStarts(t), UNCHANGED doing
      PROVE  Life'
    BY <1>2, <1>a, <1>b DEF ThreadStarts, ThreadGoes, Life
<1>3. ASSUME NEW t \in Threads, Begin(t) \/ End(t)
      PROVE  Life'
    BY <1>3, <1>a, <1>b DEF Begin, End, CodeGoes, ThreadBegins, ThreadEnds, ThreadGoes, Life
<1>4. ASSUME NEW t \in Threads, Queue(t)
      PROVE  Life'
    <2>1. /\ threadState[t] = "Stopping" /\ UNCHANGED <<threadState, doing>>
          /\ \A i \in 1..Len(scrubQueue) : scrubQueue[i] # t
          /\ scrubQueue' = Append(scrubQueue, t)
        BY <1>4, <1>a DEF Queue, ThreadQueues
    <2>2. \A i \in 1..Len(scrubQueue') :
             \/ i \in 1..Len(scrubQueue) /\ scrubQueue'[i] = scrubQueue[i]
             \/ i = Len(scrubQueue) + 1 /\ scrubQueue'[i] = t
        BY <1>4, <1>a, <2>1, QueueAppend
    <2> QED
        BY <1>a, <2>1, <2>2 DEF Life
<1>5. ASSUME NEW t \in Threads, StateCallback(t)
      PROVE  Life'
    BY <1>5, <1>a DEF StateCallback, ScrubCalls, Life
<1>6. CASE Scrub
    <2>1. /\ scrubQueue # <<>> /\ scrubQueue' = Tail(scrubQueue) /\ UNCHANGED doing
          /\ threadState' = [threadState EXCEPT ![Head(scrubQueue)] = "Stopped"]
        BY <1>6 DEF Scrub, ScrubTakes
    <2>2. /\ Head(scrubQueue) = scrubQueue[1] /\ 1 \in 1..Len(scrubQueue)
          /\ \A i \in 1..Len(scrubQueue') : /\ i + 1 \in 2..Len(scrubQueue)
                                            /\ scrubQueue'[i] = scrubQueue[i + 1]
          /\ Len(scrubQueue') = Len(scrubQueue) - 1 /\ Len(scrubQueue) \in Nat
        BY <1>a, <2>1, QueueTail
    <2>3. /\ threadState[Head(scrubQueue)] = "Stopping"
          /\ \A i \in 1..Len(scrubQueue') : /\ i + 1 \in 1..Len(scrubQueue)
                                            /\ scrubQueue[i + 1] # Head(scrubQueue)
        BY <1>a, <2>2 DEF Life
    <2>4. \A i \in 1..Len(scrubQueue') : threadState'[scrubQueue'[i]] = "Stopping"
        BY <1>a, <1>b, <2>1, <2>2, <2>3 DEF Life
    <2>5. \A i, j \in 1..Len(scrubQueue') : scrubQueue'[i] = scrubQueue'[j] => i = j
        BY <1>a, <2>2, <2>3 DEF Life
    <2>6. \A t \in Threads :
             /\ doing'[t] \in {"active", "calling", "waiting", "closing"} => threadState'[t] = "Running"
             /\ doing'[t] = "over" => threadState'[t] \in {"Stopping", "Stopped"}
        BY <1>a, <2>1 DEF Life
    <2> QED
        BY <2>4, <2>5, <2>6 DEF Life
<1>7. CASE LoaderJoined
    <2> DEFINE t == ThreadOf(loader.msg)
    <2>1. t \in Threads
        BY TheThreads DEF ThreadOf
    <2> QED
        BY <1>7, <1>a, <1>b, <2>1 DEF LoaderJoined, ThreadJoined, ThreadGoes, Life
<1>8. CASE StartApp(loader.msg) /\ StartByName
    BY <1>2, <1>8, TheThreads DEF StartApp, StartByName
<1> QED
    BY <1>1, <1>2, <1>3, <1>4, <1>5, <1>6, <1>7, <1>8, LifeSteps, TheThreads DEF LifeMoves

\* Whether there is an application's thread changes only when the loader starts or frees it.
LEMMA AppThreadKept ==
    ASSUME LoaderInv, [Next]_vars, ~(StartByName /\ StartApp(loader.msg)), ~LoaderJoined
    PROVE  threadState'["app"] = "Freed" <=> threadState["app"] = "Freed"
<1>a. /\ Life /\ threadState \in [Threads -> ThreadStates] /\ "app" \in Threads
      /\ scrubQueue \in Seq(Threads)
    BY TheThreads DEF LoaderInv, TypeOK, ThreadsTypeOK
<1>1. CASE Scrub
    <2>1. Head(scrubQueue) = scrubQueue[1] /\ 1 \in 1..Len(scrubQueue) /\ Head(scrubQueue) \in Threads
        BY <1>1, <1>a, QueueTail DEF Scrub, ScrubTakes
    <2>2. threadState[Head(scrubQueue)] = "Stopping"
        BY <1>a, <2>1 DEF Life
    <2> QED
        BY <1>1, <1>a, <2>1, <2>2 DEF Scrub, ScrubTakes
<1>2. ASSUME NEW t \in Threads, Begin(t) \/ End(t) \/ Queue(t) \/ StateCallback(t)
      PROVE  threadState'["app"] = "Freed" <=> threadState["app"] = "Freed"
    BY <1>2, <1>a DEF Begin, End, Queue, StateCallback, ThreadBegins, ThreadEnds, ThreadQueues,
                      ScrubCalls, ThreadGoes
<1>3. ASSUME NEW t \in {"menu", "apps"}, ThreadStarts(t)
      PROVE  threadState'["app"] = threadState["app"]
    BY <1>3, <1>a DEF ThreadStarts, ThreadGoes
<1> QED
    BY <1>1, <1>2, <1>3, LifeSteps DEF LifeMoves, threadVars

\* Only the start and the end of an application change the insomnia level and what runs.
LEMMA RunningKept ==
    ASSUME [Next]_vars, ~(StartByName /\ StartApp(loader.msg)),
           ~(LoaderJoined /\ ThreadOf(loader.msg) = "app")
    PROVE  UNCHANGED <<insomnia, running>>
<1>1. CASE LoaderGets \/ LoaderBoots \/ DialogDismissed
    BY <1>1 DEF LoaderGets, LoaderBoots, DialogDismissed
<1>2. CASE StartByName
    BY <1>2 DEF StartByName, Launch, ShowApps, Refuse
<1>3. CASE LoaderJoined
    BY <1>3 DEF LoaderJoined
<1> QED
    BY <1>1, <1>2, <1>3, LoaderAlone DEF LoaderMoves, LoaderStep

\* The insomnia level goes up and down with the applications that do not allow sleep.
LEMMA InsomniaStep == LoaderInv /\ [Next]_vars => InsomniaBalanced'
<1> SUFFICES ASSUME LoaderInv, [Next]_vars
             PROVE  InsomniaBalanced'
    OBVIOUS
<1>a. /\ TypeOK /\ InsomniaBalanced /\ Kept /\ Closing
      /\ threadState \in [Threads -> ThreadStates] /\ "app" \in Threads
    BY TheThreads DEF LoaderInv, TypeOK, ThreadsTypeOK
<1>1. CASE ~(StartByName /\ StartApp(loader.msg)) /\ ~(LoaderJoined /\ ThreadOf(loader.msg) = "app")
    <2>1. UNCHANGED <<insomnia, running>>
        BY <1>1, RunningKept
    <2>2. threadState'["app"] = "Freed" <=> threadState["app"] = "Freed"
        <3>1. CASE LoaderJoined
            BY <1>1, <1>a, <3>1 DEF LoaderJoined, ThreadJoined, ThreadGoes
        <3>2. CASE ~LoaderJoined
            BY <1>1, <3>2, AppThreadKept
        <3> QED
            BY <3>1, <3>2
    <2> QED
        BY <1>a, <2>1, <2>2 DEF InsomniaBalanced
<1>2. CASE StartApp(loader.msg)
    <2>1. threadState["app"] = "Freed" /\ threadState'["app"] = "Starting"
        BY <1>2, <1>a DEF StartApp, ThreadStarts, ThreadGoes
    <2>2. insomnia = 0
        BY <1>a, <2>1 DEF InsomniaBalanced
    <2> QED
        BY <1>2, <2>1, <2>2 DEF StartApp, InsomniaBalanced
<1>3. CASE LoaderJoined /\ ThreadOf(loader.msg) = "app"
    <2>1. threadState["app"] = "Stopped" /\ threadState'["app"] = "Freed"
        BY <1>3, <1>a DEF LoaderJoined, ThreadJoined, ThreadGoes
    <2>2. app.insomniac = (running.name = "external") /\ app.insomniac \in BOOLEAN
        BY <1>a, <2>1 DEF Closing, Kept, TypeOK
    <2>3. insomnia = IF app.insomniac THEN 1 ELSE 0
        BY <1>a, <2>1, <2>2 DEF InsomniaBalanced
    <2>4. insomnia' = insomnia - (IF app.insomniac THEN 1 ELSE 0)
        BY <1>3 DEF LoaderJoined
    <2>5. insomnia' = 0
        BY <2>3, <2>4
    <2> QED
        BY <2>1, <2>5 DEF InsomniaBalanced
<1> QED
    BY <1>1, <1>2, <1>3

\* The end of an application is announced by one of three.
LEMMA ClosingStep == LoaderInv /\ [Next]_vars => Closing'
<1> SUFFICES ASSUME LoaderInv, [Next]_vars
             PROVE  Closing'
    OBVIOUS
<1>a. /\ TypeOK /\ Closing /\ Life /\ LockInv /\ WhatIsHandled /\ Calls
      /\ threadState \in [Threads -> ThreadStates] /\ "app" \in Threads
      /\ scrubQueue \in Seq(Threads) /\ NoThread \notin Threads
      /\ app.thread \in {"NULL", "locked", "app"}
    BY TheThreads DEF LoaderInv, TypeOK, ThreadsTypeOK
<1>1. CASE ~LoaderMoves
    <2>1. UNCHANGED <<app, loader>>
        BY <1>1, LoaderAlone
    <2>2. threadState'["app"] = "Freed" <=> threadState["app"] = "Freed"
        BY <1>1, AppThreadKept DEF LoaderMoves, LoaderStep
    <2>3. Joining' <=> Joining
        BY <2>1 DEF Joining
    <2>4. CASE StateCallback("app")
        <3>1. Posted(Message("AppClosed", NoName, "none"))
            <4>1. Message("AppClosed", NoName, "none") \in Messages
                BY KnownMessage DEF AsyncTypes
            <4> QED
                BY <1>a, <2>4, <4>1, PostAlone DEF StateCallback, Posted
        <3>2. /\ scrubbed = "app" /\ scrubbed' = NoThread /\ UNCHANGED threadState
            BY <2>4 DEF StateCallback, ScrubCalls
        <3>3. ~InQueue /\ InQueue'
            BY <3>1 DEF Posted, InQueue, Message
        <3> QED
            BY <1>a, <2>1, <2>3, <3>2, <3>3 DEF Closing
    <2>5. CASE ~StateCallback("app")
        <3>1. InQueue' <=> InQueue
            <4>1. CASE PostMoves
                <5>1. queue = <<>> /\ queue' # <<>> /\ Head(queue').type # "AppClosed"
                    BY <1>a, <2>5, <4>1 DEF PostMoves, Posted, Message, Calls, Queries, DesktopPosts
                <5> QED
                    BY <5>1 DEF InQueue
            <4>2. CASE UNCHANGED queue
                BY <4>2 DEF InQueue
            <4> QED
                BY <1>1, <4>1, <4>2, QueueSteps DEF LoaderMoves, LoaderStep
        <3>2. CASE Scrub
            <4>1. /\ Head(scrubQueue) = scrubQueue[1] /\ 1 \in 1..Len(scrubQueue)
                  /\ Head(scrubQueue) \in Threads
                BY <1>a, <3>2, QueueTail DEF Scrub, ScrubTakes
            <4>2. threadState[Head(scrubQueue)] = "Stopping"
                BY <1>a, <4>1 DEF Life
            <4>3. /\ scrubbed = NoThread /\ scrubbed' = Head(scrubQueue)
                  /\ threadState' = [threadState EXCEPT ![Head(scrubQueue)] = "Stopped"]
                BY <3>2 DEF Scrub, ScrubTakes
            <4> QED
                BY <1>a, <2>1, <2>2, <2>3, <3>1, <4>1, <4>2, <4>3 DEF Closing
        <3>3. CASE ~Scrub
            <4>1. threadState'["app"] = "Stopped" <=> threadState["app"] = "Stopped"
                <5>1. ASSUME NEW t \in Threads, Begin(t) \/ End(t) \/ Queue(t) \/ StateCallback(t)
                      PROVE  threadState'["app"] = "Stopped" <=> threadState["app"] = "Stopped"
                    BY <1>a, <5>1 DEF Begin, End, Queue, StateCallback, ThreadBegins, ThreadEnds,
                                      ThreadQueues, ScrubCalls, ThreadGoes
                <5>2. ASSUME NEW t \in {"menu", "apps"}, ThreadStarts(t)
                      PROVE  threadState'["app"] = threadState["app"]
                    BY <1>a, <5>2 DEF ThreadStarts, ThreadGoes
                <5> QED
                    BY <1>1, <3>3, <5>1, <5>2, LifeSteps
                       DEF LifeMoves, threadVars, LoaderMoves, LoaderStep
            <4>2. scrubbed' = "app" <=> scrubbed = "app"
                <5>1. ASSUME NEW t \in Threads, Begin(t) \/ End(t) \/ Queue(t) \/ StateCallback(t)
                      PROVE  scrubbed' = "app" <=> scrubbed = "app"
                    BY <1>a, <2>5, <5>1 DEF Begin, End, Queue, StateCallback, ThreadBegins,
                                            ThreadEnds, ThreadQueues, ScrubCalls
                <5> QED
                    BY <1>1, <3>3, <5>1, LifeSteps
                       DEF LifeMoves, threadVars, ThreadStarts, LoaderMoves, LoaderStep
            <4> QED
                BY <1>a, <2>1, <2>2, <2>3, <3>1, <4>1, <4>2 DEF Closing
        <3> QED
            BY <3>2, <3>3
    <2> QED
        BY <2>4, <2>5
<1>2. ASSUME loader.at # "joining", loader'.at # "joining", UNCHANGED <<queue, scrubbed>>,
             threadState'["app"] = threadState["app"], app'.thread = "app" <=> app.thread = "app"
      PROVE  Closing'
    BY <1>2, <1>a DEF Closing, InQueue, Joining
<1>3. CASE LoaderBoots \/ DialogDismissed
    <2>1. loader.at # "joining" /\ loader'.at # "joining"
        BY <1>3, FailureMoves DEF LoaderBoots, DialogDismissed, LoaderGoes, BeginStart, BackToGet,
                                  NextOfQueue
    <2> QED
        BY <1>2, <1>3, <2>1 DEF LoaderBoots, DialogDismissed, threadVars
<1>4. CASE StartByName
    <2>1. loader.at # "joining" /\ loader'.at # "joining" /\ UNCHANGED queue
        BY <1>4, FailureMoves DEF StartByName, Launch, Refuse, LoaderGoes, BackToGet, NextOfQueue
    <2>2. CASE StartApp(loader.msg)
        <3>1. /\ threadState["app"] = "Freed" /\ threadState'["app"] = "Starting"
              /\ scrubbed' = scrubbed /\ app'.thread = "app"
            BY <1>a, <2>2 DEF StartApp, ThreadStarts, ThreadGoes
        <3> QED
            BY <1>a, <2>1, <3>1 DEF Closing, InQueue, Joining
    <2>3. CASE ShowApps
        <3>1. threadState'["app"] = threadState["app"] /\ UNCHANGED scrubbed
            BY <1>a, <2>3 DEF ShowApps, ThreadStarts, ThreadGoes, threadVars
        <3>2. app'.thread = app.thread
            BY <1>a, <2>3 DEF ShowApps, TypeOK
        <3> QED
            BY <1>2, <2>1, <3>1, <3>2
    <2>4. CASE Refuse(loader.msg)
        BY <1>2, <2>1, <2>4 DEF Refuse, threadVars
    <2> QED
        BY <1>4, <2>2, <2>3, <2>4 DEF StartByName, Launch
<1>5. CASE LoaderJoined
    <2>1. loader.at = "joining" /\ loader'.at # "joining" /\ UNCHANGED queue /\ UNCHANGED scrubbed
        BY <1>5, DeferredMoves DEF LoaderJoined, LoaderGoes, BackToGet, NextOfQueue, ThreadJoined
    <2>2. loader.msg.type \in ClosedTypes
        BY <1>a, <2>1 DEF WhatIsHandled
    <2>3. Joining <=> ThreadOf(loader.msg) = "app"
        BY <2>1, <2>2 DEF ThreadOf, Joining, ClosedTypes
    <2>4. ThreadOf(loader.msg) \in Threads
        BY TheThreads DEF ThreadOf
    <2>5. CASE ThreadOf(loader.msg) = "app"
        <3>1. threadState'["app"] = "Freed" /\ app'.thread = "NULL"
            BY <1>5, <1>a, <2>5 DEF LoaderJoined, ThreadJoined, ThreadGoes, TypeOK
        <3> QED
            BY <1>a, <2>1, <2>3, <2>5, <3>1 DEF Closing, InQueue, Joining
    <2>6. CASE ThreadOf(loader.msg) # "app"
        <3>1. threadState'["app"] = threadState["app"] /\ UNCHANGED app
            BY <1>5, <1>a, <2>4, <2>6 DEF LoaderJoined, ThreadJoined, ThreadGoes
        <3> QED
            BY <1>a, <2>1, <2>3, <2>6, <3>1 DEF Closing, InQueue, Joining
    <2> QED
        BY <2>5, <2>6
<1>6. CASE LoaderGets
    <2> DEFINE m == Head(queue)
    <2>1. queue # <<>> /\ queue' = <<>> /\ loader.at = "get"
        BY <1>6, Taken DEF LoaderGets
    <2>2. ~InQueue' /\ ~Joining /\ (InQueue <=> m.type = "AppClosed")
        BY <2>1 DEF InQueue, Joining
    <2> HIDE DEF m
    <2>3. CASE HandleClosed(m)
        <3>1. Joining' <=> m.type = "AppClosed"
            BY <2>3 DEF HandleClosed, LoaderGoes, Joining
        <3>2. UNCHANGED <<app, threadVars>>
            BY <2>3 DEF HandleClosed
        <3> QED
            BY <1>a, <2>2, <3>1, <3>2 DEF Closing, threadVars
    <2>4. CASE ~HandleClosed(m)
        <3>1. ~Joining' /\ ~InQueue
            BY <1>6, <2>2, <2>4 DEF LoaderGets, HandleShowMenu, HandleStart, HandleLock, HandleUnlock,
                    HandleQuery, HandleEnqueueLaunch, HandleClearLaunchQueue, Finish, LoaderGoes,
                    BeginStart, Joining, m
        <3>2. threadState'["app"] = threadState["app"] /\ UNCHANGED scrubbed
            <4>1. UNCHANGED threadVars \/ ThreadStarts("menu")
                BY <1>6, <2>4 DEF LoaderGets, HandleShowMenu, HandleStart, HandleLock, HandleUnlock,
                    HandleQuery, HandleEnqueueLaunch, HandleClearLaunchQueue, Finish, m
            <4> QED
                BY <1>a, <4>1 DEF ThreadStarts, ThreadGoes, threadVars
        <3>3. app'.thread = "app" <=> app.thread = "app"
            <4>1. CASE HandleLock(m)
                BY <1>a, <4>1 DEF HandleLock, TypeOK
            <4>2. CASE HandleUnlock(m)
                <5>1. app.thread = "locked"
                    BY <1>a, <2>1, <4>2 DEF LockInv, Unlocking, HandleUnlock, m
                <5> QED
                    BY <1>a, <4>2, <5>1 DEF HandleUnlock, TypeOK
            <4>3. CASE UNCHANGED app
                BY <4>3
            <4> QED
                BY <1>6, <2>4, <4>1, <4>2, <4>3 DEF LoaderGets, HandleShowMenu, HandleStart,
                    HandleQuery, HandleEnqueueLaunch, HandleClearLaunchQueue, Finish, m
        <3> QED
            BY <1>a, <2>2, <3>1, <3>2, <3>3 DEF Closing
    <2> QED
        BY <2>3, <2>4
<1> QED
    BY <1>1, <1>3, <1>4, <1>5, <1>6 DEF LoaderMoves, LoaderStep

\* The lock of the loader is given back by the thread that got it, and only once.
LEMMA LockStep == LoaderInv /\ [Next]_vars => LockInv'
<1> SUFFICES ASSUME LoaderInv, [Next]_vars
             PROVE  LockInv'
    OBVIOUS
<1>a. /\ TypeOK /\ LockInv /\ Calls /\ Closing /\ WhatIsHandled
      /\ answers \in [Callers -> Results \union {"none"}]
      /\ remote \in [at : {"idle", "calling"}, type : SyncTypes \union {"none"}, locked : BOOLEAN]
      /\ "remote" \in Callers /\ "desktop" \in Callers /\ Threads \subseteq Callers
      /\ "remote" \notin Threads
    BY TheThreads DEF LoaderInv, TypeOK
<1>b. answers["remote"] # "none" => remote.at = "calling"
    BY <1>a DEF Calls, Calling
<1>1. ASSUME ~Unlocking', UNCHANGED remote, app'.thread = "locked" <=> app.thread = "locked",
             answers'["remote"] = answers["remote"] \/ remote.type # "Lock"
      PROVE  LockInv'
    BY <1>1, <1>a DEF LockInv, Granted
<1>2. ASSUME UNCHANGED <<remote, queue>>, app'.thread = "locked" <=> app.thread = "locked",
             answers'["remote"] = answers["remote"] \/ remote.type # "Lock"
      PROVE  LockInv'
    BY <1>2, <1>a DEF LockInv, Granted, Unlocking
<1>3. CASE LoaderBoots \/ DialogDismissed
    BY <1>2, <1>3 DEF LoaderBoots, DialogDismissed
<1>4. CASE LoaderJoined
    <2>1. UNCHANGED <<remote, queue, answers>>
        BY <1>4 DEF LoaderJoined
    <2>2. app'.thread = "locked" <=> app.thread = "locked"
        <3>1. CASE ThreadOf(loader.msg) = "app"
            <4>1. app.thread = "app"
                BY <1>4, <1>a, <3>1 DEF LoaderJoined, ThreadJoined, ThreadGoes, Closing
            <4>2. app'.thread = "NULL"
                BY <1>4, <1>a, <3>1 DEF LoaderJoined, TypeOK
            <4> QED
                BY <4>1, <4>2
        <3>2. CASE ThreadOf(loader.msg) # "app"
            BY <1>4, <3>2 DEF LoaderJoined
        <3> QED
            BY <3>1, <3>2
    <2> QED
        BY <1>2, <2>1, <2>2
<1>5. CASE StartByName
    <2>1. UNCHANGED <<remote, queue>> /\ loader.at \in {"announcing", "starting"}
        BY <1>5 DEF StartByName
    <2>2. answers'["remote"] = answers["remote"] \/ remote.type # "Lock"
        <3>1. CASE loader.msg.from = "remote"
            BY <1>a, <2>1, <3>1 DEF Calls, Handled
        <3>2. CASE loader.msg.from # "remote"
            BY <1>5, <1>a, <3>2 DEF StartByName, Answer
        <3> QED
            BY <3>1, <3>2
    <2>3. app'.thread = "locked" <=> app.thread = "locked"
        <3>1. CASE Launch(loader.msg) /\ Outcome(loader.msg.name) = "ok"
            BY <1>a, <3>1, OutcomeTyped DEF Launch, ShowApps, StartApp, TypeOK
        <3>2. CASE Refuse(loader.msg)
            BY <3>2 DEF Refuse
        <3> QED
            BY <1>5, <3>1, <3>2 DEF StartByName
    <2> QED
        BY <1>2, <2>1, <2>2, <2>3
<1>6. CASE LoaderGets
    <2> DEFINE m == Head(queue)
    <2>1. /\ m \in Messages /\ WhoSends(m) /\ queue # <<>> /\ queue' = <<>>
          /\ \A c \in Callers : m.from = c => Calling(c) /\ answers[c] = "none"
          /\ UNCHANGED remote
        BY <1>6, Taken DEF LoaderGets
    <2>2. ~Unlocking' /\ (Unlocking <=> m.type = "Unlock")
        BY <2>1 DEF Unlocking
    <2> HIDE DEF m
    <2>3. CASE HandleLock(m)
        <3>1. m.from = "remote" /\ remote.type = "Lock" /\ remote.at = "calling"
            BY <1>a, <2>1, <2>3 DEF HandleLock, WhoSends, AsyncTypes, Calling
        <3>2. answers'["remote"] = IF app.thread = "NULL" THEN "true" ELSE "false"
            BY <1>a, <2>3, <3>1 DEF HandleLock, Answer
        <3>3. CASE app.thread = "NULL"
            BY <1>a, <2>1, <2>2, <2>3, <3>3 DEF HandleLock, LockInv, Granted, TypeOK
        <3>4. CASE app.thread # "NULL"
            <4>1. UNCHANGED app /\ ~Granted'
                BY <2>1, <2>3, <3>2, <3>4 DEF HandleLock, Granted
            <4> QED
                BY <1>a, <2>1, <2>2, <4>1 DEF LockInv
        <3> QED
            BY <3>3, <3>4
    <2>4. CASE HandleUnlock(m)
        <3>1. UNCHANGED answers /\ ~Granted /\ ~remote.locked
            BY <1>a, <2>2, <2>4 DEF HandleUnlock, LockInv
        <3> QED
            BY <2>1, <2>2, <3>1 DEF LockInv, Granted
    <2>5. CASE HandleQuery(m) \/ HandleEnqueueLaunch(m) \/ HandleClearLaunchQueue(m)
        <3>1. UNCHANGED app
            BY <2>5 DEF HandleQuery, HandleEnqueueLaunch, HandleClearLaunchQueue
        <3>2. answers'["remote"] = answers["remote"] \/ remote.type # "Lock"
            <4>1. m.type \in {"IsLocked", "GetLaunchPath", "Signal", "EnqueueLaunch",
                              "ClearLaunchQueue"}
                BY <2>5 DEF HandleQuery, HandleEnqueueLaunch, HandleClearLaunchQueue
            <4>2. CASE m.from = "remote"
                BY <2>1, <4>1, <4>2 DEF WhoSends
            <4>3. CASE m.from # "remote"
                BY <1>a, <2>5, <4>3 DEF HandleQuery, HandleEnqueueLaunch, HandleClearLaunchQueue, Answer
            <4> QED
                BY <4>2, <4>3
        <3> QED
            BY <1>1, <2>1, <2>2, <3>1, <3>2
    <2>6. CASE HandleShowMenu(m) \/ HandleStart(m) \/ HandleClosed(m)
        BY <1>1, <2>1, <2>2, <2>6 DEF HandleShowMenu, HandleStart, HandleClosed
    <2> QED
        BY <1>6, <2>3, <2>4, <2>5, <2>6 DEF LoaderGets, m
<1>7. CASE ~LoaderMoves
    <2>1. UNCHANGED app
        BY <1>7, LoaderAlone
    <2>2. CASE RemoteUnlocks
        <3>1. Posted(Message("Unlock", NoName, "none")) /\ UNCHANGED answers
            <4>1. Message("Unlock", NoName, "none") \in Messages
                BY KnownMessage DEF AsyncTypes
            <4> QED
                BY <1>a, <2>2, <4>1, PostAlone DEF RemoteUnlocks, Posted
        <3>2. /\ remote.at = "idle" /\ remote.locked
              /\ remote' = [remote EXCEPT !.locked = FALSE]
            BY <2>2 DEF RemoteUnlocks
        <3>3. remote'.at = "idle" /\ ~remote'.locked
            BY <1>a, <3>2
        <3> QED
            BY <1>a, <2>1, <3>2, <3>3 DEF LockInv, Granted
    <2>3. CASE RemoteAnswered
        <3>1. /\ remote.at = "calling" /\ remote'.at = "idle"
              /\ remote'.locked = (remote.locked \/ (remote.type = "Lock" /\ answers["remote"] = "true"))
              /\ UNCHANGED queue
            BY <2>3 DEF RemoteAnswered
        <3>2. remote'.locked <=> remote.locked \/ Granted
            BY <3>1 DEF Granted
        <3> QED
            BY <1>a, <2>1, <3>1, <3>2 DEF LockInv, Granted, Unlocking
    <2>4. ASSUME NEW type, NEW n, RemoteCalls(type, n), Posted(Message(type, n, "remote")),
                 type # "Unlock"
          PROVE  LockInv'
        <3>1. /\ remote.at = "idle" /\ remote'.at = "calling" /\ remote'.locked = remote.locked
              /\ UNCHANGED answers
            BY <1>a, <2>4 DEF RemoteCalls
        <3>2. ~Unlocking /\ ~Unlocking' /\ ~Granted /\ ~Granted'
            BY <1>b, <2>4, <3>1 DEF Unlocking, Posted, Message, Granted
        <3> QED
            BY <1>a, <2>1, <3>1, <3>2 DEF LockInv
    <2>5. ASSUME UNCHANGED remote, answers'["remote"] = answers["remote"],
                 UNCHANGED queue \/ PostMoves, ~RemoteUnlocks
          PROVE  LockInv'
        <3>1. CASE UNCHANGED queue
            BY <1>2, <2>1, <2>5, <3>1
        <3>2. CASE PostMoves
            <4>1. queue' # <<>> /\ Head(queue').type # "Unlock"
                BY <1>a, <2>5, <3>2 DEF PostMoves, Posted, Message, Calls, DesktopPosts, Queries
            <4>2. ~Unlocking'
                BY <4>1 DEF Unlocking
            <4> QED
                BY <1>1, <2>1, <2>5, <4>2
        <3> QED
            BY <2>5, <3>1, <3>2
    <2>6. CASE UNCHANGED remote /\ answers'["remote"] = answers["remote"]
        <3>1. ~RemoteUnlocks
            BY <1>a, <2>6 DEF RemoteUnlocks
        <3>2. UNCHANGED queue \/ PostMoves
            BY <1>7, QueueSteps DEF LoaderMoves, LoaderStep
        <3> QED
            BY <2>5, <2>6, <3>1, <3>2
    <2>7. \/ UNCHANGED remote /\ answers'["remote"] = answers["remote"]
          \/ RemoteUnlocks \/ RemoteAnswered
          \/ \E type \in Queries \union {"StartByName"}, n \in Names \union {NoName} :
                RemoteCalls(type, n)
        <3>1. CASE UNCHANGED vars
            BY <3>1 DEF vars
        <3>2. CASE AnnouncementFails
            BY <3>2 DEF AnnouncementFails
        <3>3. CASE DesktopStep \/ \E m \in Messages : DesktopWants(m)
            BY <1>a, <3>3 DEF DesktopStep, DesktopSubscribes, DesktopAsks, DesktopAnswered,
                    DesktopEvent, DesktopPosts, DesktopWants, DesktopOnly
        <3>4. ASSUME NEW t \in Threads,
                     \/ Begin(t) \/ Answered(t) \/ Close(t) \/ End(t)
                     \/ Queue(t) \/ StateCallback(t)
                     \/ \E n \in StartNames : CallStart(t, n)
              PROVE  UNCHANGED remote /\ answers'["remote"] = answers["remote"]
            BY <1>a, <3>4 DEF Begin, Answered, Close, End, Queue, StateCallback, CallStart, CodeOnly
        <3>5. CASE \/ BrowserWakes \/ Scrub \/ AppCalls("ClearLaunchQueue", NoName)
                   \/ \E n \in LaunchNames : AppCalls("EnqueueLaunch", n)
            BY <3>5 DEF BrowserWakes, Scrub, AppCalls, CodeOnly
        <3>6. /\ Message("ShowMenu", NoName, "none") \in Messages
              /\ \A n \in DesktopNames : Message("Detached", n, "none") \in Messages
              /\ RemoteQueries \subseteq Queries /\ StartNames \subseteq Names
            BY KnownMessage, TheThreads DEF AsyncTypes
        <3> QED
            BY <1>7, <3>1, <3>2, <3>3, <3>4, <3>5, <3>6 DEF Next, LoaderMoves
    <2>8. ASSUME NEW type \in Queries \union {"StartByName"}, NEW n \in Names \union {NoName},
                 RemoteCalls(type, n)
          PROVE  LockInv'
        <3>1. Message(type, n, "remote") \in Messages
            BY KnownMessage, <1>a DEF SyncTypes
        <3>2. Posted(Message(type, n, "remote"))
            BY <1>a, <2>8, <3>1, PostAlone DEF RemoteCalls, Posted
        <3>3. type # "Unlock"
            BY DEF Queries
        <3> QED
            BY <2>4, <2>8, <3>2, <3>3
    <2> QED
        BY <2>2, <2>3, <2>6, <2>7, <2>8
<1> QED
    BY <1>3, <1>4, <1>5, <1>6, <1>7 DEF LoaderMoves, LoaderStep

\* The three ways a step of another thread than the loader's may concern a caller.
CallKept(c) ==
    /\ Calling(c)' <=> Calling(c)
    /\ answers'[c] = answers[c]
    /\ UNCHANGED queue \/ (queue' # <<>> /\ Head(queue').from # c)
CallOver(c) ==
    /\ answers[c] # "none" /\ answers'[c] = "none"
    /\ ~Calling(c)' /\ UNCHANGED queue
CallMade(c) == ~Calling(c) /\ Calling(c)' /\ UNCHANGED answers

\* In a step that is not the loader's a call of any caller stays as it is, returns or is made.
LEMMA CallSteps ==
    ASSUME LoaderInv, [Next]_vars, ~LoaderMoves, NEW c \in Callers
    PROVE  CallKept(c) \/ CallOver(c) \/ CallMade(c)
<1> USE DEF loaderVars, codeVars, desktopVars
<1>a. /\ TypeOK /\ Calls
      /\ answers \in [Callers -> Results \union {"none"}]
      /\ remote \in [at : {"idle", "calling"}, type : SyncTypes \union {"none"}, locked : BOOLEAN]
      /\ desktop \in [at : {"boot", "subscribed", "calling", "ready", "posting"},
                      msg : Messages, appRunning : BOOLEAN]
      /\ doing \in [Threads -> {"away", "active", "calling", "waiting", "closing", "over"}]
      /\ Callers = Threads \union {"remote", "desktop"}
      /\ "remote" \notin Threads /\ "desktop" \notin Threads
      /\ Threads = {"app", "menu", "apps"}
    BY TheThreads DEF LoaderInv, TypeOK
<1>b. ASSUME NEW m \in Messages, Post(m), m.from # c
      PROVE  queue' # <<>> /\ Head(queue').from # c
    BY <1>a, <1>b, PostAlone
<1>c. /\ Message("IsLocked", NoName, "desktop") \in Messages
      /\ Message("Unlock", NoName, "none") \in Messages
      /\ Message("AppClosed", NoName, "none") \in Messages
      /\ Message("MenuClosed", NoName, "none") \in Messages
      /\ Message("ApplicationsClosed", NoName, "none") \in Messages
      /\ Message("ClearLaunchQueue", NoName, "app") \in Messages
      /\ desktop.msg \in Messages
    BY <1>a, KnownMessage DEF AsyncTypes, SyncTypes, Queries
<1>d. ASSUME UNCHANGED <<doing, remote, desktop, answers, queue>>
      PROVE  CallKept(c)
    BY <1>d DEF CallKept, Calling
<1>1. CASE UNCHANGED vars
    BY <1>1, <1>d DEF vars
<1>2. CASE AnnouncementFails
    BY <1>2, <1>d DEF AnnouncementFails
<1>3. CASE DesktopSubscribes \/ DesktopEvent \/ \E m \in Messages : DesktopWants(m)
    BY <1>3, <1>a DEF DesktopSubscribes, DesktopEvent, DesktopWants, DesktopOnly, CallKept, Calling
<1>4. CASE DesktopAsks
    <2>1. CASE c = "desktop"
        BY <1>4, <1>a, <2>1 DEF DesktopAsks, CallMade, Calling
    <2>2. CASE c # "desktop"
        <3>1. queue' # <<>> /\ Head(queue').from # c
            BY <1>4, <1>b, <1>c, <2>2 DEF DesktopAsks, Message
        <3> QED
            BY <1>4, <2>2, <3>1 DEF DesktopAsks, DesktopOnly, CallKept, Calling
    <2> QED
        BY <2>1, <2>2
<1>5. CASE DesktopAnswered
    <2>1. CASE c = "desktop"
        BY <1>5, <1>a, <2>1 DEF DesktopAnswered, CallOver, Calling
    <2>2. CASE c # "desktop"
        BY <1>5, <1>a, <2>2 DEF DesktopAnswered, DesktopOnly, CallKept, Calling
    <2> QED
        BY <2>1, <2>2
<1>6. CASE DesktopPosts
    <2>1. desktop.msg.from = "none" /\ c # "none"
        BY <1>6, <1>a DEF DesktopPosts, Calls
    <2>2. queue' # <<>> /\ Head(queue').from # c
        BY <1>6, <1>b, <1>c, <2>1 DEF DesktopPosts
    <2> QED
        BY <1>6, <1>a, <2>2 DEF DesktopPosts, DesktopOnly, CallKept, Calling
<1>7. CASE RemoteAnswered
    <2>1. CASE c = "remote"
        BY <1>7, <1>a, <2>1 DEF RemoteAnswered, CallOver, Calling
    <2>2. CASE c # "remote"
        BY <1>7, <1>a, <2>2 DEF RemoteAnswered, RemoteOnly, CallKept, Calling
    <2> QED
        BY <2>1, <2>2
<1>8. CASE RemoteUnlocks
    <2>1. queue' # <<>> /\ Head(queue').from # c
        BY <1>8, <1>a, <1>b, <1>c DEF RemoteUnlocks, Message
    <2>2. remote.at = "idle" /\ remote'.at = "idle"
        BY <1>8, <1>a DEF RemoteUnlocks
    <2> QED
        BY <1>8, <2>1, <2>2 DEF RemoteUnlocks, RemoteOnly, CallKept, Calling
<1>9. ASSUME NEW type \in SyncTypes, NEW n \in Names \union {NoName}, RemoteCalls(type, n)
      PROVE  CallKept(c) \/ CallMade(c)
    <2>1. CASE c = "remote"
        BY <1>9, <1>a, <2>1 DEF RemoteCalls, RemoteOnly, CallMade, Calling
    <2>2. CASE c # "remote"
        <3>1. Message(type, n, "remote") \in Messages
            BY KnownMessage, <1>a
        <3>2. queue' # <<>> /\ Head(queue').from # c
            BY <1>9, <1>b, <2>2, <3>1 DEF RemoteCalls, Message
        <3> QED
            BY <1>9, <2>2, <3>2 DEF RemoteCalls, RemoteOnly, CallKept, Calling
    <2> QED
        BY <2>1, <2>2
<1>10. ASSUME NEW t \in Threads, NEW from, NEW to, CodeGoes(t, from, to), CodeOnly,
              from # "calling", to # "calling", UNCHANGED answers,
              UNCHANGED queue \/ (queue' # <<>> /\ Head(queue').from # c)
       PROVE  CallKept(c)
    BY <1>10, <1>a DEF CodeGoes, CodeOnly, CallKept, Calling
<1>11. ASSUME NEW t \in Threads, Begin(t) \/ End(t) \/ (t = "apps" /\ BrowserWakes)
       PROVE  CallKept(c)
    <2>1. \E from \in {"away", "active", "closing", "waiting"}, to \in {"active", "over"} :
             CodeGoes(t, from, to)
        BY <1>11 DEF Begin, End, BrowserWakes
    <2>2. CodeOnly /\ UNCHANGED <<queue, answers>>
        BY <1>11 DEF Begin, End, BrowserWakes
    <2> QED
        BY <1>10, <2>1, <2>2
<1>12. ASSUME NEW t \in Threads, Close(t)
       PROVE  CallKept(c)
    <2>1. queue' # <<>> /\ Head(queue').from # c
        BY <1>12, <1>a, <1>b, <1>c DEF Close, Message
    <2> QED
        BY <1>10, <1>12, <2>1 DEF Close
<1>13. ASSUME NEW t \in Threads, Answered(t)
       PROVE  CallKept(c) \/ CallOver(c)
    <2>1. CASE c = t
        BY <1>13, <1>a, <2>1 DEF Answered, CodeGoes, CallOver, Calling
    <2>2. CASE c # t
        BY <1>13, <1>a, <2>2 DEF Answered, CodeGoes, CodeOnly, CallKept, Calling
    <2> QED
        BY <2>1, <2>2
<1>14. ASSUME NEW t \in Threads, Queue(t) \/ Scrub
       PROVE  CallKept(c)
    BY <1>14, <1>d DEF Queue, Scrub, CodeOnly
<1>15. ASSUME NEW t \in Threads, StateCallback(t)
       PROVE  CallKept(c)
    <2>1. UNCHANGED queue \/ (queue' # <<>> /\ Head(queue').from # c)
        BY <1>15, <1>a, <1>b, <1>c DEF StateCallback, Message
    <2> QED
        BY <1>15, <2>1 DEF StateCallback, CodeOnly, CallKept, Calling
<1>16. ASSUME NEW t \in Threads, NEW m \in Messages, m.from = t, Post(m),
              CodeGoes(t, "active", "calling"), CodeOnly, UNCHANGED answers
       PROVE  CallKept(c) \/ CallMade(c)
    <2>1. CASE c = t
        BY <1>16, <1>a, <2>1 DEF CodeGoes, CallMade, Calling
    <2>2. CASE c # t
        <3>1. queue' # <<>> /\ Head(queue').from # c
            BY <1>16, <1>b, <2>2
        <3> QED
            BY <1>16, <1>a, <2>2, <3>1 DEF CodeGoes, CodeOnly, CallKept, Calling
    <2> QED
        BY <2>1, <2>2
<1>17. ASSUME NEW t \in Threads, NEW n \in StartNames, CallStart(t, n)
       PROVE  CallKept(c) \/ CallMade(c)
    <2>1. Message("StartByName", n, t) \in Messages /\ Message("StartByName", n, t).from = t
        BY <1>a, KnownMessage, TheThreads DEF SyncTypes, Message
    <2> QED
        BY <1>16, <1>17, <2>1 DEF CallStart
<1>18. ASSUME NEW type \in {"EnqueueLaunch", "ClearLaunchQueue"}, NEW n \in Names \union {NoName},
              AppCalls(type, n)
       PROVE  CallKept(c) \/ CallMade(c)
    <2>1. Message(type, n, "app") \in Messages /\ Message(type, n, "app").from = "app"
        BY <1>a, KnownMessage DEF SyncTypes, Message
    <2> QED
        BY <1>16, <1>18, <1>a, <2>1 DEF AppCalls
<1>19. /\ Message("ShowMenu", NoName, "none") \in Messages
       /\ \A n \in DesktopNames : Message("Detached", n, "none") \in Messages
       /\ RemoteQueries \subseteq SyncTypes /\ "StartByName" \in SyncTypes
       /\ LaunchNames \subseteq Names /\ StartNames \subseteq Names
    BY KnownMessage, TheThreads DEF AsyncTypes, SyncTypes
<1> QED
    BY <1>1, <1>2, <1>3, <1>4, <1>5, <1>6, <1>7, <1>8, <1>9, <1>11, <1>12, <1>13, <1>14, <1>15,
       <1>17, <1>18, <1>19, <1>a
       DEF Next, DesktopStep, LoaderMoves

\* A message handled leaves the calls in order: its caller has its answer, or it is still
\* at work.
CallsInOrder(c) ==
    /\ queue # <<>> /\ Head(queue).from = c => Calling(c) /\ answers[c] = "none" /\ ~Handled(c)
    /\ Handled(c) => Calling(c) /\ answers[c] = "none"
    /\ answers[c] # "none" => Calling(c)

\* Every call goes its way: its message waits, is handled, or is answered.
LEMMA CallsStep == LoaderInv /\ [Next]_vars => Calls'
<1> SUFFICES ASSUME LoaderInv, [Next]_vars
             PROVE  Calls'
    OBVIOUS
<1>a. /\ TypeOK /\ Calls /\ WhatIsHandled /\ Life
      /\ answers \in [Callers -> Results \union {"none"}]
      /\ remote \in [at : {"idle", "calling"}, type : SyncTypes \union {"none"}, locked : BOOLEAN]
      /\ desktop \in [at : {"boot", "subscribed", "calling", "ready", "posting"},
                      msg : Messages, appRunning : BOOLEAN]
      /\ doing \in [Threads -> {"away", "active", "calling", "waiting", "closing", "over"}]
      /\ threadState \in [Threads -> ThreadStates]
      /\ Callers = {"app", "menu", "apps", "remote", "desktop"}
      /\ Threads = {"app", "menu", "apps"}
    BY TheThreads DEF LoaderInv, TypeOK, ThreadsTypeOK
<1>b. \A c \in Callers : CallsInOrder(c)
    BY <1>a DEF Calls, CallsInOrder
<1>c. ASSUME queue' # <<>> => WhoSends(Head(queue))',
             desktop'.at = "posting" =>
                 desktop'.msg.type \in {"ShowMenu", "Detached"} /\ desktop'.msg.from = "none",
             \A c \in Callers : CallsInOrder(c)',
             Handled("remote")' => remote'.type = "StartByName"
      PROVE  Calls'
    BY <1>c DEF Calls, CallsInOrder
<1>1. CASE ~LoaderMoves
    <2>1. UNCHANGED loader
        BY <1>1, LoaderAlone
    <2>2. \A c \in Callers : CallKept(c) \/ CallOver(c) \/ CallMade(c)
        BY <1>1, CallSteps
    <2>3. UNCHANGED queue \/ PostMoves
        BY <1>1, QueueSteps DEF LoaderMoves, LoaderStep
    <2>4. ASSUME NEW c \in Callers PROVE CallsInOrder(c)'
        <3>1. CallsInOrder(c) /\ (Handled(c)' <=> Handled(c))
            BY <1>b, <2>1 DEF Handled
        <3>2. CASE CallKept(c)
            BY <3>1, <3>2 DEF CallKept, CallsInOrder
        <3>3. CASE CallOver(c)
            BY <3>1, <3>3 DEF CallOver, CallsInOrder
        <3>4. CASE CallMade(c)
            BY <3>1, <3>4 DEF CallMade, CallsInOrder
        <3> QED
            BY <2>2, <3>2, <3>3, <3>4
    <2>5. UNCHANGED remote \/ RemoteAnswered \/ RemoteUnlocks \/ \E type, n : RemoteCalls(type, n)
        <3>1. CASE UNCHANGED vars
            BY <3>1 DEF vars
        <3>2. CASE AnnouncementFails
            BY <3>2 DEF AnnouncementFails
        <3>3. CASE DesktopStep \/ \E m \in Messages : DesktopWants(m)
            BY <3>3 DEF DesktopStep, DesktopSubscribes, DesktopAsks, DesktopAnswered,
                        DesktopEvent, DesktopPosts, DesktopWants, DesktopOnly
        <3>4. ASSUME NEW t \in Threads,
                     \/ Begin(t) \/ Answered(t) \/ Close(t) \/ End(t)
                     \/ Queue(t) \/ StateCallback(t)
                     \/ \E n \in StartNames : CallStart(t, n)
              PROVE  UNCHANGED remote
            BY <3>4 DEF Begin, Answered, Close, End, Queue, StateCallback, CallStart, CodeOnly
        <3>5. CASE \/ BrowserWakes \/ Scrub \/ AppCalls("ClearLaunchQueue", NoName)
                   \/ \E n \in LaunchNames : AppCalls("EnqueueLaunch", n)
            BY <3>5 DEF BrowserWakes, Scrub, AppCalls, CodeOnly
        <3>6. /\ Message("ShowMenu", NoName, "none") \in Messages
              /\ \A n \in DesktopNames : Message("Detached", n, "none") \in Messages
            BY KnownMessage, TheThreads DEF AsyncTypes
        <3> QED
            BY <1>1, <3>1, <3>2, <3>3, <3>4, <3>5, <3>6 DEF Next, LoaderMoves
    <2>6. remote'.type = remote.type \/ (answers["remote"] # "none" /\ UNCHANGED queue)
          \/ ~Calling("remote")
        BY <1>a, <2>5 DEF RemoteAnswered, RemoteUnlocks, RemoteCalls, RemoteOnly, Calling
    <2>7. Handled("remote")' => remote'.type = "StartByName"
        BY <1>a, <2>1, <2>6 DEF Calls, Handled
    <2>8. desktop'.at = "posting" =>
              desktop'.msg.type \in {"ShowMenu", "Detached"} /\ desktop'.msg.from = "none"
        <3>1. CASE UNCHANGED desktop
            BY <1>a, <3>1 DEF Calls
        <3>2. CASE DesktopStep
            BY <1>a, <3>2 DEF DesktopStep, DesktopSubscribes, DesktopAsks, DesktopAnswered,
                              DesktopEvent, DesktopPosts
        <3>3. ASSUME NEW m, DesktopWants(m), m.type \in {"ShowMenu", "Detached"}, m.from = "none"
              PROVE  desktop'.msg.type \in {"ShowMenu", "Detached"} /\ desktop'.msg.from = "none"
            BY <1>a, <3>3 DEF DesktopWants
        <3>4. ASSUME NEW t \in Threads,
                     \/ Begin(t) \/ Answered(t) \/ Close(t) \/ End(t)
                     \/ Queue(t) \/ StateCallback(t)
                     \/ \E n \in StartNames : CallStart(t, n)
              PROVE  UNCHANGED desktop
            BY <3>4 DEF Begin, Answered, Close, End, Queue, StateCallback, CallStart, CodeOnly,
                        desktopVars
        <3>5. CASE \/ BrowserWakes \/ Scrub \/ AppCalls("ClearLaunchQueue", NoName)
                   \/ (\E n \in LaunchNames : AppCalls("EnqueueLaunch", n))
                   \/ AnnouncementFails \/ UNCHANGED vars
            BY <1>a, <3>5 DEF BrowserWakes, Scrub, AppCalls, CodeOnly, AnnouncementFails, vars,
                              desktopVars, Calls
        <3>6. CASE \/ RemoteAnswered \/ RemoteUnlocks
                   \/ (\E n \in StartNames : RemoteCalls("StartByName", n))
                   \/ \E type \in RemoteQueries : RemoteCalls(type, NoName)
            BY <1>a, <3>6 DEF RemoteAnswered, RemoteUnlocks, RemoteCalls, RemoteOnly, desktopVars,
                              Calls
        <3> QED
            BY <1>1, <3>1, <3>2, <3>3, <3>4, <3>5, <3>6 DEF Next, LoaderMoves, Message
    <2>9. queue' # <<>> => WhoSends(Head(queue))'
        <3>1. CASE UNCHANGED queue
            <4>1. ASSUME queue # <<>>
                  PROVE  Head(queue).from = "remote" => remote'.type = remote.type
                BY <1>a, <2>6, <4>1 DEF Calls
            <4> QED
                BY <1>a, <3>1, <4>1 DEF Calls, WhoSends
        <3>2. CASE PostMoves
            <4>1. ASSUME NEW type \in Queries \union {"StartByName"}, NEW n, RemoteCalls(type, n)
                  PROVE  remote'.type = type
                BY <1>a, <4>1 DEF RemoteCalls
            <4> QED
                BY <1>a, <3>2, <4>1 DEF PostMoves, Posted, Message, WhoSends, AsyncTypes, Calls,
                                        DesktopPosts
        <3> QED
            BY <2>3, <3>1, <3>2
    <2> QED
        BY <1>c, <2>4, <2>7, <2>8, <2>9
<1>2. ASSUME UNCHANGED <<queue, remote, desktop>>,
             \A c \in Callers : ~Handled(c)',
             \A c \in Callers : Calling(c)' <=> Calling(c),
             \A c \in Callers : answers'[c] = answers[c] \/ Handled(c)
      PROVE  Calls'
    <2>1. ASSUME NEW c \in Callers PROVE CallsInOrder(c)'
        BY <1>2, <1>b, <2>1 DEF CallsInOrder
    <2> QED
        BY <1>2, <1>a, <1>c, <2>1 DEF Calls, WhoSends
<1>3. ASSUME BackToGet \/ NextOfQueue
      PROVE  \A c \in Callers : ~Handled(c)'
    BY <1>3, <1>a DEF BackToGet, NextOfQueue, Handled, Message
<1>4. ASSUME UNCHANGED <<remote, desktop, doing>>
      PROVE  \A c \in Callers : Calling(c)' <=> Calling(c)
    BY <1>4 DEF Calling
<1>5. CASE LoaderBoots
    <2>1. \A c \in Callers : ~Handled(c)'
        BY <1>5, <1>a DEF LoaderBoots, LoaderGoes, BeginStart, Message, NoMessage, Handled
    <2> QED
        BY <1>2, <1>4, <1>5, <2>1 DEF LoaderBoots
<1>6. CASE DialogDismissed
    BY <1>2, <1>3, <1>4, <1>6, FailureMoves DEF DialogDismissed
<1>7. CASE LoaderJoined
    <2> DEFINE t == ThreadOf(loader.msg)
    <2>1. t \in Threads /\ threadState[t] = "Stopped" /\ doing' = [doing EXCEPT ![t] = "away"]
        BY <1>7, TheThreads DEF LoaderJoined, ThreadJoined, ThreadGoes, ThreadOf
    <2> HIDE DEF t
    <2>2. doing[t] # "calling"
        BY <1>a, <2>1 DEF Life
    <2>3. UNCHANGED <<queue, remote, desktop, answers>>
        BY <1>7 DEF LoaderJoined
    <2>4. \A c \in Callers : Calling(c)' <=> Calling(c)
        BY <1>a, <2>1, <2>2, <2>3 DEF Calling
    <2>5. BackToGet \/ NextOfQueue
        BY <1>7, DeferredMoves DEF LoaderJoined, LoaderGoes, BackToGet
    <2> QED
        BY <1>2, <1>3, <2>3, <2>4, <2>5
<1>8. CASE StartByName
    <2> DEFINE m == loader.msg
    <2>1. /\ UNCHANGED <<queue, remote, desktop, doing>> /\ loader.at \in {"announcing", "starting"}
          /\ m.type = "StartByName" \/ UNCHANGED answers
        BY <1>8 DEF StartByName
    <2>2. \A c \in Callers : answers'[c] = answers[c] \/ Handled(c)
        <3>1. CASE UNCHANGED answers
            BY <3>1
        <3>2. CASE Answer(m, Outcome(m.name))
            BY <1>a, <2>1, <3>2 DEF Answer, Handled
        <3> QED
            BY <1>8, <3>1, <3>2 DEF StartByName
    <2>3. \A c \in Callers : ~Handled(c)'
        <3>1. \/ BackToGet \/ NextOfQueue
              \/ loader' = [at |-> "dialog", msg |-> m]
            BY <1>8, FailureMoves DEF StartByName, Launch, Refuse, LoaderGoes, BackToGet
        <3> QED
            BY <1>3, <3>1 DEF Handled
    <2> QED
        BY <1>2, <1>4, <2>1, <2>2, <2>3
<1>9. CASE LoaderGets
    <2> DEFINE m == Head(queue)
    <2>1. /\ m \in Messages /\ WhoSends(m) /\ queue # <<>> /\ queue' = <<>>
          /\ \A c \in Callers : m.from = c => Calling(c) /\ answers[c] = "none"
          /\ UNCHANGED <<doing, remote, desktop>>
        BY <1>9, Taken DEF LoaderGets
    <2> HIDE DEF m
    <2>2. \A c \in Callers : Calling(c)' <=> Calling(c)
        BY <1>4, <2>1
    <2>3. ASSUME \A c \in Callers : Handled(c)' => m.from = c /\ UNCHANGED answers,
                 \A c \in Callers : answers'[c] = answers[c] \/ m.from = c,
                 Handled("remote")' => remote'.type = "StartByName"
          PROVE  Calls'
        <3>1. ASSUME NEW c \in Callers PROVE CallsInOrder(c)'
            BY <1>b, <2>1, <2>2, <2>3 DEF CallsInOrder
        <3> QED
            BY <1>a, <1>c, <2>1, <2>3, <3>1 DEF Calls
    <2>4. CASE HandleStart(m)
        <3>1. loader'.msg = m /\ UNCHANGED answers
            BY <2>4 DEF HandleStart, BeginStart, LoaderGoes
        <3>2. m.from = "remote" => remote'.type = "StartByName"
            BY <2>1, <2>4 DEF HandleStart, WhoSends, Queries
        <3> QED
            BY <2>3, <3>1, <3>2 DEF Handled
    <2>5. CASE ~HandleStart(m)
        <3>1. loader'.at \in {"get", "joining"}
            BY <1>9, <2>5 DEF LoaderGets, HandleShowMenu, HandleClosed, HandleLock, HandleUnlock,
                HandleQuery, HandleEnqueueLaunch, HandleClearLaunchQueue, Finish, LoaderGoes, m
        <3>2. UNCHANGED answers \/ \E r \in Results : Answer(m, r)
            BY <1>9, <2>5 DEF LoaderGets, HandleShowMenu, HandleClosed, HandleLock, HandleUnlock,
                HandleQuery, HandleEnqueueLaunch, HandleClearLaunchQueue, Results, m
        <3>3. \A c \in Callers : answers'[c] = answers[c] \/ m.from = c
            BY <1>a, <3>2 DEF Answer
        <3> QED
            BY <2>3, <3>1, <3>3 DEF Handled
    <2> QED
        BY <2>4, <2>5
<1> QED
    BY <1>1, <1>5, <1>6, <1>7, <1>8, <1>9 DEF LoaderMoves, LoaderStep

-----------------------------------------------------------------------------
(* The invariant holds. *)

\* loader_alloc, with no thread yet and nobody calling.
LEMMA InvInit == Init => LoaderInv
<1> SUFFICES ASSUME Init PROVE LoaderInv
    OBVIOUS
<1> USE TheThreads DEF Init, ThreadsInit, NoMessage, Message
<1>1. Calls
    BY DEF Calls, Handled
<1>2. WhatIsHandled /\ Kept /\ InsomniaBalanced
    BY DEF WhatIsHandled, Starting, Kept, InsomniaBalanced
<1>3. Life
    BY DEF Life
<1>4. Closing /\ LockInv
    BY DEF Closing, InQueue, Joining, LockInv, Unlocking, Granted
<1> QED
    BY <1>1, <1>2, <1>3, <1>4, TypedInit DEF LoaderInv

\* Every step of the loader, of a thread or of the desktop keeps the invariant.
LEMMA InvStep == LoaderInv /\ [Next]_vars => LoaderInv'
<1> SUFFICES ASSUME LoaderInv, [Next]_vars
             PROVE  LoaderInv'
    OBVIOUS
<1>1. TypeOK' /\ Calls' /\ WhatIsHandled' /\ Life'
    BY TypedStep, CallsStep, HandledStep, LifeStep
<1>2. Closing' /\ LockInv' /\ Kept' /\ InsomniaBalanced'
    BY ClosingStep, LockStep, KeptStep, InsomniaStep
<1> QED
    BY <1>1, <1>2 DEF LoaderInv

\* THEOREM: calls, threads, lock and launch queue of the loader are in order in every
\* state (loader.c:616-781).
THEOREM LoaderInvariant == Spec => []LoaderInv
BY InvInit, InvStep, PTL DEF Spec

\* THEOREM: the queues, the threads and the loader keep their types; the insomnia level
\* never goes below zero (loader.c:748-781).
THEOREM LoaderTypes == Spec => []TypeOK
<1>1. LoaderInv => TypeOK
    BY DEF LoaderInv
<1> QED
    BY <1>1, LoaderInvariant, PTL

\* A message of one kind is waiting, or none is.
LEMMA PendingCount ==
    ASSUME TypeOK
    PROVE  Pending("AppClosed") = (IF InQueue THEN 1 ELSE 0) + (IF Joining THEN 1 ELSE 0)
<1> DEFINE Found == {i \in 1..Len(queue) : queue[i].type = "AppClosed"}
<1>1. queue \in Seq(Messages) /\ Len(queue) <= 1
    BY DEF TypeOK
<1>2. CASE queue = <<>>
    <2>1. Len(queue) = 0
        BY <1>2
    <2>2. Found = {} /\ ~InQueue
        BY <1>2, <2>1 DEF InQueue
    <2>3. Cardinality(Found) = 0
        BY <2>2, FS_EmptySet
    <2> QED
        BY <2>2, <2>3 DEF Pending, Joining
<1>3. CASE queue # <<>>
    <2>1. Len(queue) \in Nat \ {0}
        BY <1>1, <1>3, EmptySeq, Zenon
    <2>2. Len(queue) = 1 /\ Head(queue) = queue[1]
        <3>1. Len(queue) = 1
            BY <1>1, <2>1
        <3> QED
            BY <3>1
    <2>3. CASE queue[1].type = "AppClosed"
        <3>1. Found = {1} /\ InQueue
            BY <1>3, <2>2, <2>3 DEF InQueue
        <3>2. Cardinality(Found) = 1
            BY <3>1, FS_Singleton
        <3> QED
            BY <3>1, <3>2 DEF Pending, Joining
    <2>4. CASE queue[1].type # "AppClosed"
        <3>1. Found = {} /\ ~InQueue
            BY <1>3, <2>2, <2>4 DEF InQueue
        <3>2. Cardinality(Found) = 0
            BY <3>1, FS_EmptySet
        <3> QED
            BY <3>1, <3>2 DEF Pending, Joining
    <2> QED
        BY <2>3, <2>4
<1> QED
    BY <1>2, <1>3

\* THEOREM: the loader learns of the end of an application exactly once, after the thread
\* is over and before it is freed (loader.c:331-343, :748-781).
THEOREM EndIsToldOnce == Spec => []ClosedOnce
<1>1. LoaderInv => ClosedOnce
    <2> SUFFICES ASSUME LoaderInv PROVE ClosedOnce
        OBVIOUS
    <2>1. Closing /\ TypeOK
        BY DEF LoaderInv
    <2>2. Pending("AppClosed") = (IF InQueue THEN 1 ELSE 0) + (IF Joining THEN 1 ELSE 0)
        BY <2>1, PendingCount
    <2> QED
        BY <2>1, <2>2 DEF Closing, ClosedOnce
<1> QED
    BY <1>1, LoaderInvariant, PTL

\* THEOREM: the launch path the loader keeps is that of the application that runs,
\* whatever it refused meanwhile (loader.c:675-677).
THEOREM PathStaysCurrent == Spec => []PathIsCurrent
<1>1. LoaderInv => PathIsCurrent
    BY DEF LoaderInv, Kept, PathIsCurrent
<1> QED
    BY <1>1, LoaderInvariant, PTL

\* THEOREM: sleep is held off once for an application that does not allow it, and for
\* nobody else (loader.c:400-406, :759-761).
THEOREM InsomniaIsBalanced == Spec => []InsomniaBalanced
<1>1. LoaderInv => InsomniaBalanced
    BY DEF LoaderInv
<1> QED
    BY <1>1, LoaderInvariant, PTL

-----------------------------------------------------------------------------
(* What the desktop knows. *)

\* The start of an application announces it to a desktop that listens.
LEMMA NewsBegins ==
    ASSUME TypeOK, NEW m, BeginStart(m),
           desktop.at = "boot" => events = <<>> /\ answers["desktop"] = "none",
           \A i \in 1..Len(events) : events[i] # "before",
           ~animation', UNCHANGED desktop, answers'["desktop"] = answers["desktop"]
    PROVE  Told'
<1>a. events \in Seq({"before", "after"})
    BY DEF TypeOK
<1>1. CASE Subscribed
    <2>1. events' = Append(events, "before") /\ loader'.at = "announcing" /\ desktop.at # "boot"
        BY <1>1 DEF BeginStart, LoaderGoes, Subscribed
    <2>2. /\ Len(events') = Len(events) + 1 /\ Len(events) \in Nat
          /\ \A i \in 1..Len(events') : \/ i \in 1..Len(events) /\ events'[i] = events[i]
                                        \/ i = Len(events) + 1 /\ events'[i] = "before"
        BY <1>a, <2>1, QueueAppend
    <2>3. events' # <<>> /\ Last' = "before"
        BY <2>2 DEF Last
    <2> QED
        BY <2>1, <2>2, <2>3 DEF Told
<1>2. CASE ~Subscribed
    <2>1. events' = events /\ loader'.at = "starting" /\ desktop.at = "boot"
        BY <1>2 DEF BeginStart, LoaderGoes, Subscribed
    <2> QED
        BY <2>1 DEF Told
<1> QED
    BY <1>1, <1>2

\* That nothing runs and nothing is queued disturbs no announcement.
LEMMA NewsEnds ==
    ASSUME TypeOK, NEW thread, EmitQueueEmpty(thread) \/ UNCHANGED events,
           loader'.at \notin {"announcing", "starting"},
           desktop.at = "boot" => events = <<>>,
           \A i \in 1..Len(events) : events[i] # "before",
           ~animation', UNCHANGED desktop
    PROVE  Told'
<1>a. events \in Seq({"before", "after"})
    BY DEF TypeOK
<1>1. CASE events' = events
    BY <1>1 DEF Told
<1>2. CASE events' = Append(events, "after") /\ Subscribed
    <2>1. \A i \in 1..Len(events') : \/ i \in 1..Len(events) /\ events'[i] = events[i]
                                     \/ i = Len(events) + 1 /\ events'[i] = "after"
        BY <1>a, <1>2, QueueAppend
    <2> QED
        BY <1>2, <2>1 DEF Told, Subscribed
<1> QED
    BY <1>1, <1>2 DEF EmitQueueEmpty

\* What follows an application, or one that failed, tells the desktop what it has to.
LEMMA NewsDeferred ==
    ASSUME TypeOK, NEW thread, NextDeferred(thread),
           desktop.at = "boot" => events = <<>> /\ answers["desktop"] = "none",
           \A i \in 1..Len(events) : events[i] # "before",
           ~animation', UNCHANGED desktop, answers'["desktop"] = answers["desktop"]
    PROVE  Told'
BY NewsBegins, NewsEnds DEF NextDeferred, LoaderGoes

\* What a failed start leaves to the desktop: the end of what BeforeLoad has announced.
LEMMA NewsFailure ==
    ASSUME TypeOK, NEW m, AfterFailure(m),
           desktop.at = "boot" => events = <<>> /\ answers["desktop"] = "none",
           \A i \in 1..Len(events) : events[i] # "before",
           ~animation', UNCHANGED desktop, answers'["desktop"] = answers["desktop"]
    PROVE  Told'
BY NewsDeferred, NewsEnds DEF AfterFailure, LoaderGoes

\* Only the loader publishes, and an "after" only when nothing runs.
LEMMA EventsOfLoader ==
    ASSUME TypeOK, [Next]_vars, ~DesktopEvent
    PROVE  \/ UNCHANGED events
           \/ LoaderMoves /\ events' = Append(events, "before")
           \/ LoaderMoves /\ events' = Append(events, "after") /\ app'.thread = "NULL"
<1> USE DEF loaderVars, codeVars, desktopVars
<1>a. app \in [thread : {"NULL", "locked", "app"}, path : Names \union {NoName},
               insomniac : BOOLEAN]
    BY DEF TypeOK
<1>1. CASE UNCHANGED vars \/ AnnouncementFails
    BY <1>1 DEF vars, AnnouncementFails
<1>2. CASE DesktopStep \/ \E m \in Messages : DesktopWants(m)
    BY <1>2 DEF DesktopStep, DesktopSubscribes, DesktopAsks, DesktopAnswered,
                DesktopPosts, DesktopWants
<1>3. ASSUME NEW t \in Threads,
             \/ Begin(t) \/ Answered(t) \/ Close(t) \/ End(t)
             \/ Queue(t) \/ StateCallback(t)
             \/ \E n \in StartNames : CallStart(t, n)
      PROVE  UNCHANGED events
    BY <1>3 DEF Begin, Answered, Close, End, Queue, StateCallback, CallStart, CodeOnly
<1>4. CASE \/ BrowserWakes \/ Scrub \/ AppCalls("ClearLaunchQueue", NoName)
           \/ (\E n \in LaunchNames : AppCalls("EnqueueLaunch", n))
    BY <1>4 DEF BrowserWakes, Scrub, AppCalls, CodeOnly
<1>5. CASE \/ RemoteAnswered \/ RemoteUnlocks
           \/ (\E n \in StartNames : RemoteCalls("StartByName", n))
           \/ \E type \in RemoteQueries : RemoteCalls(type, NoName)
    BY <1>5 DEF RemoteAnswered, RemoteUnlocks, RemoteCalls, RemoteOnly
<1>6. /\ Message("ShowMenu", NoName, "none") \in Messages
      /\ \A n \in DesktopNames : Message("Detached", n, "none") \in Messages
    BY KnownMessage, TheThreads DEF AsyncTypes
<1>7. ASSUME NEW m, BeginStart(m)
      PROVE  events' = events \/ events' = Append(events, "before")
    BY <1>7 DEF BeginStart
<1>8. ASSUME NEW thread, EmitQueueEmpty(thread)
      PROVE  events' = events \/ (events' = Append(events, "after") /\ thread = "NULL")
    BY <1>8 DEF EmitQueueEmpty
<1>9. ASSUME NEW thread, NextDeferred(thread)
      PROVE  \/ events' = events \/ events' = Append(events, "before")
             \/ events' = Append(events, "after") /\ thread = "NULL"
    BY <1>7, <1>8, <1>9 DEF NextDeferred
<1>10. ASSUME NEW m, AfterFailure(m)
       PROVE  \/ events' = events \/ events' = Append(events, "before")
              \/ events' = Append(events, "after") /\ app.thread = "NULL"
    BY <1>8, <1>9, <1>10 DEF AfterFailure
<1>11. CASE LoaderBoots
    BY <1>7, <1>11 DEF LoaderBoots, LoaderMoves, LoaderStep
<1>12. CASE LoaderGets
    BY <1>7, <1>12 DEF LoaderGets, HandleShowMenu, HandleStart, HandleClosed, HandleLock,
                       HandleUnlock, HandleQuery, HandleEnqueueLaunch, HandleClearLaunchQueue,
                       Finish, LoaderMoves, LoaderStep
<1>13. CASE StartByName
    BY <1>10, <1>13 DEF StartByName, Launch, Refuse, LoaderMoves, LoaderStep
<1>14. CASE LoaderJoined
    <2>1. CASE ThreadOf(loader.msg) = "app"
        <3>1. app'.thread = "NULL" /\ NextDeferred("NULL")
            BY <1>14, <1>a, <2>1 DEF LoaderJoined
        <3> QED
            BY <1>9, <1>14, <3>1 DEF LoaderMoves, LoaderStep
    <2>2. CASE ThreadOf(loader.msg) # "app"
        BY <1>14, <2>2 DEF LoaderJoined
    <2> QED
        BY <2>1, <2>2
<1>15. CASE DialogDismissed
    BY <1>10, <1>15 DEF DialogDismissed, LoaderMoves
<1> QED
    BY <1>1, <1>2, <1>3, <1>4, <1>5, <1>6, <1>11, <1>12, <1>13, <1>14, <1>15
       DEF Next, LoaderStep

\* The steps of the desktop's own thread, and what they leave alone.
DesktopMoves == DesktopStep \/ \E m \in Messages : DesktopWants(m)

\* Only the loader and the desktop itself change what the desktop waits for and knows.
LEMMA DesktopAlone ==
    ASSUME TypeOK, [Next]_vars, ~LoaderMoves, ~DesktopMoves
    PROVE  UNCHANGED <<desktop, events, animation>> /\ answers'["desktop"] = answers["desktop"]
<1> USE DEF loaderVars, codeVars, desktopVars
<1>a. /\ answers \in [Callers -> Results \union {"none"}]
      /\ "desktop" \in Callers /\ "desktop" \notin Threads
    BY TheThreads DEF TypeOK
<1>1. CASE UNCHANGED vars \/ AnnouncementFails
    BY <1>1 DEF vars, AnnouncementFails
<1>2. ASSUME NEW t \in Threads,
             \/ Begin(t) \/ Answered(t) \/ Close(t) \/ End(t)
             \/ Queue(t) \/ StateCallback(t)
             \/ \E n \in StartNames : CallStart(t, n)
      PROVE  UNCHANGED <<desktop, events, animation>> /\ answers'["desktop"] = answers["desktop"]
    BY <1>2, <1>a DEF Begin, Answered, Close, End, Queue, StateCallback, CallStart, CodeOnly
<1>3. CASE \/ BrowserWakes \/ Scrub \/ AppCalls("ClearLaunchQueue", NoName)
           \/ (\E n \in LaunchNames : AppCalls("EnqueueLaunch", n))
    BY <1>3 DEF BrowserWakes, Scrub, AppCalls, CodeOnly
<1>4. CASE \/ RemoteAnswered \/ RemoteUnlocks
           \/ (\E n \in StartNames : RemoteCalls("StartByName", n))
           \/ \E type \in RemoteQueries : RemoteCalls(type, NoName)
    BY <1>4, <1>a DEF RemoteAnswered, RemoteUnlocks, RemoteCalls, RemoteOnly
<1>5. /\ Message("ShowMenu", NoName, "none") \in Messages
      /\ \A n \in DesktopNames : Message("Detached", n, "none") \in Messages
    BY KnownMessage, TheThreads DEF AsyncTypes
<1> QED
    BY <1>1, <1>2, <1>3, <1>4, <1>5 DEF Next, LoaderMoves, DesktopMoves

\* The desktop is told of every start before it happens.
LEMMA ToldStep == LoaderInv /\ Told /\ [Next]_vars => Told'
<1> SUFFICES ASSUME LoaderInv, Told, [Next]_vars
             PROVE  Told'
    OBVIOUS
<1>a. /\ TypeOK /\ Calls /\ WhatIsHandled
      /\ answers \in [Callers -> Results \union {"none"}]
      /\ events \in Seq({"before", "after"})
      /\ desktop \in [at : {"boot", "subscribed", "calling", "ready", "posting"},
                      msg : Messages, appRunning : BOOLEAN]
      /\ "desktop" \in Callers /\ "desktop" \notin Threads
    BY TheThreads DEF LoaderInv, TypeOK
<1>b. answers["desktop"] # "none" => desktop.at = "calling"
    BY <1>a DEF Calls, Calling
<1>c. desktop.at = "boot" => events = <<>> /\ answers["desktop"] = "none"
    BY <1>b DEF Told
<1>d. loader.at # "announcing" =>
         ~animation /\ \A i \in 1..Len(events) : events[i] # "before"
    BY DEF Told
<1>1. CASE ~LoaderMoves
    <2>1. UNCHANGED loader
        BY <1>1, LoaderAlone
    <2>2. CASE ~DesktopMoves
        <3>1. UNCHANGED <<desktop, events, animation>> /\ answers'["desktop"] = answers["desktop"]
            BY <1>1, <1>a, <2>2, DesktopAlone
        <3> QED
            BY <2>1, <3>1 DEF Told, Last
    <2>3. CASE DesktopSubscribes
        BY <1>a, <2>1, <2>3 DEF DesktopSubscribes, Told, Last
    <2>4. CASE DesktopAsks
        BY <1>a, <1>b, <2>1, <2>4 DEF DesktopAsks, Told, Last
    <2>5. CASE DesktopAnswered
        BY <1>a, <2>1, <2>5 DEF DesktopAnswered, Told, Last
    <2>6. CASE DesktopPosts \/ \E m \in Messages : DesktopWants(m)
        <3>1. /\ desktop.at \in {"ready", "posting"} /\ desktop'.at \in {"ready", "posting"}
              /\ desktop'.appRunning = desktop.appRunning
              /\ UNCHANGED <<events, animation, answers>>
            BY <1>a, <2>6 DEF DesktopPosts, DesktopWants
        <3> QED
            BY <2>1, <3>1 DEF Told, Last
    <2>7. CASE DesktopEvent
        <3>1. /\ desktop.at = "ready" /\ desktop'.at = "ready"
              /\ events # <<>> /\ events' = Tail(events)
              /\ desktop'.appRunning = (Head(events) = "before")
              /\ animation' = (animation \/ Head(events) = "before")
            BY <1>a, <2>7 DEF DesktopEvent
        <3>2. /\ Head(events) = events[1] /\ Len(events') = Len(events) - 1
              /\ Len(events) \in Nat /\ 1 \in 1..Len(events)
              /\ events' \in Seq({"before", "after"})
              /\ \A i \in 1..Len(events') : i + 1 \in 2..Len(events) /\ events'[i] = events[i + 1]
            BY <1>a, <3>1, QueueTail
        <3>3. CASE loader.at = "announcing"
            <4>1. /\ ~animation /\ Last = "before"
                  /\ \A i \in 1..Len(events) : events[i] = "before" => i = Len(events)
                BY <3>1, <3>3 DEF Told
            <4>2. CASE Len(events) = 1
                <5>1. events' = <<>>
                    <6>1. Len(events') = 0
                        BY <3>2, <4>2
                    <6> QED
                        BY <3>2, <6>1, EmptySeq
                <5>2. Head(events) = "before"
                    BY <3>2, <4>1, <4>2 DEF Last
                <5> QED
                    BY <2>1, <3>1, <3>3, <5>1, <5>2 DEF Told
            <4>3. CASE Len(events) # 1
                <5>1. events[1] # "before" /\ Len(events') \in Nat \ {0}
                    BY <3>2, <4>1, <4>3
                <5>2. ~animation'
                    BY <3>1, <3>2, <4>1, <5>1
                <5>3. Last' = "before" /\ events' # <<>>
                    <6>1. Len(events') \in 1..Len(events') /\ Len(events') + 1 = Len(events)
                        BY <3>2, <5>1
                    <6>2. events'[Len(events')] = events[Len(events)]
                        BY <3>2, <6>1
                    <6>3. events' # <<>>
                        BY <5>1
                    <6> QED
                        BY <4>1, <6>2, <6>3 DEF Last
                <5>4. \A i \in 1..Len(events') : events'[i] = "before" => i = Len(events')
                    BY <3>2, <4>1
                <5> QED
                    BY <2>1, <3>1, <3>3, <5>2, <5>3, <5>4 DEF Told
            <4> QED
                BY <4>2, <4>3
        <3>4. CASE loader.at # "announcing"
            <4>1. ~animation /\ \A i \in 1..Len(events) : events[i] # "before"
                BY <1>d, <3>4
            <4>2. ~animation'
                <5>1. Head(events) # "before"
                    BY <3>2, <4>1
                <5> QED
                    BY <3>1, <4>1, <5>1
            <4>4. \A i \in 1..Len(events') : events'[i] # "before"
                <5>1. ASSUME NEW i \in 1..Len(events')
                      PROVE  events'[i] # "before"
                    <6>1. i + 1 \in 1..Len(events) /\ events'[i] = events[i + 1]
                        BY <3>2
                    <6> QED
                        BY <4>1, <6>1
                <5> QED
                    BY <5>1
            <4>3. loader.at # "starting"
                BY <3>1 DEF Told
            <4> QED
                BY <2>1, <3>1, <3>4, <4>2, <4>3, <4>4 DEF Told
        <3> QED
            BY <3>3, <3>4
    <2> QED
        BY <2>2, <2>3, <2>4, <2>5, <2>6, <2>7 DEF DesktopMoves, DesktopStep
<1>2. CASE LoaderBoots
    <2>1. /\ loader.at # "announcing" /\ UNCHANGED <<desktop, animation, answers>>
        BY <1>2 DEF LoaderBoots
    <2>2. CASE Autorun = NoName
        BY <1>2, <1>a, <1>c, <1>d, <2>1, <2>2, NewsEnds DEF LoaderBoots, LoaderGoes
    <2>3. CASE Autorun # NoName
        <3>1. BeginStart(Message("Autorun", Autorun, "none"))
            BY <1>2, <2>3 DEF LoaderBoots
        <3> QED
            BY <1>a, <1>c, <1>d, <2>1, <3>1, NewsBegins
    <2> QED
        BY <2>2, <2>3
<1>3. CASE DialogDismissed
    <2>1. /\ loader.at # "announcing" /\ UNCHANGED <<desktop, animation, answers>>
          /\ AfterFailure(loader.msg)
        BY <1>3 DEF DialogDismissed
    <2> QED
        BY <1>a, <1>c, <1>d, <2>1, NewsFailure
<1>4. CASE LoaderJoined
    <2>1. loader.at # "announcing" /\ UNCHANGED <<desktop, animation, answers>>
        BY <1>4 DEF LoaderJoined
    <2>2. CASE ThreadOf(loader.msg) = "app"
        BY <1>4, <1>a, <1>c, <1>d, <2>1, <2>2, NewsDeferred DEF LoaderJoined
    <2>3. CASE ThreadOf(loader.msg) # "app"
        BY <1>4, <1>a, <1>c, <1>d, <2>1, <2>3, NewsEnds DEF LoaderJoined, LoaderGoes
    <2> QED
        BY <2>2, <2>3
<1>5. CASE LoaderGets
    <2> DEFINE m == Head(queue)
    <2>1. /\ loader.at = "get" /\ UNCHANGED <<desktop, animation>>
          /\ WhoSends(m) /\ \A c \in Callers : m.from = c => Calling(c)
        BY <1>5, Taken DEF LoaderGets
    <2> HIDE DEF m
    <2>2. CASE HandleStart(m)
        <3>1. BeginStart(m) /\ UNCHANGED answers
            BY <2>2 DEF HandleStart
        <3> QED
            BY <1>a, <1>c, <1>d, <2>1, <3>1, NewsBegins
    <2>3. CASE ~HandleStart(m)
        <3>1. loader'.at \in {"get", "joining"} /\ UNCHANGED events
            BY <1>5, <2>3 DEF LoaderGets, HandleShowMenu, HandleClosed, HandleLock, HandleUnlock,
                HandleQuery, HandleEnqueueLaunch, HandleClearLaunchQueue, Finish, LoaderGoes, m
        <3> QED
            BY <1>a, <1>c, <1>d, <2>1, <3>1, NewsEnds
    <2> QED
        BY <2>2, <2>3
<1>6. CASE StartByName
    <2>1. /\ ~animation' /\ UNCHANGED desktop
          /\ \A i \in 1..Len(events) : events[i] # "before"
        BY <1>6, <1>d DEF StartByName, Told
    <2>2. answers'["desktop"] = answers["desktop"]
        <3>1. loader.msg.from # "desktop"
            BY <1>6, <1>a DEF StartByName, WhatIsHandled, Starting
        <3> QED
            BY <1>6, <1>a, <3>1 DEF StartByName, Answer
    <2>3. CASE loader'.at \in {"get", "dialog"} /\ UNCHANGED events
        BY <1>a, <1>c, <2>1, <2>3, NewsEnds
    <2>4. CASE AfterFailure(loader.msg)
        BY <1>a, <1>c, <2>1, <2>2, <2>4, NewsFailure
    <2> QED
        BY <1>6, <2>3, <2>4 DEF StartByName, Launch, Refuse, LoaderGoes
<1> QED
    BY <1>1, <1>2, <1>3, <1>4, <1>5, <1>6 DEF LoaderMoves, LoaderStep

\* What runs is known to the desktop, or announced to it.
LEMMA KnownStep == LoaderInv /\ Told /\ Known /\ [Next]_vars => Known'
<1> SUFFICES ASSUME LoaderInv, Told, Known, [Next]_vars, app'.thread = "app"
             PROVE  /\ \A i \in 1..Len(events') : events'[i] # "after"
                    /\ desktop'.at \in {"ready", "posting"} => desktop'.appRunning
                    /\ desktop'.at = "calling" => answers'["desktop"] \in {"none", "true"}
    BY DEF Known
<1>a. /\ TypeOK /\ Calls /\ WhatIsHandled /\ Closing
      /\ answers \in [Callers -> Results \union {"none"}]
      /\ events \in Seq({"before", "after"})
      /\ desktop \in [at : {"boot", "subscribed", "calling", "ready", "posting"},
                      msg : Messages, appRunning : BOOLEAN]
      /\ app \in [thread : {"NULL", "locked", "app"}, path : Names \union {NoName},
                  insomniac : BOOLEAN]
      /\ "desktop" \in Callers /\ "desktop" \notin Threads
    BY TheThreads DEF LoaderInv, TypeOK
<1>b. answers["desktop"] # "none" => desktop.at = "calling"
    BY <1>a DEF Calls, Calling
<1>1. CASE StartByName /\ app.thread # "app"
    <2>1. /\ events = <<>>
          /\ desktop.at \in {"ready", "posting"} => desktop.appRunning
          /\ desktop.at = "calling" => answers["desktop"] = "none"
        BY <1>1, <1>b DEF StartByName, Told
    <2>2. UNCHANGED desktop /\ answers'["desktop"] = answers["desktop"]
        <3>1. loader.msg.from # "desktop"
            BY <1>1, <1>a DEF StartByName, WhatIsHandled, Starting
        <3> QED
            BY <1>1, <1>a, <3>1 DEF StartByName, Answer
    <2>3. UNCHANGED events
        <3>1. ~Refuse(loader.msg)
            BY <1>1 DEF Refuse
        <3> QED
            BY <1>1, <3>1 DEF StartByName, Launch
    <2> QED
        BY <2>1, <2>2, <2>3
<1>2. CASE ~(StartByName /\ app.thread # "app")
    <2>1. app.thread = "app"
        <3>1. CASE ~LoaderMoves
            BY <3>1, LoaderAlone
        <3>2. CASE LoaderBoots \/ DialogDismissed
            BY <3>2 DEF LoaderBoots, DialogDismissed
        <3>3. CASE LoaderJoined
            BY <1>a, <3>3 DEF LoaderJoined
        <3>4. CASE LoaderGets
            BY <1>a, <3>4 DEF LoaderGets, HandleShowMenu, HandleStart, HandleClosed, HandleLock,
                HandleUnlock, HandleQuery, HandleEnqueueLaunch, HandleClearLaunchQueue
        <3> QED
            BY <1>2, <3>1, <3>2, <3>3, <3>4 DEF LoaderMoves, LoaderStep
    <2>2. /\ \A i \in 1..Len(events) : events[i] # "after"
          /\ desktop.at \in {"ready", "posting"} => desktop.appRunning
          /\ desktop.at = "calling" => answers["desktop"] \in {"none", "true"}
        BY <2>1 DEF Known
    <2>3. CASE DesktopEvent
        <3>1. /\ events # <<>> /\ events' = Tail(events)
              /\ desktop'.at = "ready" /\ desktop'.appRunning = (Head(events) = "before")
            BY <1>a, <2>3 DEF DesktopEvent
        <3>2. /\ Head(events) = events[1] /\ 1 \in 1..Len(events)
              /\ Head(events) \in {"before", "after"}
              /\ \A i \in 1..Len(events') : i + 1 \in 2..Len(events) /\ events'[i] = events[i + 1]
              /\ Len(events) \in Nat /\ Len(events') = Len(events) - 1
            BY <1>a, <3>1, QueueTail
        <3>3. Head(events) = "before"
            BY <2>2, <3>2
        <3>4. \A i \in 1..Len(events') : events'[i] # "after"
            BY <2>2, <3>2
        <3> QED
            BY <3>1, <3>3, <3>4
    <2>4. CASE ~DesktopEvent
        <3>1. \A i \in 1..Len(events') : events'[i] # "after"
            <4>1. events' = events \/ events' = Append(events, "before")
                BY <1>a, <2>4, EventsOfLoader
            <4>2. CASE events' = Append(events, "before")
                <5>1. \A i \in 1..Len(events') : \/ i \in 1..Len(events) /\ events'[i] = events[i]
                                                 \/ i = Len(events) + 1 /\ events'[i] = "before"
                    BY <1>a, <4>2, QueueAppend
                <5> QED
                    BY <2>2, <5>1
            <4> QED
                BY <2>2, <4>1, <4>2
        <3>2. CASE LoaderMoves
            <4>1. UNCHANGED desktop
                BY <3>2 DEF LoaderMoves, LoaderStep, LoaderBoots, LoaderGets, StartByName,
                            LoaderJoined, DialogDismissed
            <4>2. \/ answers'["desktop"] = answers["desktop"]
                  \/ answers'["desktop"] = "true"
                <5>1. CASE LoaderBoots \/ LoaderJoined \/ DialogDismissed
                    BY <5>1 DEF LoaderBoots, LoaderJoined, DialogDismissed
                <5>2. CASE StartByName
                    <6>1. loader.msg.from # "desktop"
                        BY <5>2, <1>a DEF StartByName, WhatIsHandled, Starting
                    <6> QED
                        BY <5>2, <1>a, <6>1 DEF StartByName, Answer
                <5>3. CASE LoaderGets
                    <6> DEFINE m == Head(queue)
                    <6>1. WhoSends(m)
                        BY <5>3, Taken
                    <6> HIDE DEF m
                    <6>2. CASE m.from = "desktop"
                        <7>1. m.type = "IsLocked"
                            BY <6>1, <6>2 DEF WhoSends
                        <7>2. HandleQuery(m)
                            BY <5>3, <7>1 DEF LoaderGets, HandleShowMenu, HandleStart, HandleClosed,
                                HandleLock, HandleUnlock, HandleEnqueueLaunch,
                                HandleClearLaunchQueue, m
                        <7> QED
                            BY <1>a, <2>1, <6>2, <7>1, <7>2 DEF HandleQuery, Answer
                    <6>3. CASE m.from # "desktop"
                        <7>1. UNCHANGED answers \/ \E r \in Results : Answer(m, r)
                            BY <5>3 DEF LoaderGets, HandleShowMenu, HandleStart, HandleClosed,
                                HandleLock, HandleUnlock, HandleQuery, HandleEnqueueLaunch,
                                HandleClearLaunchQueue, Results, m
                        <7> QED
                            BY <1>a, <6>3, <7>1 DEF Answer
                    <6> QED
                        BY <6>2, <6>3
                <5> QED
                    BY <3>2, <5>1, <5>2, <5>3 DEF LoaderMoves, LoaderStep
            <4> QED
                BY <2>2, <3>1, <4>1, <4>2
        <3>3. CASE ~LoaderMoves /\ ~DesktopMoves
            BY <1>a, <2>2, <3>1, <3>3, DesktopAlone
        <3>4. CASE DesktopSubscribes
            BY <1>a, <2>2, <3>1, <3>4 DEF DesktopSubscribes
        <3>5. CASE DesktopAsks
            BY <1>a, <1>b, <2>2, <3>1, <3>5 DEF DesktopAsks
        <3>6. CASE DesktopAnswered
            BY <1>a, <2>2, <3>1, <3>6 DEF DesktopAnswered
        <3>7. CASE DesktopPosts \/ \E m \in Messages : DesktopWants(m)
            BY <1>a, <2>2, <3>1, <3>7 DEF DesktopPosts, DesktopWants
        <3> QED
            BY <2>4, <3>2, <3>3, <3>4, <3>5, <3>6, <3>7 DEF DesktopMoves, DesktopStep
    <2> QED
        BY <2>3, <2>4
<1> QED
    BY <1>1, <1>2

\* THEOREM: while the code of an application runs, the desktop knows: it has handled
\* the announcement, or asked after the application had started, and has taken no older
\* event since (desktop.c:22-33, :124-138).
THEOREM DesktopIsTold == Spec => []DesktopKnows
<1>1. Init => Told /\ Known
    BY DEF Init, Told, Known
<1>2. LoaderInv /\ (Told /\ Known) /\ [Next]_vars => (Told /\ Known)'
    BY ToldStep, KnownStep
<1>3. LoaderInv /\ Known => DesktopKnows
    <2> SUFFICES ASSUME LoaderInv, Known, doing["app"] \in {"active", "calling"}
                 PROVE  app.thread = "app"
        BY DEF Known, DesktopKnows
    <2>1. threadState["app"] = "Running"
        BY TheThreads DEF LoaderInv, Life
    <2> QED
        BY <2>1 DEF LoaderInv, Closing
<1> QED
    BY <1>1, <1>2, <1>3, LoaderInvariant, PTL DEF Spec

-----------------------------------------------------------------------------
(* The launch queue.  The callers of loader_enqueue_launch queue applications *)
(* and not the browser (nfc_app.c:479): what follows is said of such callers. *)

\* Applications are launched from the queue one after the other until one runs; what is
\* left then is left by, or for, that one.
LEMMA LeftStep ==
    ASSUME "Apps" \notin LaunchNames, LoaderInv, Left, [Next]_vars
    PROVE  Left'
<1>a. /\ TypeOK /\ Calls /\ WhatIsHandled /\ Life /\ Closing /\ LockInv
      /\ app \in [thread : {"NULL", "locked", "app"}, path : Names \union {NoName},
                  insomniac : BOOLEAN]
    BY DEF LoaderInv, TypeOK
<1>1. CASE ~LoaderMoves
    BY <1>1, LoaderAlone DEF Left, Starting
<1>2. CASE NextOfQueue
    BY <1>2 DEF NextOfQueue, Message, Left, Starting
<1>3. ASSUME BackToGet, launchQueue = <<>> \/ app'.thread = "app"
      PROVE  Left'
    BY <1>3 DEF BackToGet, Left
<1>4. CASE LoaderBoots
    <2>1. app.thread = "app" \/ launchQueue = <<>>
        BY <1>4 DEF LoaderBoots, Left, Starting
    <2> QED
        BY <1>4, <2>1 DEF LoaderBoots, Left
<1>5. ASSUME NEW thread, NextDeferred(thread)
      PROVE  Left'
    <2>1. CASE launchQueue = <<>>
        BY <1>5, <2>1 DEF NextDeferred, Left
    <2>2. CASE launchQueue # <<>>
        BY <1>2, <1>5, <2>2 DEF NextDeferred, BeginStart, LoaderGoes, NextOfQueue
    <2> QED
        BY <2>1, <2>2
<1>6. ASSUME Starting, AfterFailure(loader.msg), UNCHANGED app
      PROVE  Left'
    <2>1. CASE loader.msg.type = "Deferred"
        BY <1>5, <1>6, <2>1 DEF AfterFailure
    <2>2. CASE loader.msg.type # "Deferred"
        BY <1>6, <2>2 DEF AfterFailure, Left
    <2> QED
        BY <2>1, <2>2
<1>7. CASE DialogDismissed
    BY <1>6, <1>7 DEF DialogDismissed, Starting
<1>8. CASE StartByName
    <2> DEFINE m == loader.msg
    <2>1. Starting
        BY <1>8 DEF StartByName, Starting
    <2>2. CASE Launch(m) /\ Outcome(m.name) = "ok"
        <3>1. app.thread = "NULL" /\ UNCHANGED launchQueue
            BY <1>a, <2>2 DEF Launch, Outcome
        <3>2. CASE m.type = "Deferred"
            <4>1. m.name # "Apps"
                BY <1>a, <2>1, <3>2 DEF WhatIsHandled
            <4>2. app'.thread = "app"
                BY <2>2, <4>1 DEF Launch, StartApp
            <4> QED
                BY <4>2 DEF Left
        <3>3. CASE m.type # "Deferred"
            BY <3>1, <3>3 DEF Left
        <3> QED
            BY <3>2, <3>3
    <2>3. CASE Refuse(m)
        <3>1. CASE AfterFailure(m)
            BY <1>6, <2>1, <2>3, <3>1 DEF Refuse
        <3>2. CASE LoaderGoes("dialog", m) /\ UNCHANGED launchQueue
            BY <2>1, <2>3, <3>2 DEF Refuse, LoaderGoes, Left, Starting
        <3> QED
            BY <2>3, <3>1, <3>2 DEF Refuse
    <2> QED
        BY <1>8, <2>2, <2>3 DEF StartByName
<1>9. CASE LoaderJoined
    <2>1. CASE ThreadOf(loader.msg) = "app"
        BY <1>5, <1>9, <2>1 DEF LoaderJoined
    <2>2. CASE ThreadOf(loader.msg) # "app"
        BY <1>9, <2>2 DEF LoaderJoined, Left, Starting
    <2> QED
        BY <2>1, <2>2
<1>10. CASE LoaderGets
    <2> DEFINE m == Head(queue)
    <2>1. /\ loader.at = "get" /\ WhoSends(m) /\ queue # <<>>
          /\ \A c \in Callers : m.from = c => Calling(c)
        BY <1>10, Taken DEF LoaderGets
    <2>2. launchQueue # <<>> => app.thread = "app"
        BY <2>1 DEF Left, Starting
    <2>3. CASE m.type = "Unlock"
        <3>1. app.thread # "app" /\ UNCHANGED launchQueue
            BY <1>10, <1>a, <2>1, <2>3 DEF LockInv, Unlocking, LoaderGets, HandleShowMenu,
                HandleStart, HandleClosed, HandleLock, HandleUnlock, HandleQuery,
                HandleEnqueueLaunch, HandleClearLaunchQueue
        <3> QED
            BY <2>2, <3>1 DEF Left
    <2>4. CASE m.type = "EnqueueLaunch"
        <3>1. m.from = "app"
            BY <2>1, <2>4 DEF WhoSends, AsyncTypes, Queries
        <3>2. doing["app"] = "calling" /\ "app" \in Threads
            BY <2>1, <3>1, TheThreads DEF Calling
        <3>3. app.thread = "app"
            BY <1>a, <3>2 DEF Life, Closing
        <3>4. UNCHANGED app
            BY <1>10, <2>4 DEF LoaderGets, HandleShowMenu,
                HandleStart, HandleClosed, HandleLock, HandleUnlock, HandleQuery,
                HandleEnqueueLaunch, HandleClearLaunchQueue
        <3> QED
            BY <3>3, <3>4 DEF Left
    <2>5. CASE m.type \notin {"Unlock", "EnqueueLaunch"}
        <3>1. /\ launchQueue' = launchQueue \/ launchQueue' = <<>>
              /\ app.thread = "app" => app'.thread = "app"
            BY <1>10, <1>a, <2>5 DEF LoaderGets, HandleShowMenu,
                HandleStart, HandleClosed, HandleLock, HandleUnlock, HandleQuery,
                HandleEnqueueLaunch, HandleClearLaunchQueue
        <3> QED
            BY <2>2, <3>1 DEF Left
    <2> QED
        BY <2>3, <2>4, <2>5
<1> QED
    BY <1>1, <1>4, <1>7, <1>8, <1>9, <1>10 DEF LoaderMoves, LoaderStep

\* Nobody is told that the queue is empty before it is.
LEMMA EmptyStep ==
    ASSUME LoaderInv, Left, [Next]_vars, events' = Append(events, "after"), ~DesktopEvent
    PROVE  app'.thread = "NULL" /\ launchQueue' = <<>>
<1>a. events \in Seq({"before", "after"}) /\ events' # events
    <2>1. events \in Seq({"before", "after"})
        BY DEF LoaderInv, TypeOK
    <2> QED
        BY <2>1
<1>b. LoaderMoves /\ app'.thread = "NULL"
    <2>1. events' # Append(events, "before")
        <3>1. Append(events, "before")[Len(events) + 1] = "before"
            BY <1>a
        <3>2. Append(events, "after")[Len(events) + 1] = "after"
            BY <1>a
        <3> QED
            BY <3>1, <3>2
    <2> QED
        BY <1>a, <2>1, EventsOfLoader DEF LoaderInv
<1> SUFFICES launchQueue' = <<>>
    BY <1>b
<1>c. ~(\E m : BeginStart(m))
    <2>1. Append(events, "before")[Len(events) + 1] = "before"
        BY <1>a
    <2>2. Append(events, "after")[Len(events) + 1] = "after"
        BY <1>a
    <2> QED
        BY <1>a, <2>1, <2>2 DEF BeginStart
<1>1. ASSUME NEW thread, NextDeferred(thread)
      PROVE  launchQueue' = <<>>
    BY <1>1, <1>c DEF NextDeferred
<1>2. ASSUME Starting, AfterFailure(loader.msg), UNCHANGED app
      PROVE  launchQueue' = <<>>
    <2>1. CASE loader.msg.type = "Deferred"
        BY <1>1, <1>2, <2>1 DEF AfterFailure
    <2>2. CASE loader.msg.type # "Deferred"
        <3>1. app.thread = "NULL" /\ UNCHANGED launchQueue
            BY <1>2, <1>b, <2>2 DEF AfterFailure
        <3> QED
            BY <2>2, <3>1 DEF Left
    <2> QED
        BY <2>1, <2>2
<1>3. CASE LoaderBoots
    BY <1>3, <1>a, <1>c DEF LoaderBoots
<1>4. CASE DialogDismissed
    BY <1>2, <1>4 DEF DialogDismissed, Starting
<1>5. CASE StartByName
    BY <1>2, <1>5, <1>a DEF StartByName, Launch, Refuse, Starting
<1>6. CASE LoaderJoined
    BY <1>1, <1>6, <1>a DEF LoaderJoined
<1>7. CASE LoaderGets
    BY <1>7, <1>a, <1>c DEF LoaderGets, HandleShowMenu, HandleStart, HandleClosed, HandleLock,
        HandleUnlock, HandleQuery, HandleEnqueueLaunch, HandleClearLaunchQueue, Finish
<1> QED
    BY <1>b, <1>3, <1>4, <1>5, <1>6, <1>7 DEF LoaderMoves, LoaderStep

\* THEOREM: NoMoreAppsInQueue is published only when nothing runs and nothing is queued,
\* if the applications queue applications and not the browser (loader.c:696-714).
THEOREM EmptyMeansEmpty ==
    ASSUME "Apps" \notin LaunchNames
    PROVE  Spec => EmptyIsEmpty
<1>1. Init => Left
    BY DEF Init, Left
<1>2. LoaderInv /\ Left /\ [Next]_vars => Left'
    BY LeftStep
<1>3. LoaderInv /\ Left /\ [Next]_vars =>
         [Len(events') > Len(events) /\ events'[Len(events')] = "after"
              => app'.thread = "NULL" /\ launchQueue' = <<>>]_vars
    <2> SUFFICES ASSUME LoaderInv, Left, [Next]_vars,
                        Len(events') > Len(events), events'[Len(events')] = "after"
                 PROVE  app'.thread = "NULL" /\ launchQueue' = <<>>
        OBVIOUS
    <2>1. events \in Seq({"before", "after"})
        BY DEF LoaderInv, TypeOK
    <2>2. ~DesktopEvent
        <3>1. ASSUME DesktopEvent PROVE FALSE
            <4>1. events # <<>> /\ events' = Tail(events)
                BY <3>1 DEF DesktopEvent
            <4>2. Len(events') = Len(events) - 1 /\ Len(events) \in Nat
                BY <2>1, <4>1, QueueTail
            <4> QED
                BY <4>2
        <3> QED
            BY <3>1
    <2>3. events' # events /\ events' # Append(events, "before")
        <3>1. Len(events) \in Nat
            BY <2>1
        <3>2. Append(events, "before")[Len(Append(events, "before"))] = "before"
            BY <2>1
        <3> QED
            BY <3>1, <3>2
    <2>4. events' = Append(events, "after")
        BY <2>2, <2>3, EventsOfLoader DEF LoaderInv
    <2> QED
        BY <2>2, <2>4, EmptyStep
<1> QED
    BY <1>1, <1>2, <1>3, LoaderInvariant, PTL DEF Spec, EmptyIsEmpty

=============================================================================
