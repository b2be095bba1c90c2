------------------------------- MODULE Loader -------------------------------
(***************************************************************************)
(* The loader (applications/services/loader/loader.c, loader_queue.c), the *)
(* threads it starts (an application, the menu of loader_menu.c, the       *)
(* browser of loader_applications.c, by Threads) and the desktop, which    *)
(* the loader asks to make room before it loads an application             *)
(* (desktop.c).  Everything reaches the loader through a queue of one      *)
(* message.                                                                *)
(***************************************************************************)
EXTENDS Threads, FiniteSets

CONSTANTS
    LaunchQueueSize,    \* LOADER_QUEUE_MAX_SIZE
    Autorun,            \* FLIPPER_AUTORUN_APP_NAME, or NoName
    NoName,
    StartNames,         \* what may be started by name in an instance
    DesktopNames,       \* what the desktop starts
    LaunchNames,        \* what an application may enqueue
    RemoteQueries,      \* what else a remote thread asks in an instance
    MaxRemote,          \* bound: calls of the remote thread
    MaxDesktop,         \* bound: messages the desktop sends by itself
    MaxStarts,          \* bound: applications started by the menu and the browser
    MaxAppCalls         \* bound: calls of the applications

\* What a name may stand for: an application of the firmware that allows sleep,
\* one from the card, the browser, a file that does not load, nothing at all.
Runnable == {"internal", "external"}
Names == Runnable \union {"Apps", "broken", "unknown"}
Queries == {"Lock", "IsLocked", "Signal", "GetLaunchPath"}

ASSUME LoaderAssumption ==
    /\ Threads = {"app", "menu", "apps"}
    /\ LaunchQueueSize \in Nat
    /\ NoName \notin Names
    /\ Autorun \in Names \union {NoName}
    /\ StartNames \subseteq Names /\ DesktopNames \subseteq Names
    /\ LaunchNames \subseteq Names
    /\ RemoteQueries \subseteq Queries
    /\ MaxRemote \in Nat /\ MaxDesktop \in Nat /\ MaxStarts \in Nat /\ MaxAppCalls \in Nat

VARIABLES
    queue,          \* Loader.queue
    loader,         \* where the loader thread is, and the message it handles
    app,            \* Loader.app: thread pointer, launch_path, insomniac
    launchQueue,    \* Loader.launch_queue
    shown,          \* Loader.loader_menu and loader_applications that are not NULL
    insomnia,       \* furi_hal_power's insomnia level
    running,        \* what the application thread runs, and who asked for it
    doing,          \* where the code of each thread is
    stopFlag,       \* APPLICATION_STOP_EVENT of the browser's thread
    remote,         \* a thread of the command line or of RPC
    desktop,        \* the thread of the desktop
    events,         \* its custom events of the loader, not yet handled
    animation,      \* Desktop.animation_semaphore
    answers,        \* the answers behind the api_locks that are unlocked
    budget,         \* what may still be called
    crashed         \* a furi_check failed and the system is down

loaderVars == <<loader, app, launchQueue, shown, insomnia>>
codeVars == <<running, doing, stopFlag>>
desktopVars == <<desktop, events, animation>>
vars == <<threadVars, queue, loaderVars, codeVars, remote, desktopVars, answers, budget, crashed>>

Callers == Threads \union {"remote", "desktop"}
AsyncTypes == {"Detached", "ShowMenu", "MenuClosed", "ApplicationsClosed", "AppClosed", "Unlock"}
SyncTypes == Queries \union {"StartByName", "EnqueueLaunch", "ClearLaunchQueue"}
Messages ==
    [type : AsyncTypes \union SyncTypes \union {"Autorun", "Deferred", "none"},
     name : Names \union {NoName}, from : Callers \union {"none"}]
Message(type, name, from) == [type |-> type, name |-> name, from |-> from]
NoMessage == Message("none", NoName, "none")
Nobody == [name |-> NoName, by |-> "none"]
Results == {"ok", "started", "failed", "true", "false"}

TypeOK ==
    /\ ThreadsTypeOK
    /\ queue \in Seq(Messages) /\ Len(queue) <= 1
    /\ loader \in [at : {"boot", "get", "announcing", "starting", "dialog", "joining"},
                   msg : Messages]
    /\ app \in [thread : {"NULL", "locked", "app"}, path : Names \union {NoName},
                insomniac : BOOLEAN]
    /\ launchQueue \in Seq(Names) /\ Len(launchQueue) <= LaunchQueueSize
    /\ shown \subseteq {"menu", "apps"}
    /\ insomnia \in Nat
    /\ running \in [name : Names \union {NoName}, by : Callers \union {"none"}]
    /\ doing \in [Threads -> {"away", "active", "calling", "waiting", "closing", "over"}]
    /\ stopFlag \in BOOLEAN
    /\ remote \in [at : {"idle", "calling"}, type : SyncTypes \union {"none"}, locked : BOOLEAN]
    /\ desktop \in [at : {"boot", "subscribed", "calling", "ready", "posting"},
                    msg : Messages, appRunning : BOOLEAN]
    /\ events \in Seq({"before", "after"})
    /\ animation \in BOOLEAN
    /\ answers \in [Callers -> Results \union {"none"}]
    /\ budget \in [remote : 0 .. MaxRemote, desktop : 0 .. MaxDesktop,
                   starts : 0 .. MaxStarts, calls : 0 .. MaxAppCalls]
    /\ crashed \in BOOLEAN

Init ==
    /\ ThreadsInit
    /\ queue = <<>>
    /\ loader = [at |-> "boot", msg |-> NoMessage]
    /\ app = [thread |-> "NULL", path |-> NoName, insomniac |-> FALSE]
    /\ launchQueue = <<>>
    /\ shown = {}
    /\ insomnia = 0
    /\ running = Nobody
    /\ doing = [t \in Threads |-> "away"]
    /\ stopFlag = FALSE
    /\ remote = [at |-> "idle", type |-> "none", locked |-> FALSE]
    /\ desktop = [at |-> "boot", msg |-> NoMessage, appRunning |-> FALSE]
    /\ events = <<>>
    /\ animation = FALSE
    /\ answers = [c \in Callers |-> "none"]
    /\ budget = [remote |-> MaxRemote, desktop |-> MaxDesktop,
                 starts |-> MaxStarts, calls |-> MaxAppCalls]
    /\ crashed = FALSE

----------------------------------------------------------------------------
(* Messages, answers and events.                                           *)

Post(m) ==
    /\ Len(queue) < 1
    /\ queue' = Append(queue, m)

LoaderGoes(place, m) == loader' = [at |-> place, msg |-> m]

Answer(m, result) == answers' = [answers EXCEPT ![m.from] = result]

Subscribed == desktop.at # "boot"
AppsListens == doing["apps"] \in {"calling", "waiting"}

\* Fault: published whether or not something runs.
EmitAnyway(thread) ==
    /\ events' = IF Subscribed THEN Append(events, "after") ELSE events
    /\ stopFlag' = (stopFlag \/ AppsListens)

\* NoMoreAppsInQueue, published unless the loader is locked.
EmitQueueEmpty(thread) ==
    IF thread # "NULL"
    THEN UNCHANGED <<events, stopFlag>>
    ELSE /\ events' = IF Subscribed THEN Append(events, "after") ELSE events
         /\ stopFlag' = (stopFlag \/ AppsListens)

----------------------------------------------------------------------------
(* Starting an application.  BeforeLoad is published first; the desktop's  *)
(* subscriber waits, in the loader's thread, until the desktop is ready.   *)

BeginStart(m) ==
    /\ LoaderGoes(IF Subscribed THEN "announcing" ELSE "starting", m)
    /\ events' = IF Subscribed THEN Append(events, "before") ELSE events
    /\ UNCHANGED stopFlag

\* Fault: nobody is told that the queue has run empty.
NextDeferredSilent(thread) ==
    IF launchQueue = <<>>
    THEN /\ LoaderGoes("get", NoMessage)
         /\ UNCHANGED <<launchQueue, events, stopFlag>>
    ELSE /\ BeginStart(Message("Deferred", Head(launchQueue), "none"))
         /\ launchQueue' = Tail(launchQueue)

NextDeferred(thread) ==
    IF launchQueue = <<>>
    THEN /\ EmitQueueEmpty(thread)
         /\ LoaderGoes("get", NoMessage)
         /\ UNCHANGED launchQueue
    ELSE /\ BeginStart(Message("Deferred", Head(launchQueue), "none"))
         /\ launchQueue' = Tail(launchQueue)

\* Fault: a deferred start that fails does not go on with the next.
AfterFailureStops(m) ==
    \/ /\ m.type \in {"StartByName", "Detached", "Deferred"}
       /\ EmitQueueEmpty(app.thread)
       /\ LoaderGoes("get", NoMessage)
       /\ UNCHANGED launchQueue
    \/ /\ m.type = "Autorun"
       /\ LoaderGoes("get", NoMessage)
       /\ UNCHANGED <<launchQueue, events, stopFlag>>

\* What remains to be done when the application was not started.
AfterFailure(m) ==
    \/ /\ m.type \in {"StartByName", "Detached"}
       /\ EmitQueueEmpty(app.thread)
       /\ LoaderGoes("get", NoMessage)
       /\ UNCHANGED launchQueue
    \/ /\ m.type = "Autorun"
       /\ LoaderGoes("get", NoMessage)
       /\ UNCHANGED <<launchQueue, events, stopFlag>>
    \/ /\ m.type = "Deferred"
       /\ NextDeferred(app.thread)

\* Fault: the insomniac flag of the application before is not reset.
StartAppStillInsomniac(m) ==
    /\ app' = [thread |-> "app", path |-> m.name,
               insomniac |-> app.insomniac \/ m.name = "external"]
    /\ insomnia' = insomnia + (IF m.name = "external" THEN 1 ELSE 0)
    /\ running' = [name |-> m.name, by |-> m.from]
    /\ ThreadStarts("app")
    /\ UNCHANGED shown

\* loader_start_internal_app, loader_start_external_app.
StartApp(m) ==
    /\ app' = [thread |-> "app", path |-> m.name, insomniac |-> m.name = "external"]
    /\ insomnia' = insomnia + (IF m.name = "external" THEN 1 ELSE 0)
    /\ running' = [name |-> m.name, by |-> m.from]
    /\ ThreadStarts("app")
    /\ UNCHANGED shown

\* loader_do_applications_show
ShowApps ==
    /\ app' = [app EXCEPT !.path = "Apps"]
    /\ shown' = shown \union {"apps"}
    /\ IF "apps" \in shown THEN UNCHANGED threadVars ELSE ThreadStarts("apps")
    /\ UNCHANGED <<insomnia, running>>

\* The order of the checks of loader_do_start_by_name.
Outcome(name) ==
    IF app.thread # "NULL" THEN "started"
    ELSE IF name \in Runnable \union {"Apps"} THEN "ok" ELSE "failed"

\* loader_show_gui_error shows nothing for an application already started; a
\* deferred launch asks for it by a flag.
NeedsDialog(m) == m.type = "Detached" /\ Outcome(m.name) = "failed"
MayNeedDialog(m) == NeedsDialog(m) \/ m.type = "Deferred"

Launch(m) ==
    /\ IF m.name = "Apps" THEN ShowApps ELSE StartApp(m)
    /\ LoaderGoes("get", NoMessage)
    /\ UNCHANGED <<launchQueue, events, stopFlag>>

\* Fault: the launch path is that of the last request.
RefuseAndStorePath(m) ==
    /\ app' = [app EXCEPT !.path = m.name]
    /\ ~NeedsDialog(m)
    /\ AfterFailure(m)
    /\ UNCHANGED <<insomnia, running, shown, threadVars>>

Refuse(m) ==
    /\ \/ /\ MayNeedDialog(m)
          /\ LoaderGoes("dialog", m)
          /\ UNCHANGED <<launchQueue, events, stopFlag>>
       \/ /\ ~NeedsDialog(m)
          /\ AfterFailure(m)
    /\ UNCHANGED <<app, insomnia, running, shown, threadVars>>

\* Fault: the loader does not wait for the desktop.
StartAtOnce ==
    /\ loader.at \in {"announcing", "starting"}
    /\ LET m == loader.msg IN
          /\ IF m.type = "StartByName" THEN Answer(m, Outcome(m.name)) ELSE UNCHANGED answers
          /\ IF Outcome(m.name) = "ok" THEN Launch(m) ELSE Refuse(m)
    /\ UNCHANGED <<queue, doing, remote, desktop, animation, budget, crashed>>

\* Fault: a refused start is not answered.
StartAnsweredIfOk ==
    /\ \/ /\ loader.at = "announcing" /\ animation
          /\ animation' = FALSE
       \/ /\ loader.at = "starting"
          /\ UNCHANGED animation
    /\ LET m == loader.msg IN
          /\ IF m.type = "StartByName" /\ Outcome(m.name) = "ok"
             THEN Answer(m, "ok") ELSE UNCHANGED answers
          /\ IF Outcome(m.name) = "ok" THEN Launch(m) ELSE Refuse(m)
    /\ UNCHANGED <<queue, doing, remote, desktop, budget, crashed>>

StartByName ==
    /\ \/ /\ loader.at = "announcing" /\ animation
          /\ animation' = FALSE
       \/ /\ loader.at = "starting"
          /\ UNCHANGED animation
    /\ LET m == loader.msg IN
          /\ IF m.type = "StartByName" THEN Answer(m, Outcome(m.name)) ELSE UNCHANGED answers
          /\ IF Outcome(m.name) = "ok" THEN Launch(m) ELSE Refuse(m)
    /\ UNCHANGED <<queue, doing, remote, desktop, budget, crashed>>

\* The user dismisses the dialog of loader_show_gui_error.
DialogDismissed ==
    /\ loader.at = "dialog"
    /\ AfterFailure(loader.msg)
    /\ UNCHANGED <<threadVars, queue, app, shown, insomnia, running, doing, remote, desktop,
                   animation, answers, budget, crashed>>

LoaderBoots ==
    /\ loader.at = "boot"
    /\ IF Autorun = NoName
       THEN LoaderGoes("get", NoMessage) /\ UNCHANGED <<events, stopFlag>>
       ELSE BeginStart(Message("Autorun", Autorun, "none"))
    /\ UNCHANGED <<threadVars, queue, app, launchQueue, shown, insomnia, running, doing, remote,
                   desktop, animation, answers, budget, crashed>>

----------------------------------------------------------------------------
(* The other messages.                                                     *)

HandleShowMenu(m) ==
    /\ m.type = "ShowMenu"
    /\ shown' = shown \union {"menu"}
    /\ IF "menu" \in shown THEN UNCHANGED threadVars ELSE ThreadStarts("menu")
    /\ LoaderGoes("get", NoMessage)
    /\ UNCHANGED <<app, launchQueue, answers, events, stopFlag, crashed>>

HandleStart(m) ==
    /\ m.type \in {"StartByName", "Detached"}
    /\ BeginStart(m)
    /\ UNCHANGED <<threadVars, app, launchQueue, shown, answers, crashed>>

\* loader_menu_free, loader_applications_free and loader_do_app_closed begin by
\* joining the thread.
HandleClosed(m) ==
    /\ m.type \in {"MenuClosed", "ApplicationsClosed", "AppClosed"}
    /\ LoaderGoes("joining", m)
    /\ UNCHANGED <<threadVars, app, launchQueue, shown, answers, events, stopFlag, crashed>>

Finish == LoaderGoes("get", NoMessage) /\ UNCHANGED <<threadVars, shown, events, stopFlag>>

HandleLock(m) ==
    /\ m.type = "Lock"
    /\ Answer(m, IF app.thread = "NULL" THEN "true" ELSE "false")
    /\ app' = IF app.thread = "NULL" THEN [app EXCEPT !.thread = "locked"] ELSE app
    /\ Finish
    /\ UNCHANGED <<launchQueue, crashed>>

HandleUnlock(m) ==
    /\ m.type = "Unlock"
    /\ crashed' = (app.thread # "locked")
    /\ app' = [app EXCEPT !.thread = "NULL"]
    /\ Finish
    /\ UNCHANGED <<launchQueue, answers>>

\* Whether a signal is consumed is up to the application, whose callback runs
\* in the loader's thread.
HandleQuery(m) ==
    /\ \/ m.type = "IsLocked" /\ Answer(m, IF app.thread # "NULL" THEN "true" ELSE "false")
       \/ m.type = "GetLaunchPath" /\ Answer(m, IF app.thread = "app" THEN "true" ELSE "false")
       \/ m.type = "Signal" /\ app.thread = "app" /\ Answer(m, "true")
       \/ m.type = "Signal" /\ Answer(m, "false")
    /\ Finish
    /\ UNCHANGED <<app, launchQueue, crashed>>

HandleEnqueueLaunch(m) ==
    /\ m.type = "EnqueueLaunch"
    /\ crashed' = (Len(launchQueue) = LaunchQueueSize)
    /\ launchQueue' = IF Len(launchQueue) < LaunchQueueSize
                      THEN Append(launchQueue, m.name) ELSE launchQueue
    /\ Answer(m, "ok")
    /\ Finish
    /\ UNCHANGED app

HandleClearLaunchQueue(m) ==
    /\ m.type = "ClearLaunchQueue"
    /\ launchQueue' = <<>>
    /\ Answer(m, "ok")
    /\ Finish
    /\ UNCHANGED <<app, crashed>>

LoaderGets ==
    /\ loader.at = "get"
    /\ queue # <<>>
    /\ queue' = Tail(queue)
    /\ LET m == Head(queue) IN
          \/ HandleShowMenu(m)
          \/ HandleStart(m)
          \/ HandleClosed(m)
          \/ HandleLock(m)
          \/ HandleUnlock(m)
          \/ HandleQuery(m)
          \/ HandleEnqueueLaunch(m)
          \/ HandleClearLaunchQueue(m)
    /\ UNCHANGED <<insomnia, running, doing, remote, desktop, animation, budget>>

ThreadOf(m) ==
    CASE m.type = "MenuClosed" -> "menu"
      [] m.type = "ApplicationsClosed" -> "apps"
      [] OTHER -> "app"

\* Fault: insomnia is left whether or not it was entered.
LoaderJoinedSleepy ==
    /\ loader.at = "joining"
    /\ LET t == ThreadOf(loader.msg) IN
          /\ ThreadJoined(t)
          /\ doing' = [doing EXCEPT ![t] = "away"]
          /\ shown' = shown \ {t}
          /\ IF t = "app"
             THEN /\ app' = [app EXCEPT !.thread = "NULL"]
                  /\ insomnia' = insomnia - 1
                  /\ running' = Nobody
                  /\ NextDeferred("NULL")
             ELSE /\ LoaderGoes("get", NoMessage)
                  /\ UNCHANGED <<app, insomnia, running, launchQueue, events, stopFlag>>
    /\ UNCHANGED <<queue, remote, desktop, animation, answers, budget, crashed>>

\* The thread is joined and freed; after an application, the next one.
LoaderJoined ==
    /\ loader.at = "joining"
    /\ LET t == ThreadOf(loader.msg) IN
          /\ ThreadJoined(t)
          /\ doing' = [doing EXCEPT ![t] = "away"]
          /\ shown' = shown \ {t}
          /\ IF t = "app"
             THEN /\ app' = [app EXCEPT !.thread = "NULL"]
                  /\ insomnia' = insomnia - (IF app.insomniac THEN 1 ELSE 0)
                  /\ running' = Nobody
                  /\ NextDeferred("NULL")
             ELSE /\ LoaderGoes("get", NoMessage)
                  /\ UNCHANGED <<app, insomnia, running, launchQueue, events, stopFlag>>
    /\ UNCHANGED <<queue, remote, desktop, animation, answers, budget, crashed>>

LoaderStep == LoaderBoots \/ LoaderGets \/ StartByName \/ LoaderJoined

----------------------------------------------------------------------------
(* The threads: what their code does, and their end.                       *)

CodeOnly == UNCHANGED <<loaderVars, running, remote, desktopVars, crashed>>

CodeGoes(t, from, to) ==
    /\ doing[t] = from
    /\ doing' = [doing EXCEPT ![t] = to]

\* The flags of a new thread are clear.
Begin(t) ==
    /\ ThreadBegins(t)
    /\ CodeGoes(t, "away", "active")
    /\ stopFlag' = (stopFlag /\ t # "apps")
    /\ CodeOnly /\ UNCHANGED <<queue, answers, budget>>

\* The menu and the browser start applications with loader_start_with_gui_error,
\* the browser only files and the runner of scripts.
CallStart(t, name) ==
    /\ t = "menu" \/ (t = "apps" /\ name # "Apps")
    /\ CodeGoes(t, "active", "calling")
    /\ budget.starts > 0
    /\ budget' = [budget EXCEPT !.starts = @ - 1]
    /\ Post(Message("StartByName", name, t))
    /\ CodeOnly /\ UNCHANGED <<threadVars, stopFlag, answers>>

\* An application queues others (nfc_app.c) or asks for its own path.
AppCalls(type, name) ==
    /\ CodeGoes("app", "active", "calling")
    /\ budget.calls > 0
    /\ budget' = [budget EXCEPT !.calls = @ - 1]
    /\ Post(Message(type, name, "app"))
    /\ CodeOnly /\ UNCHANGED <<threadVars, stopFlag, answers>>

\* The browser waits for the application it has started.
Answered(t) ==
    /\ answers[t] # "none"
    /\ answers' = [answers EXCEPT ![t] = "none"]
    /\ CodeGoes(t, "calling", IF t = "apps" /\ answers[t] = "ok" THEN "waiting" ELSE "active")
    /\ CodeOnly /\ UNCHANGED <<threadVars, queue, stopFlag, budget>>

BrowserWakes ==
    /\ stopFlag
    /\ stopFlag' = FALSE
    /\ CodeGoes("apps", "waiting", "active")
    /\ CodeOnly /\ UNCHANGED <<threadVars, queue, answers, budget>>

\* The menu announces its end and frees its views after that; the browser
\* announces it last.
Close(t) ==
    /\ CodeGoes(t, "active", "closing")
    /\ \/ t = "menu" /\ Post(Message("MenuClosed", NoName, "none"))
       \/ t = "apps" /\ Post(Message("ApplicationsClosed", NoName, "none"))
    /\ CodeOnly /\ UNCHANGED <<threadVars, stopFlag, answers, budget>>

End(t) ==
    /\ CodeGoes(t, IF t = "app" THEN "active" ELSE "closing", "over")
    /\ ThreadEnds(t)
    /\ CodeOnly /\ UNCHANGED <<queue, stopFlag, answers, budget>>

Queue(t) ==
    /\ ThreadQueues(t)
    /\ CodeOnly /\ UNCHANGED <<queue, doing, stopFlag, answers, budget>>

Scrub ==
    /\ ScrubTakes
    /\ CodeOnly /\ UNCHANGED <<queue, doing, stopFlag, answers, budget>>

\* Fault: every thread of the loader has the callback.
StateCallbackForAll(t) ==
    /\ ScrubCalls(t)
    /\ Post(Message("AppClosed", NoName, "none"))
    /\ CodeOnly /\ UNCHANGED <<doing, stopFlag, answers, budget>>

\* loader_thread_state_callback, which only the application's thread has.
StateCallback(t) ==
    /\ ScrubCalls(t)
    /\ IF t = "app" THEN Post(Message("AppClosed", NoName, "none")) ELSE UNCHANGED queue
    /\ CodeOnly /\ UNCHANGED <<doing, stopFlag, answers, budget>>

----------------------------------------------------------------------------
(* A thread of the command line or of RPC.                                 *)

RemoteOnly == UNCHANGED <<threadVars, loaderVars, codeVars, desktopVars, crashed>>

RemoteCalls(type, name) ==
    /\ remote.at = "idle"
    /\ budget.remote > 0
    /\ budget' = [budget EXCEPT !.remote = @ - 1]
    /\ remote' = [remote EXCEPT !.at = "calling", !.type = type]
    /\ Post(Message(type, name, "remote"))
    /\ RemoteOnly /\ UNCHANGED answers

RemoteAnswered ==
    /\ remote.at = "calling"
    /\ answers["remote"] # "none"
    /\ answers' = [answers EXCEPT !["remote"] = "none"]
    /\ remote' = [at |-> "idle", type |-> "none",
                  locked |-> remote.locked \/ (remote.type = "Lock" /\ answers["remote"] = "true")]
    /\ RemoteOnly /\ UNCHANGED <<queue, budget>>

RemoteUnlocks ==
    /\ remote.at = "idle" /\ remote.locked
    /\ remote' = [remote EXCEPT !.locked = FALSE]
    /\ Post(Message("Unlock", NoName, "none"))
    /\ RemoteOnly /\ UNCHANGED <<answers, budget>>

----------------------------------------------------------------------------
(* The desktop.                                                            *)

DesktopOnly == UNCHANGED <<threadVars, loaderVars, codeVars, remote, crashed>>

\* desktop_alloc subscribes first and then asks whether the loader is locked.
DesktopSubscribes ==
    /\ desktop.at = "boot"
    /\ desktop' = [desktop EXCEPT !.at = "subscribed"]
    /\ DesktopOnly /\ UNCHANGED <<queue, events, animation, answers, budget>>

DesktopAsks ==
    /\ desktop.at = "subscribed"
    /\ desktop' = [desktop EXCEPT !.at = "calling"]
    /\ Post(Message("IsLocked", NoName, "desktop"))
    /\ DesktopOnly /\ UNCHANGED <<events, animation, answers, budget>>

DesktopAnswered ==
    /\ desktop.at = "calling"
    /\ answers["desktop"] # "none"
    /\ answers' = [answers EXCEPT !["desktop"] = "none"]
    /\ desktop' = [desktop EXCEPT !.at = "ready", !.appRunning = answers["desktop"] = "true"]
    /\ DesktopOnly /\ UNCHANGED <<queue, events, animation, budget>>

\* desktop_custom_event_callback
DesktopEvent ==
    /\ desktop.at = "ready"
    /\ events # <<>>
    /\ events' = Tail(events)
    /\ desktop' = [desktop EXCEPT !.appRunning = Head(events) = "before"]
    /\ animation' = (animation \/ Head(events) = "before")
    /\ DesktopOnly /\ UNCHANGED <<queue, answers, budget>>

\* The user opens the menu or a favourite application.
DesktopWants(m) ==
    /\ desktop.at = "ready"
    /\ budget.desktop > 0
    /\ budget' = [budget EXCEPT !.desktop = @ - 1]
    /\ desktop' = [desktop EXCEPT !.at = "posting", !.msg = m]
    /\ DesktopOnly /\ UNCHANGED <<queue, events, animation, answers>>

DesktopPosts ==
    /\ desktop.at = "posting"
    /\ Post(desktop.msg)
    /\ desktop' = [desktop EXCEPT !.at = "ready", !.msg = NoMessage]
    /\ DesktopOnly /\ UNCHANGED <<events, animation, answers, budget>>

\* desktop_loader_callback gives the desktop three seconds.  It is never that
\* slow by itself; but it may be waiting for the loader.
DesktopWaits ==
    \/ desktop.at = "calling" /\ answers["desktop"] = "none"
    \/ desktop.at \in {"subscribed", "posting"} /\ queue # <<>>

AnnouncementFails ==
    /\ loader.at = "announcing" /\ ~animation
    /\ DesktopWaits
    /\ crashed' = TRUE
    /\ UNCHANGED <<threadVars, queue, loaderVars, codeVars, remote, desktopVars, answers, budget>>

DesktopStep == DesktopSubscribes \/ DesktopAsks \/ DesktopAnswered \/ DesktopEvent \/ DesktopPosts

----------------------------------------------------------------------------
Next ==
    /\ ~crashed
    /\ \/ LoaderStep
       \/ DialogDismissed
       \/ AnnouncementFails
       \/ DesktopStep
       \/ DesktopWants(Message("ShowMenu", NoName, "none"))
       \/ \E n \in DesktopNames : DesktopWants(Message("Detached", n, "none"))
       \/ \E t \in Threads :
             \/ Begin(t) \/ Answered(t) \/ Close(t) \/ End(t)
             \/ Queue(t) \/ StateCallback(t)
             \/ \E n \in StartNames : CallStart(t, n)
       \/ \E n \in LaunchNames : AppCalls("EnqueueLaunch", n)
       \/ AppCalls("ClearLaunchQueue", NoName)
       \/ BrowserWakes
       \/ Scrub
       \/ \E n \in StartNames : RemoteCalls("StartByName", n)
       \/ \E type \in RemoteQueries : RemoteCalls(type, NoName)
       \/ RemoteAnswered
       \/ RemoteUnlocks

Spec == Init /\ [][Next]_vars

\* Every thread runs when it can.  Users close their applications and dismiss
\* dialogs in the end.
Going(A) == ~crashed /\ A
ThreadProceeds(t) ==
    \/ Begin(t) \/ Answered(t) \/ End(t) \/ Queue(t)
    \/ t = "apps" /\ BrowserWakes
Fairness ==
    /\ WF_vars(Going(LoaderStep \/ DialogDismissed \/ AnnouncementFails))
    /\ WF_vars(Going(Scrub \/ \E t \in Threads : StateCallback(t)))
    /\ WF_vars(Going(DesktopStep))
    /\ WF_vars(Going(RemoteAnswered))
    /\ \A t \in Threads : WF_vars(Going(ThreadProceeds(t)))

FairSpec == Spec /\ Fairness

----------------------------------------------------------------------------
(* Properties.                                                             *)

\* The loader learns of the end of an application exactly once, after it is
\* over and before its thread is freed: one AppClosed is on its way, in the
\* queue or being handled for a stopped application, and none otherwise
\* (loader.c:331-343, :748-781).
Pending(type) ==
    Cardinality({i \in 1..Len(queue) : queue[i].type = type})
        + (IF loader.at = "joining" /\ loader.msg.type = type THEN 1 ELSE 0)
ClosedOnce ==
    /\ app.thread = "app" <=> threadState["app"] # "Freed"
    /\ Pending("AppClosed") + (IF scrubbed = "app" THEN 1 ELSE 0)
          = IF threadState["app"] = "Stopped" THEN 1 ELSE 0

\* While the code of an application runs, the desktop knows: its animation is
\* unloaded and auto-lock is held off (desktop.c:22-33, :124-138).
DesktopKnows ==
    desktop.at \in {"ready", "posting"} /\ doing["app"] \in {"active", "calling"}
        => desktop.appRunning

\* The launch path kept is that of the running application, whatever was
\* refused meanwhile (loader.c:675-677).
PathIsCurrent == app.thread = "app" => app.path = running.name

\* Sleep is held off once for an application that does not allow it, and for
\* nobody else (loader.c:400-406, :759-761).
InsomniaBalanced ==
    insomnia = IF threadState["app"] # "Freed" /\ running.name = "external" THEN 1 ELSE 0

\* NoMoreAppsInQueue is only published when nothing runs and nothing is queued
\* (loader.c:696-714).
EmptyIsEmpty ==
    [][Len(events') > Len(events) /\ events'[Len(events')] = "after"
          => app'.thread = "NULL" /\ launchQueue' = <<>>]_vars

\* Loader and init thread wait for each other: the loader joins a thread that
\* is still to be scrubbed, and the init thread waits to post AppClosed.
ScrubWaitsForLoader ==
    /\ loader.at = "joining" /\ threadState[ThreadOf(loader.msg)] # "Stopped"
    /\ scrubbed = "app" /\ queue # <<>>

\* Every synchronous call of the loader returns, unless a check fails or the
\* loader and the init thread wait for each other.
Calling(c) ==
    CASE c = "remote" -> remote.at = "calling"
      [] c = "desktop" -> desktop.at = "calling"
      [] OTHER -> doing[c] = "calling"
CallsReturn == \A c \in Callers : Calling(c) ~> (~Calling(c) \/ crashed \/ ScrubWaitsForLoader)

\* The browser comes back when the applications it started are over
\* (loader_applications.c:128-144).
BrowserReturns ==
    doing["apps"] = "waiting" ~> (doing["apps"] # "waiting" \/ crashed \/ ScrubWaitsForLoader)

\* A launch leaves the queue when it is started, or with all others when they are cleared.
TakesFirst ==
    /\ launchQueue' = Tail(launchQueue)
    /\ loader'.msg = Message("Deferred", Head(launchQueue), "none")
ClearsQueue ==
    /\ queue # <<>> /\ queue' = Tail(queue)
    /\ Head(queue).type = "ClearLaunchQueue"

\* A queued launch happens "after the current one" (loader.h:133): none is lost, none
\* stays in the queue for ever.  Each is started, whatever became of those before it
\* (a start may fail, the next follows, loader.c:740), or cleared.
QueueDrains ==
    /\ launchQueue # <<>> ~> (launchQueue = <<>> \/ crashed \/ ScrubWaitsForLoader)
    /\ [][Len(launchQueue') < Len(launchQueue) => TakesFirst \/ ClearsQueue]_vars

\* The thread whose state callback the init thread is about to read exists:
\* a stopped thread "is safe to release" (thread.h:24).
ScrubbedIsAllocated == scrubbed # NoThread => threadState[scrubbed] # "Freed"

=============================================================================
