# Verification of the firmware's threads, event loop and services

TLA+ models of the event loop of `furi/core` and the primitives that feed it, and
of three groups of services whose threads depend on each other: the loader with
the threads it starts and the desktop; the expansion control with its worker and
the serial control; the path of a key from the input thread through the GUI to a
view dispatcher. With them come the TLC configurations that check them, and
proofs that the TLA+ proof system (tlapm) checks. Paths below are relative to the
repository.

Contents: [the system](#the-system) · [hard behaviours](#what-is-hard-to-test) ·
[modules](#modules) · [runs](#runs) · [abstractions and bounds](#abstractions-and-bounds) ·
[fairness](#fairness) · [proofs](#proofs) · [findings](#findings) ·
[not modelled](#not-modelled) · [plan](#plan)

## The system

The firmware is a set of threads (services and applications) on FreeRTOS. They
meet through the kernel objects of `furi/core`, and most of them wait for
everything at once in a `FuriEventLoop`.

| component | state | operations | interacts with | correct when |
|---|---|---|---|---|
| **Event loop** `event_loop.c` | tree object → item, waiting list, pending queue, task notification value (5 bits), current item | subscribe, unsubscribe, run, stop, pend, thread flag subscription, alloc, free | primitives notify it from any thread; its callbacks call any API, its own included | no event, command or stop is lost; no item is used after it is freed |
| **Loop timers** `event_loop_timer.c` | list of active timers, request queue, start time and interval of each | alloc, start, restart, stop, free | the loop's thread only | timers fire in order, not late through the loop's fault, never after a stop |
| **Loop tick** `event_loop_tick.c` | interval, previous time, callback | set, process | as the timers, but after them | missed ticks are treated as documented |
| **Message queue, semaphore, mutex, stream buffer, event flag** | a kernel object and `event_loop_link` (one item per direction) | put/get, acquire/release, send/receive, set/clear, reset | any thread; `furi_event_loop_link_notify` after each success | a level nobody has looked at is announced |
| **Threads** `thread.c` | state, flags, scrub queue, state callback | start, end, scrub, join, free, flags, signal | notify the loop of thread flags; scrubbed by the init thread, which runs the state callback | freed once, when stopped, with nothing left that refers to it |
| **Loader** `loader.c`, `loader_queue.c`, `loader_menu.c`, `loader_applications.c` | queue of one message, application (thread, launch path, insomnia), launch queue, menu and browser threads | start by name (answered, detached, deferred), menu, lock, unlock, signal, path, enqueue, clear, end of each thread | callers wait for `api_lock`; publishes to desktop and browser in its own thread; hears of ends through the init thread | each end is handled once, refused starts leave no trace, callers return, deferred launches drain |
| **Desktop**, as the loader sees it, `desktop.c` | `app_running`, event queue, semaphore | subscribe, ask, take the two events, open menu or application | the loader waits for it at most three seconds | knows of every application that runs |
| **Expansion** `expansion.c`, `expansion_worker.c` | state, port, worker, its buffer, control queue | enable, disable, set port, reload, module connected and disconnected; the worker's life | posts to the serial control and waits; storage, interrupt and worker post to it | agrees with the serial control; detection resumes; nothing is used after it is freed |
| **Serial control** `furi_hal_serial_control.c` | use of each port, log port, detection port and interrupt | acquire, release, logging, expansion callback | one thread and a queue; the interrupt posts to it | one holder per port, the log yields |
| **Input** `input.c` | state and press counter of each key | press, short, long, repeat, release | publishes; the GUI's subscriber waits for room in the GUI's queue | every press has its release, in order |
| **GUI input** `gui.c`, `view_port.c` | layers, `ongoing_input`, its view port, lockdown | input, add, remove, front, back, lockdown, direct draw | calls the view port's callback with two mutexes held | a release goes where the press went; no removed port is called |
| **View dispatcher** `view_dispatcher.c` | views, current, `ongoing_input` and its view, queues | run, switch, remove, stop, events, free | its input callback runs in the GUI's thread | no view is called after its removal, no key stays pressed, run returns |
| Records `record.c` | name → data, holders, ready flag | create, open, close, destroy | every service | open returns ready data, destroy only without holders |
| PubSub `pubsub.c` | subscription list, mutex | subscribe, unsubscribe, publish | callbacks under the mutex | no callback after unsubscribe |
| Pipe `lib/toolbox/pipe.c` | two stream buffers, instance count, state mutex | alloc, free, send, receive, loop attach | event loop, CLI | last side frees, the other sees "broken" and gets all data |
| RPC, Storage, Power, BT, Notification, CLI, Dialogs, Dolphin | message queues or loops of their own | messages | each other through records | see the plan |
| Protocol libraries, `furi_hal`, applications, scripts | hardware or user interface | | | not a subject of these models |

`furi_event_loop_run` takes all notification bits with one
`xTaskNotifyWaitIndexed`, tries Stop, Event, Timer, Pending, ThreadFlag in this
order, runs **one** branch and (in two of the branches) puts the other bits back.
When the wait times out instead, an expired timer is called, or else the tick.

## What is hard to test

`PROJECT.json` lists every hazard at its line. The ones the models are for:

* a primitive changes *before* it calls `furi_event_loop_link_notify`; the loop
  may read the level, fall asleep, unsubscribe or subscribe in between;
* one bit stands for a whole list, five bits are taken at once and one branch runs;
* callbacks unsubscribe themselves or others and subscribe again, while the
  item is in use and other threads follow its link;
* a loop is stopped in the middle, run again, or freed;
* timers are commanded from callbacks through a queue that is processed later,
  with a clock that wraps;
* a thread's end is reported by another thread, the init thread, which then waits
  for the queue of whoever may be joining the next one;
* the loader has one thread and a queue of one message: applications, menu,
  browser, desktop, remote threads and the init thread wait for it, and it waits
  for the desktop, for dialogs and for threads to end;
* a worker ends by itself, or is stopped, or both; messages about it are handled
  when another one has taken its place;
* three threads share two serial ports, and two of them can fill each other's queues;
* view ports and views come, go, turn and are switched between the press of a
  key and its release, while the thread of the GUI holds the mutexes and waits
  for a queue.

## Modules

| module | models | state ↔ code |
|---|---|---|
| `EventLoopObjects` | the primitives as the loop sees them: a level, a capacity, the contract | `GetLevel` = the five `*_event_loop_get_level`; `Announces` = the trigger level in `furi_stream_buffer_send` |
| `IntrusiveList` | `m-i-list.h` (external), and `ViewPortArray`, which is used in the same way | sequences without duplicates |
| `EventDelivery` | abstract specification: an event raised for a subscription is handed over, or withdrawn by unsubscribing, and while the loop runs none waits for ever | – |
| `EventLoop` | `event_loop.c` with the primitives and the threads that use them | see below |
| `EventLoopTimer` | `event_loop_timer.c`, `event_loop_tick.c` and the part of `furi_event_loop_run` that drives them | `timer`, `timer_list`, `timer_queue`, `tick`; `notified` is `FuriEventLoopFlagTimer` |
| `Threads` | the life of a `FuriThread`: one operator per step, without a next-state relation of its own | `threadState` = `FuriThread.state` (or Freed); `scrubbed` is the thread `furi_thread_scrub` is at, between the state and the callback |
| `Loader` (extends `Threads`) | the loader's thread, the three threads it starts, the init thread, a remote thread, the desktop's thread | `loader.at`: where the loader's thread waits; `doing`: the code of each thread; `answers`: the values behind unlocked `api_lock`s; `events`: the desktop's custom events |
| `SerialControl` | `furi_hal_serial_control.c`: handlers called through a queue | `inUse`, `logId`, `logSerial`, `listening`, the interrupt |
| `Expansion` (extends `SerialControl`) | control thread, worker, callers, storage | `control.at`: where a handler waits; `worker.at`; `unlocked`: `api_lock`s |
| `Input` | `input.c` and its subscriber in the GUI | `keys` = `state` and `press_counter` |
| `Gui` (extends `Input`, `IntrusiveList`) | `gui_input`, `view_port_map_input` and what changes the layers | `gui.at = "delivering"`: in a view port's callback, both mutexes held |
| `ViewDispatcher` (extends `Gui`) | a dispatcher, the thread that runs it, its views' callbacks | `dispatcher`: the fields; `app.at`: which code runs; `app.call`: the call that waits for a mutex |
| `MCEventLoop`, `MCEventLoopTimer`, `MCLoader`, `MCExpansion`, `MCViewDispatcher` | instances for TLC | – |
| `IntrusiveListProofs` | lemmas about lists, for the next four | – |
| `EventLoopProofs`, `EventLoopDeliveryProofs` | theorems about `EventLoop`; the second extends the first | – |
| `EventLoopTimerProofs`, `ViewDispatcherProofs` | theorems about `EventLoopTimer` and about `ViewDispatcher` with `Gui` and `Input` | – |
| `ExpansionProofs`, `LoaderProofs` | theorems about `Expansion` with `SerialControl` and about `Loader` with `Threads` | – |

`EventLoop`: `tree` is `FuriEventLoopTree`, `item` the heap memory of each
`FuriEventLoopItem`, `link` the `FuriEventLoopLink` of each primitive,
`waiting_list` and `pending_queue` the lists, `notify` the task notification
value, `flags` the local of `furi_event_loop_run`, `cur` the local `item` of
`furi_event_loop_process_waiting_list`, `op` the notification a thread's call has
still to make. `pc` is where the owner is:

```
user --Run--> wait --TakeFlags--> dispatch --+-- DispatchStop --------------------> user
                ^                            +-- DispatchEvent -> process -> callback
                |                            |        -> finish -> sync -> restore
                |                            +-- DispatchTimer ------------> restore
                |                            +-- DispatchPending -> pending <-> pendcb
                |                            +-- DispatchThreadFlag -> tfcb
                +-- TimeOut -> timercb            (restore, pending, tfcb, timercb -> wait)
```

While `pc` is `user`, `callback`, `pendcb`, `tfcb` or `timercb` the owner runs
application code: any bounded sequence of API calls. Other threads use the
primitives and may stop the loop at any point. `pc = "undefined"` is the use of a
freed item, or of a freed loop; nothing the owner does is modelled after it.

Definitions named as faults in a comment (`NoSyncFlags`, `ScheduleByInterval`...)
are part of no specification. Each stands before the definition it varies and
documents which property notices the fault.

A handler of a service runs in steps that are cut where it waits: for another
thread's answer, for a join, for room in a queue, for a mutex, for a user. Between
two cuts it is one action, whatever it calls. In `Loader` a start by name is cut after `BeforeLoad`
is published (the desktop's subscriber waits in the loader's thread) and at the
dialog; in `Expansion` a handler is cut at each call of the serial control, at
the settings and at the join; in `ViewDispatcher` at the two calls that wait for a
mutex without a limit. Composition is by conjunction: `ThreadEnds(t)`, `SerialPost(...)`,
`RemovePort(p)` are operators of the lower module that an action of the upper one
makes part of its step.

`EventLoop` and `EventLoopTimer` are separate because what they share is narrow:
`EventLoop` knows of timers that commands are queued and announced
(`timer_queue`, `armed`), `EventLoopTimer` knows of the loop that other events take
time and run code (`OtherEvent`), that the Timer bit survives them
(`RestoreFlags` in the other module), and that Stop forgets it.

## Runs

| run | instance | shows |
|---|---|---|
| `el_events` | queue and mutex, three items, level and edge subscriptions, one other thread, thread flags; 2.0 M states | `ItemsLive`, `NoLostWakeup`, `LevelNotLost`, `ThreadFlagAnswered` |
| `el_deferred` | a queue, two pended callbacks, a timer command, stops from both threads, two runs and a free; 0.6 M | nothing queued loses its bit; a pended callback runs after the timer commands that preceded it |
| `el_delivery` | stream buffer (trigger 2) and event flag, fair | `EventLoop` implements `EventDelivery`, its liveness included; a stop ends the run although producers go on |
| `timer_safety` | a one-shot and a periodic timer, the tick, intervals 1 and 2, a counter of 5 values, any number of runs of the loop; 2.7 M | seven properties of lists, order, wake-up time, commands, skipped periods, deallocation |
| `timer_live` | the same two timers, interval 1, a counter of 3 values, fair; 0.5 M | every timer that stays started fires |
| `loader` | application, menu and browser, the desktop, a remote thread; a failing autorun, an application that holds off sleep, names that do not load; two launches in the queue; fair; 156 k states | seven invariants and action properties and three liveness properties, below |
| `expansion` | two ports, boot thread and one application, two pulses on the pins, one card mount, queues of eight as in the code; fair; 137 k | five invariants, `CallsReturn`, `DetectsAgain` |
| `dispatcher` | two keys, three views of which one is turned, dialog and desktop view ports, two dispatchers one after the other; fair; 631 k | five invariants, `RunReturns` |
| `v_*` | the instance that shows each finding | see [findings](#findings) |

The properties:

* `ItemsLive` relates five data structures: the tree, the links other threads
  follow, the waiting list, the item memory and the item being processed.
* `NoLostWakeup`: whatever waits (list, pended callbacks, timer commands) has its
  bit set, or the loop is in the branch that will set it or empty the queue.
* `LevelNotLost`: a level subscription with a level is in the list, being
  processed with its level still to be read, or its producer has still to notify.
* `ThreadFlagAnswered`: a thread flag notification lives until its callback runs.
  It holds without pended callbacks (`el_events`) and fails with them (see
  [findings](#findings)).
* `ItemInUseIsAllocated`: no callback is looked up in freed memory and no loop is freed
  with a waiting item. It fails with Once subscriptions (`v_once`); that nothing else breaks it
  is proved (`OnlyOnceUsesFreedItems`).
* `PendingAfterTimers`, `StopEndsRun`, `DeliverySpec`: as above.
* `TimersLive`, `FrontExpiresFirst`, `WakesInTime`, `CommandsComeFirst`,
  `PeriodsAreSkipped`, `FreeFindsNoTimer`, `TimerFires`: stated at their definitions.
* `loader`. `ClosedOnce`: an application that has stopped has exactly one `AppClosed`
  on its way, and none otherwise. `DesktopKnows`: its code never runs unknown to the
  desktop. `PathIsCurrent`, `InsomniaBalanced`: path and insomnia level are those of what
  runs, whatever was refused meanwhile. `EmptyIsEmpty`: `NoMoreAppsInQueue` is the truth
  when it is published. `CallsReturn`, `BrowserReturns`, `QueueDrains`: callers, the sleeping
  browser and queued launches get their turn, but for a check that fails or the deadlock
  named `ScrubWaitsForLoader`. `QueueDrains` also says how launches leave the queue: each is
  started, the first one first and also after one that failed, or all are cleared.
* `expansion`. `StateAgrees`: between messages the serial control listens where the
  control thread believes it does, and a worker exists exactly when Running. `ChecksHold`: the
  two `furi_check`s of the serial control never fail, whatever the order of messages.
  `OneHolder`, `LogYieldsPort`: ports. `CallsReturn`: no caller waits for ever, even if a
  module never falls silent, unless the control thread is left joining a worker that nobody
  told to stop (`JoinsUnasked`, what the finding of `v_freed_buffer` leads to: TLC shows that
  it lasts for ever with a module that keeps talking). `DetectsAgain`: after a worker's
  own end somebody listens again, unless told otherwise.
* `dispatcher`. `NoStuckKey`: when all keys are up and everything is handled, neither GUI
  nor dispatcher believes in a pressed key. `ViewsSeeRelease`: nor does any view. Both except a
  port turned with a Press of the old orientation in the queue (`spoiled`). `PortLives`,
  `ViewLives`: what the next event is delivered to has not been removed. `RunReturns`: the
  dispatcher's wait for keys after a stop ends.

`CHECK_DEADLOCK FALSE` is set in all configurations: a loop or a service that nobody uses
any more sleeps for ever, calls are bounded, and a freed loop, or a system that has
crashed, does nothing. That nobody waits who should not is what the liveness
properties say.

## Abstractions and bounds

The event loop and its timers:

* A critical section is one step, and so is one kernel call.
  `furi_event_loop_link_notify` is one critical section around the push and the
  notification. Where the loop itself notifies an item (`FinishItem`, and the
  subscription) the push and the bit are one step: between them only the owner
  can act on the list, and another thread that pushes sets the same bit.
* A call that waits inside the kernel is an action whose guard is not true yet;
  a call that fails or times out changes nothing and is no step.
* A level is a number; messages, bytes and which bits are set are left out. Streams
  move any number of bytes at once.
* `furi_check` failures are calls the model does not make, except where the
  check is about the loop's own state (`FreeFindsNoTimer`).
* Freed memory reads as zero (`configHEAP_CLEAR_MEMORY_ON_FREE` is 1), and freed
  addresses are handed out again.
* Bounds: `MaxCalls` per stretch of application code, `MaxPending`,
  `MaxTimerCommands`, `MaxRuns`. Two calls per callback let it unsubscribe and
  subscribe again; two primitives and three items let an old item outlive a new
  subscription while another waits; one other thread suffices to interleave
  with the owner, since primitives never relate two producers. Items are interchangeable
  (`SYMMETRY`), which is used in runs without liveness only.
* Time: the counter wraps after `Wrap` ticks instead of 2^32. `Pass` lets time
  run as long as no active timer's elapsed time would itself wrap, that is, the
  thread looks at its timers within 2^32 ticks (49 days). `MaxLate` ticks may be
  lost between computing the sleep and sleeping. The loop may run, stop, run again and be
  freed; `dropped` is a history variable: a Stop has taken the Timer bit of requests that are
  still queued. `VIEW RelativeTime` in
  `timer_safety` identifies states that differ only in the time of day: every
  guard and property uses differences to `now`, modulo `Wrap`, and the other fields the
  view drops are not read before they are written again.
* An interval of zero arises only from a restart before the first start, as in
  the code; the division it causes yields zero on this core.

`Threads` and `Loader`:

* A name stands for what loading it does: an application of the firmware that
  allows sleep, one from the card that does not, the browser, a file that does
  not load, nothing at all. Loading is one step. `GetApplicationName` does what
  `GetApplicationLaunchPath` does and is not a message of its own.
* A signal is delivered in one step, where the code reads the callback of the thread
  and then calls it. The state callback of a thread that was freed meanwhile reads as
  zero, as in freed memory; `ScrubbedIsAllocated` is the property about it.
* Of the threads that may wait for room in the loader's queue, the desktop and the init
  thread have such a state of their own, because somebody waits for them; the
  others post when there is room.
* The desktop is never three seconds late by itself. It is late when it waits for the
  loader (`DesktopWaits`), and then the loader's `furi_check` fails.
* Only the runs' `StartNames`, `DesktopNames` and `LaunchNames` are asked for. Applications of
  the repository do not enqueue the browser, and the browser does not start itself.
* Bounds: a launch queue of two (four in the code), so that a deferred launch fails with another
  behind it; two starts by menu and browser, two calls
  by applications, one by a remote thread, one by the desktop. `ScrubQueueSize` is one
  (eight in the code): other threads of the system end as well and fill it. With
  these bounds two applications follow each other while menu and browser are open,
  a refused start meets a running application, and the deadlock above is reached. The
  `furi_check` of a full launch queue (`loader.c:894`) is modelled, but two calls do not fill it.

`SerialControl` and `Expansion`:

* What worker and module say (frames, baud rate, RPC) is one stretch that ends
  when the Stop flag is seen or by a choice. Settings are read as any value.
* Callers do what `expansion.h` asks: disable, acquire, release, enable. They crash
  where the applications check the handle they get (`gpio_app.c`, `js_serial.c`).
* `MaxPulses`, `MaxMounts` and `MaxCalls` are 2, 1 and 1: two modules one after the
  other, a reload that meets each handler, an application and the boot thread. Queues have
  the sizes of the code, eight; they do not fill within these bounds, so that the
  deadlock of a full control queue (`PROJECT.json`, `expansion.c:79`) does not arise
  in `expansion`.

`Input`, `Gui` and `ViewDispatcher`:

* Debouncing is reduced to presses and releases. Starting a key's timer and publishing its
  Press are one step. Events that the command line or RPC inject are not modelled.
* The GUI's mutex and the view port's are held together while the port's callback
  runs, and nowhere else for longer than a step: they are one state,
  `delivering`. The dialog's and the desktop's callbacks return at once.
* Enter and exit callbacks of views do not call the dispatcher. After a run, removing
  the views and freeing the dispatcher is one step.
* `told` is a history variable: the keys a view believes are pressed. Input that
  the code gives up when the port turns is given up there, too. `spoiled` is another: the
  port was turned while a Press of the old orientation was still in the queue. The
  properties that exclude it say so in their formula.
* Bounds: two keys, Up, which turning maps to another, and Back, which
  navigates; three views of which one is turned; a GUI queue of one event (eight in the
  code), so that the publisher waits; a dispatcher queue of sixteen as in the
  code; two presses (or one with a Repeat), one call by the application's callbacks, one by another
  thread, two runs of a dispatcher. Two presses are needed for keys that overlap, and two
  runs for what one dispatcher leaves to the next. `v_lockup` has a dispatcher queue of three,
  which one held key fills.

## Fairness

* `EventLoop!FairSpec`: weak fairness of `LoopStep` and of each thread's
  `LinkNotify`. FreeRTOS runs every ready thread, callbacks are assumed to return, and the
  steps named wait for nobody. No fairness is assumed of producers, of consumers,
  or of the application's decision to call anything.
* `EventLoopTimer!Spec`: weak fairness of `LoopStep`, strong fairness of `Pass`,
  whose guard (`MaxLate`, the wrap) can switch it off and on again; the real
  counter is never held up. `TimerFires` says in its premise that other
  events pause: they have priority in the code, and may starve timers.
* `Loader!FairSpec`: weak fairness of the loader, of the init thread, of the desktop, of the remote
  thread's return and of each started thread. FreeRTOS schedules them all; users
  close applications and dismiss dialogs in the end (`End`, `DialogDismissed`). Nobody is obliged to
  call the loader or to close the menu or the browser.
* `Expansion!FairSpec`: weak fairness of both service threads, of the worker, of the
  storage's post and of callers' returns, and of `WorkerStops`: a worker with the Stop flag set
  ends (`expansion_worker.c:78-116`), which assumes that it empties its buffer faster than the
  port fills it and so comes to wait for data. `LinkBreaks` is not fair: a module that sends
  heartbeats goes on for ever. Callers need not start or finish anything.
* `ViewDispatcher!FairSpec`: weak fairness of the GUI's and the application's
  threads and of letting keys go: a finger does not stay on a key for ever.

## Proofs

Every invariant that a passing run checks, and every action property but that in `QueueDrains`, is also
proved, for every value of the constants, in six modules over the lemmas of
`IntrusiveListProofs`. The only assumptions are those that the modules of the model state
about their constants (`EventLoopAssumption`, `TimerAssumption`, `ExpansionAssumption`...;
TLC evaluates them in each run) and, in five theorems, the hypotheses
named below. Run `tlapm` on each module; the longest takes a few minutes.

Each module names the parts of its inductive invariant first, then has one lemma per
part or per group of actions, with one step per action, and ends with the
theorems. Where many actions leave the same variables alone, a lemma says in what ways
these can move (`LifeSteps`, `CallSteps`, `AppSteps`, `FlagMoved`...), and the invariants
that speak of nothing else are proved over those ways instead of over the actions.

**`EventLoopProofs`** and **`EventLoopDeliveryProofs`**, for every set of primitives, items,
threads and modes and every bound. `LoopInv` puts together what the first
three rows need; the second module builds on it.

| theorem | statement | argument |
|---|---|---|
| `TypeCorrect` | `Spec => []TypeOK` | `TypeOK /\ Control` is inductive; `Control` says that `cur` is an item while one is processed |
| `ItemsStayLive` | `Spec => []ItemsLive` | needs `AllocatedItems` (`ItemInv`): what is not allocated reads as `FreedItem` |
| `NoWakeupLost` | `Spec => []NoLostWakeup` | needs `FreeIsEmpty`: a loop is freed with nothing in its lists, and the loop's own steps between taking and restoring the bits |
| `OnlyOnceUsesFreedItems` | `Spec => []ItemInUseIsAllocated`, without Once subscriptions | `NoOnceItem`: no allocated item has the flag, and a loop is never freed with a waiting item |
| `LevelsAreSeen` | `Spec => []LevelNotLost` | inductive with `LoopInv`: a primitive that raises a level (`Raised`) has its notification to send; the subscription stays `Watched` until the loop has read the level |
| `ThreadFlagsAreAnswered` | `Spec /\ []NonePended => []ThreadFlagAnswered` | `FlagInv`: the bit is set, taken, or about to be set, wherever the loop is |
| `PendedWaitForTimers` | `Spec => []PendingAfterTimers` | `TimersFirst`: while timer requests are queued, the Timer bit is set or in `flags`, or a notification is on its way, so the Pending branch is not taken |
| `DeliveryIsImplemented` | `Spec => Delivery!Init /\ [][Delivery!Next]_(Delivery!vars)` | the safety half of the refinement of `EventDelivery`: each step of the loop maps to a raise, a hand-over, a withdrawal, a start or stop, or nothing. `Subs`, `Events` and `InRun` are the mapping; `LoopInv` is used for "a waiting item is allocated and the subscription of its object" |

**`EventLoopTimerProofs`**, for every set of timers and intervals and every width of the counter.
`TimerInv` is inductive (`TimerInvariant`): the properties in the table, `IntervalsGiven`,
`CodeFired`, `RequestsNotified` (before it runs or sleeps, the loop knows of queued requests, unless a Stop
has dropped their flag) and
`AllFreed`. The arithmetic is in `SinceIs`, `LeftIs`, `TickPasses` (a tick of the counter takes one from
what is left of every running interval, across the wrap) and `SkippedPeriods`.

| theorem | statement | argument |
|---|---|---|
| `TimerTypeOK`, `TimersAreLive` | `Spec => []TypeOK`, `[]TimersLive` | `Scheduled`, `Unscheduled`: insertion and removal keep a list without duplicates whose members have the flag |
| `FrontIsFirst` | `Spec => []FrontExpiresFirst` | `Scheduled` inserts before the first that expires later; `TimePasses`: time keeps the order, since all lose the same or reach zero |
| `FreeChecksHold` | `Spec => []FreeFindsNoTimer` | `AllFreed`, and the queue is processed before the check |
| `CommandsAreFirst` | `Spec => CommandsComeFirst` | in every run; `WhoFires`: what fires is the front of the list, when nothing is notified, and then the queue is empty or was left by a Stop (`dropped`) |
| `PeriodsAreCaughtUp` | `Spec => PeriodsAreSkipped` | `SkippedPeriods`: the new start time is within one interval of now |
| `LoopWakesInTime` | `Spec => []WakesInTime`, if no interval is `FuriWaitForever` | `SleepInv`: the computed sleep is at most what the first timer and the tick have left, plus the ticks lost so far |

**`ExpansionProofs`**, for any number of callers and ports, any queue sizes and any bounds.
`ExpansionInv` is inductive (`ExpansionInvariant`): `Typed`, `Calls`, `ControlInv`.

| theorem | statement | argument |
|---|---|---|
| `ExpansionTypes` | `Spec => []TypeOK` | needs `PortsNamed`: who sends a port sends one |
| `ControlAgrees`, `CallbackChecksHold` | `Spec => []StateAgrees`, `[]ChecksHold` | `Calls`: a thread has one call in the serial control's queue or one answer, exactly where it waits for it; `ControlInv`: what `listening` will be, when those calls are served, is what the state says |
| `LogGivesWay` | `Spec => []LogYieldsPort` | inductive with the types |
| `PortHasOneHolder` | `Spec => []OneHolder` | `Owners`: whoever holds a port, or has it granted in an answer, holds a port that is in use, alone (`Holds`, `CallerHolds`, `WorkerHolds`) |
| `OnlyLateReportsFreeBuffers` | `Spec /\ []ReportsAreFresh => [](RxBufferLives /\ JoinedEnds)` | inductive with the types: a worker only goes towards its end (`WorkerAdvances`), and the handlers that stop or free it are the control thread's |

**`LoaderProofs`**, for any names, any lengths of the launch queue and the scrub queue,
any number of calls. `LoaderInv` is inductive (`LoaderInvariant`): types, who sends what
(`WhatIsHandled`), each caller inside one call (`Calls`), thread states (`Life`), `Closing`, `LockInv`,
`Kept` and `InsomniaBalanced`.

| theorem | statement | argument |
|---|---|---|
| `LoaderTypes` | `Spec => []TypeOK` | |
| `EndIsToldOnce` | `Spec => []ClosedOnce` | `Closing`: a stopped application is announced by exactly one of the message, the join and the scrub that has not called back yet; `PendingCount` counts them |
| `PathStaysCurrent` | `Spec => []PathIsCurrent` | `Kept`: path and flag are those of the application whose thread exists, whatever was refused meanwhile |
| `InsomniaIsBalanced` | `Spec => []InsomniaBalanced` | inductive with `Kept` and `Closing`: the flag says whether the level was raised, and an end is handled once |
| `DesktopIsTold` | `Spec => []DesktopKnows` | `Told`: what the last event in the desktop's queue says; `Known`: what the desktop knows once it has handled them |
| `EmptyMeansEmpty` | `Spec => EmptyIsEmpty`, if the browser is never a deferred launch | `Left`: launches stay in the queue only while an application runs or is being started |

**`ViewDispatcherProofs`**, for any keys and views and turned views, any lengths of queues, any number of
presses, calls and runs. `DispatchInv` is inductive (`DispatcherInvariant`): types, `Control` (who
may wait for what), `PortLives`, `ViewLives` and the three below.

| theorem | statement | argument |
|---|---|---|
| `DispatcherTypeOK`, `PortsAreAttached`, `ViewsAreAdded` | `Spec => []TypeOK`, `[]PortLives`, `[]ViewLives` | with `Control`: while a callback runs, the port is the application's and nobody removes it |
| `NoKeyIsStuck` | `Spec => []NoStuckKey` | `GuiInv`: what the GUI believes, followed by the events in its queue (`Pressed`), is how the keys are; `DispatcherInv`: the same between the GUI and the queue of the dispatcher, through the mapping of turned keys, which is one-to-one (`MappedKeys`, `TurnedKeys`) |
| `EveryReleaseIsTold` | `Spec => []ViewsSeeRelease` | `ToldInv`: a view has been told of no other keys than the dispatcher's; both with the exception `spoiled` |

Five theorems have a hypothesis:

* `OnlyOnceUsesFreedItems`: Once is the finding of `v_once`; nothing else leads there.
* `OnlyLateReportsFreeBuffers`: `ReportsAreFresh` says that a report handled while a worker runs is from
  that worker, which has ended. `v_freed_buffer` breaks it; where it holds, workers end by themselves, are
  stopped, and are joined as the code means. `JoinedEnds`: only a worker that ends is joined.
* `ThreadFlagsAreAnswered`: `NonePended` is `pending_queue = <<>>`. The Pending branch is the
  one that forgets a thread flag (below); TLC refutes the property with a pended callback,
  and `el_events`, which checks it, pends none.
* `LoopWakesInTime`: a timer or a tick of exactly 0xFFFFFFFF is the finding below; TLC refutes
  the property with it. The intervals of `timer_safety` satisfy the hypothesis.
* `EmptyMeansEmpty`: a deferred launch of the browser starts no application, so that the
  rest of the queue stays until another one ends. The two callers of
  `loader_enqueue_launch` in the repository (`nfc_app.c:479` and the debug application `loader_chaining`) launch
  others. `loader.cfg` satisfies the hypothesis.

Only model-checked: the liveness properties (`TimerFires`, `StopEndsRun`, `CallsReturn`,
`BrowserReturns`, `QueueDrains`, `DetectsAgain`, `RunReturns`) and the fairness half of the refinement of
`EventDelivery`, because liveness under fairness and `ENABLED` are out of this prover's reach. The four
violations are what TLC finds; for two of them a theorem says that nothing else leads there.

## Findings

| run | the code | the documentation |
|---|---|---|
| `v_once` | `event_loop.c:123` unsubscribes a Once item before it becomes the current item, so it is freed and then used | `event_loop.h:90-92`, `example_event_loop_mutex.c:98-100` |
| `v_freed_buffer` | `expansion.c:185-190`: the report of a worker that ended by itself while it was being stopped stays in the queue; handled when the next worker runs, it frees that worker's `rx_buf` and joins a thread nobody has told to stop, for ever if its module keeps talking. 29 steps, with the queue sizes of the code | `expansion_worker.h:72-73` |
| `v_stopped_thread` | `thread.c:96-98`: the init thread sets Stopped and then reads `state_callback`, while whoever joined the thread may have freed it | `thread.h:24` |
| `v_lockup` | `view_port.c:238` waits for a mutex that the GUI holds while it waits (`view_dispatcher.c:248`) for room in the queue of the same thread. 19 steps, after fast input to a slow view | `view_port.c:245` |

Met while modelling, and described here without a run:

* `event_loop.c:244-245` drops a ThreadFlag bit taken together with Pending, although
  `event_loop.h:316` promises the callback "when a flag has been set". TLC refutes
  `ThreadFlagAnswered` in any instance with a pended callback.
* `event_loop.c:232-234` drops the bits taken together with Stop. A loop that is run again
  sleeps over an item that waits with a level, although `event_loop.h:78-80` promises the event "repeatedly until the
  level becomes zero". And a timer command taken with Stop stays in the queue without its
  bit: in the next run a timer that was told to stop fires at `event_loop.c:255`, although
  `event_loop_timer.h:84` says that it stops "without firing its callback". `CommandsComeFirst` excepts it;
  without `\/ dropped` in its formula TLC refutes it in 21 steps.
* `event_loop_timer.c:205-208` computes a remaining time for a stopped timer;
  `event_loop_timer.h:95` says zero.
* `event_loop_timer.c:184`: an interval of 0xFFFFFFFF is not told from `FuriWaitForever`. A timer with it,
  when it is the only one, lets the loop sleep for ever: `furi_event_loop_timer_start` has no
  upper limit, and `event_loop_timer.h` names none.
* `event_loop_tick.c:37` makes up for missed ticks one by one; `event_loop.h:154` says
  that they are skipped.
* `loader.c:341` and `loader_menu.c:33`: a thread's end is scrubbed by the init
  thread, which waits to post AppClosed while the loader joins the menu's (or the browser's) thread, which
  only the init thread can scrub. The model reaches it (`ScrubWaitsForLoader`).
* `loader_applications.c:140`: a failing start wakes the browser that does not wait yet; its
  next start returns at once and the file list opens over the application.
* `expansion.c:157`: a card mount after `expansion_disable` reloads the settings and enables
  detection again under the application that asked for the port. A module found
  then makes the worker's `furi_check` of its handle fail.
* `expansion.c:79`, `:250`: with a full control queue the worker (while it is joined) or the storage (while its
  settings are read) and the control thread wait for each other.
* `loader.c:894`: the fifth launch an application queues is a crash, not an error.
* `loader.c:585-590`: showing the browser ends a start without an event: the desktop's
  `app_running` stays set, even when the browser is closed, until the next application ends. A
  start refused under Lock has the same effect.
* `view_dispatcher.c:284`: a view that handles Back by switching to no view and reports the
  event unhandled makes the dispatcher ask no view for the previous one, which is a crash
  (`app.at = "crashed"`).
* `view_dispatcher.c:357`: turning the port clears `ongoing_input` but a Press may still be in
  the queue in the old orientation; its Release will come in the new one (`spoiled`).

## Not modelled

In the components that are modelled: the signal callback `furi_event_loop_run` installs in
its thread (its effect is `furi_event_loop_stop`); mutex ownership, recursion and priority
inheritance; which bits of an event flag; the lifetime of the primitives themselves (an object
freed in its own callback); thread flags (but for the loop's), suspension and
standard output of threads; the expansion protocol and the RPC session a
worker opens; deinitialisation, suspend and resume of the serial control; drawing, the window
and status bar layers; tick events of the view dispatcher, and views added while it runs;
the desktop's lock, scenes and timers; contents of menus, and how a file is loaded.

Allocation failure crashes the firmware. The components marked `not_modelled` in
`PROJECT.json` are listed there with the reason: most are protocol libraries and
register access bound to hardware timing, user interfaces, or vendored libraries (fonts,
file system, code pages) that make up the greater part of the source. Storage, RPC, records and the
pipe could be modelled and are in the plan; they are left out for now because each
deserves runs of its own.

## Plan

The safety of all components modelled so far is proved. What is left, in this order:

1. A theorem beside `v_lockup`, as `OnlyOnceUsesFreedItems` and `OnlyLateReportsFreeBuffers` are beside
   `v_once` and `v_freed_buffer`: how many events a dispatcher's queue must hold, in terms of the
   keys and of what its thread is doing, for `NoLockup` to hold.
2. Abstract specifications of the serial ports (a lock per port, with the log as a lower
   holder) and of the loader (at most one application; started, closed, then the next launch),
   implemented by `Expansion` and `Loader`; their safety by proof, their liveness by TLC.

Models. Each needs a run of its own; `el_deferred` and `el_events` cannot become one at their
present bounds (more than 13 M states):

3. `Pipe`: two sides over two stream buffers and the event loop; abstract
   specification: a pair of bounded FIFO channels with an end. No byte sent
   before the other side broke is lost, the last side frees exactly once.
4. `FuriRecord` and `FuriPubSub`: open waits outside the lock; abstract
   specification: a record is a reference-counted value that is ready when open returns.
5. `RpcSession` on top of `Expansion`'s worker; `Storage` with mount and unmount under open files.
