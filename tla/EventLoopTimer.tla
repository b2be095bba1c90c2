--------------------------- MODULE EventLoopTimer ---------------------------
(***************************************************************************)
(* The timers and the tick of a FuriEventLoop, run by the loop's own       *)
(* thread: a list of active timers, a queue of requests that commands put  *)
(* there and the loop carries out later, and the kernel's tick counter,    *)
(* which wraps.  What the loop does besides is one step, OtherEvent: it    *)
(* takes its time and runs code that may command the timers.               *)
(***************************************************************************)
EXTENDS Integers, FiniteSets, IntrusiveList

CONSTANTS
    Timers,         \* the timers of the instance
    Periodic,       \* those of FuriEventLoopTimerTypePeriodic
    NoTimer,        \* no timer
    TickEvent,      \* stands for the tick where a timer could stand
    Wrap,           \* ticks after which the counter is zero again (2^32)
    Intervals,      \* intervals timers are started with
    TickIntervals,  \* intervals the tick is set to
    MaxCalls,       \* API calls per stretch of application code
    MaxLate         \* bound on the ticks lost between computing a sleep and sleeping

ASSUME TimerAssumption ==
    /\ Periodic \subseteq Timers
    /\ NoTimer \notin Timers /\ TickEvent \notin Timers /\ NoTimer # TickEvent
    /\ Wrap \in Nat \ {0}
    /\ Intervals \subseteq 1..(Wrap - 1)
    /\ TickIntervals \subseteq 1..(Wrap - 1)
    /\ MaxCalls \in Nat /\ MaxLate \in Nat

VARIABLES
    now,            \* xTaskGetTickCount()
    timer,          \* FuriEventLoopTimer, of each timer
    timer_list,     \* active timers
    timer_queue,    \* timers with a request
    tick,           \* FuriEventLoopTick; on stands for callback # NULL
    notified,       \* FuriEventLoopFlagTimer is set
    pc,             \* where the thread is
    sleep,          \* ticks it will sleep, or still has to
    late,           \* ticks lost between computing sleep and going to sleep
    fired,          \* the timer whose callback runs, or the tick
    calls,          \* API calls made in this stretch of application code
    dropped         \* history: Stop has forgotten the Timer flag of requests still queued

vars == <<now, timer, timer_list, timer_queue, tick, notified, pc, sleep, late,
          fired, calls, dropped>>

Forever == Wrap - 1          \* FuriWaitForever: the largest tick count

Requests == {"None", "Start", "Stop", "Free"}

Unused == [alloc |-> FALSE, active |-> FALSE, interval |-> 0, start_time |-> 0,
           next_interval |-> 0, request |-> "None"]

-----------------------------------------------------------------------------
(* Time, in the unsigned arithmetic of the counter *)

Since(t) == (now - t + Wrap) % Wrap
\* Faulty variants, such as this one, stand before the definition they vary; no
\* specification uses them, they show which property would notice the fault.
\* Fault: a deadline in the past counts as a negative time.
LeftUnchecked(start, interval) == interval - Since(start)

Left(start, interval) == IF Since(start) < interval THEN interval - Since(start) ELSE 0

RemainingTime(t) == Left(timer[t].start_time, timer[t].interval)
IsExpired(t) == Since(timer[t].start_time) >= timer[t].interval

TickIsExpired == Since(tick.prev_time) >= tick.interval

Least(a, b) == IF a < b THEN a ELSE b

\* Fault: the whole interval, whatever has passed of it
WholeInterval == IF timer_list = <<>> THEN Forever ELSE timer[Head(timer_list)].interval

\* furi_event_loop_get_timer_wait_time, furi_event_loop_get_tick_wait_time
TimerWaitTime == IF timer_list = <<>> THEN Forever ELSE RemainingTime(Head(timer_list))
TickWaitTime == IF tick.on THEN Left(tick.prev_time, tick.interval) ELSE Forever

\* Faults: ordered by interval, not ordered at all.
ScheduleByInterval(list, t, f) ==
    InsertAfter(list, Cardinality({k \in 1..Len(list) : f.interval >= timer[list[k]].interval}), t)

ScheduleInFront(list, t, f) == InsertAfter(list, 0, t)

\* furi_event_loop_schedule_timer: after the last timer that does not have more
\* time left, for a timer t that now has the fields of f.
Schedule(list, t, f) ==
    LET mine == Left(f.start_time, f.interval)
        before == {k \in 1..Len(list) : mine >= RemainingTime(list[k])}
        place == IF before = {} THEN 0
                 ELSE CHOOSE k \in before : \A l \in before : l <= k
    IN  InsertAfter(list, place, t)

-----------------------------------------------------------------------------
Init ==
    /\ now = 0
    /\ timer = [t \in Timers |-> Unused]
    /\ timer_list = <<>>
    /\ timer_queue = <<>>
    /\ tick = [on |-> FALSE, interval |-> 0, prev_time |-> 0]
    /\ notified = FALSE
    /\ pc = "stopped"
    /\ sleep = 0
    /\ late = 0
    /\ fired = NoTimer
    /\ calls = 0
    /\ dropped = FALSE

(* Commands, given by application code of the loop's thread: in a callback,   *)
(* or before, between and after the runs.                                     *)

MayCall == pc \in {"code", "stopped"} /\ calls < MaxCalls

Called ==
    /\ calls' = calls + 1
    /\ UNCHANGED <<now, timer_list, pc, sleep, late, fired, dropped>>

\* furi_event_loop_timer_alloc
AllocTimer(t) ==
    /\ MayCall
    /\ ~timer[t].alloc
    /\ timer' = [timer EXCEPT ![t] = [Unused EXCEPT !.alloc = TRUE]]
    /\ UNCHANGED <<timer_queue, tick, notified>>
    /\ Called

\* Fault: the timer is queued once more.
EnqueueAgain(t, request, next_interval) ==
    /\ MayCall
    /\ timer[t].alloc /\ timer[t].request # "Free"
    /\ timer' = [timer EXCEPT ![t].request = request, ![t].next_interval = next_interval]
    /\ timer_queue' = Append(timer_queue, t)
    /\ notified' = TRUE
    /\ UNCHANGED tick
    /\ Called

\* furi_event_loop_timer_enqueue_request: the new request replaces one that is
\* still queued, but nothing may follow Free.
Enqueue(t, request, next_interval) ==
    /\ MayCall
    /\ timer[t].alloc /\ timer[t].request # "Free"
    /\ timer' = [timer EXCEPT ![t].request = request, ![t].next_interval = next_interval]
    /\ timer_queue' = Append(Unlink(timer_queue, t), t)
    /\ notified' = TRUE
    /\ UNCHANGED tick
    /\ Called

StartTimer(t, interval) == Enqueue(t, "Start", interval)
RestartTimer(t) == Enqueue(t, "Start", timer[t].interval)
StopTimer(t) == Enqueue(t, "Stop", timer[t].next_interval)
FreeTimer(t) == Enqueue(t, "Free", timer[t].next_interval)

\* furi_event_loop_tick_set, with a callback or with none
SetTick(interval, on) ==
    /\ MayCall
    /\ tick' = [on |-> on, interval |-> interval, prev_time |-> now]
    /\ UNCHANGED <<timer, timer_queue, notified>>
    /\ Called

-----------------------------------------------------------------------------
(* furi_event_loop_run *)

\* ... beginning with furi_event_loop_init_tick; a loop that was stopped may run again
Run ==
    /\ pc = "stopped"
    /\ pc' = "top"
    /\ tick' = IF tick.on THEN [tick EXCEPT !.prev_time = now] ELSE tick
    /\ UNCHANGED <<now, timer, timer_list, timer_queue, notified, sleep, late, fired, calls,
                   dropped>>

ComputeWait ==
    /\ pc = "top"
    /\ pc' = "computed"
    /\ sleep' = Least(TimerWaitTime, TickWaitTime)
    /\ calls' = 0
    /\ UNCHANGED <<now, timer, timer_list, timer_queue, tick, notified, late, fired, dropped>>

\* The time to sleep is a local of one iteration.
Awake == sleep' = 0 /\ late' = 0

\* xTaskNotifyWaitIndexed finds no notification and blocks.
FallAsleep ==
    /\ pc = "computed" /\ ~notified
    /\ pc' = "asleep"
    /\ UNCHANGED <<now, timer, timer_list, timer_queue, tick, notified, sleep, late,
                   fired, calls, dropped>>

\* It returns the Timer flag.
TakeTimerFlag ==
    /\ pc \in {"computed", "asleep"} /\ notified
    /\ notified' = FALSE
    /\ pc' = "queue"
    /\ Awake
    /\ UNCHANGED <<now, timer, timer_list, timer_queue, tick, fired, calls, dropped>>

\* Fault: the Timer flag is not restored.
OtherEventForgets ==
    /\ pc \in {"computed", "asleep"}
    /\ pc' = "code"
    /\ notified' = FALSE
    /\ calls' = 0
    /\ Awake
    /\ UNCHANGED <<now, timer, timer_list, timer_queue, tick, fired, dropped>>

\* It returns another flag, and keeps the Timer flag for later (restore_flags).
OtherEvent ==
    /\ pc \in {"computed", "asleep"}
    /\ pc' = "code"
    /\ calls' = 0
    /\ Awake
    /\ UNCHANGED <<now, timer, timer_list, timer_queue, tick, notified, fired, dropped>>

\* It returns Stop, and what else was notified is forgotten.
StopRun ==
    /\ pc \in {"computed", "asleep"}
    /\ pc' = "stopped"
    /\ notified' = FALSE
    /\ dropped' = (timer_queue # <<>>)
    /\ calls' = 0
    /\ Awake
    /\ UNCHANGED <<now, timer, timer_list, timer_queue, tick, fired>>

\* furi_event_loop_process_timer_queue, one request; its caller goes on when the
\* queue is empty.
ProcessRequest ==
    /\ pc \in {"queue", "freeing"} /\ timer_queue # <<>>
    /\ LET t == Head(timer_queue)
           rest == Unlink(timer_list, t)
           started == [timer[t] EXCEPT !.active = TRUE, !.interval = timer[t].next_interval,
                                       !.start_time = now, !.request = "None"]
       IN \/ /\ timer[t].request = "Start"
             /\ timer' = [timer EXCEPT ![t] = started]
             /\ timer_list' = Schedule(rest, t, started)
          \/ /\ timer[t].request = "Stop"
             /\ timer' = [timer EXCEPT ![t].active = FALSE, ![t].request = "None"]
             /\ timer_list' = IF timer[t].active THEN rest ELSE timer_list
          \/ /\ timer[t].request = "Free"
             /\ timer' = [timer EXCEPT ![t] = Unused]
             /\ timer_list' = IF timer[t].active THEN rest ELSE timer_list
    /\ timer_queue' = Tail(timer_queue)
    /\ UNCHANGED <<now, tick, notified, pc, sleep, late, fired, calls, dropped>>

QueueDone ==
    /\ pc \in {"queue", "freeing"} /\ timer_queue = <<>>
    /\ pc' = IF pc = "queue" THEN "top"
             ELSE IF timer_list = <<>> THEN "freed" ELSE "check failed"
    /\ dropped' = FALSE
    /\ UNCHANGED <<now, timer, timer_list, timer_queue, tick, notified, sleep, late, fired,
                   calls>>

\* Fault: one period at a time, as the tick does.
FireOnePeriod(t) ==
    LET f == timer[t]
        next == [f EXCEPT !.start_time = (@ + f.interval) % Wrap]
    IN  /\ IF t \in Periodic
           THEN /\ timer' = [timer EXCEPT ![t] = next]
                /\ timer_list' = Schedule(Unlink(timer_list, t), t, next)
           ELSE /\ timer' = [timer EXCEPT ![t].active = FALSE]
                /\ timer_list' = Unlink(timer_list, t)
        /\ fired' = t
        /\ UNCHANGED tick

\* furi_event_loop_process_expired_timers, with an expired timer in front: a
\* periodic timer starts again at the last multiple of its interval that has
\* passed (a division by zero yields zero on this processor).
Fire(t) ==
    LET f == timer[t]
        events == IF f.interval = 0 THEN 0 ELSE Since(f.start_time) \div f.interval
        next == [f EXCEPT !.start_time = (@ + f.interval * events) % Wrap]
    IN  /\ IF t \in Periodic
           THEN /\ timer' = [timer EXCEPT ![t] = next]
                /\ timer_list' = Schedule(Unlink(timer_list, t), t, next)
           ELSE /\ timer' = [timer EXCEPT ![t].active = FALSE]
                /\ timer_list' = Unlink(timer_list, t)
        /\ fired' = t
        /\ UNCHANGED tick

\* furi_event_loop_process_tick
FireTick ==
    /\ tick' = [tick EXCEPT !.prev_time = (@ + tick.interval) % Wrap]
    /\ fired' = TickEvent
    /\ UNCHANGED <<timer, timer_list>>

FrontIsExpired == IF timer_list = <<>> THEN FALSE ELSE IsExpired(Head(timer_list))
TickIsDue == tick.on /\ TickIsExpired

\* xTaskNotifyWaitIndexed times out.
TimeOut ==
    /\ pc = "asleep" /\ ~notified /\ sleep = 0
    /\ \/ /\ FrontIsExpired
          /\ Fire(Head(timer_list))
          /\ pc' = "code"
       \/ /\ ~FrontIsExpired /\ TickIsDue
          /\ FireTick
          /\ pc' = "code"
       \/ /\ ~FrontIsExpired /\ ~TickIsDue
          /\ pc' = "top"
          /\ UNCHANGED <<timer, timer_list, tick, fired>>
    /\ calls' = 0
    /\ Awake
    /\ UNCHANGED <<now, timer_queue, notified, dropped>>

CodeReturns ==
    /\ pc = "code"
    /\ pc' = "top"
    /\ fired' = NoTimer
    /\ UNCHANGED <<now, timer, timer_list, timer_queue, tick, notified, sleep, late, calls,
                   dropped>>

\* Fault: the list is checked before the queue is processed.
FreeLoopEarlyCheck ==
    /\ pc = "stopped"
    /\ \A t \in Timers : timer[t].alloc => timer[t].request = "Free"
    /\ pc' = IF timer_list = <<>> THEN "freeing" ELSE "check failed"
    /\ UNCHANGED <<now, timer, timer_list, timer_queue, tick, notified, sleep, late, fired,
                   calls, dropped>>

\* furi_event_loop_free, when the application has freed every timer
FreeLoop ==
    /\ pc = "stopped"
    /\ \A t \in Timers : timer[t].alloc => timer[t].request = "Free"
    /\ pc' = "freeing"
    /\ UNCHANGED <<now, timer, timer_list, timer_queue, tick, notified, sleep, late, fired,
                   calls, dropped>>

-----------------------------------------------------------------------------
\* One tick of the kernel's counter.  The thread is assumed to look at its timers
\* before their elapsed time wraps (a timer of interval zero is always expired).
Pass ==
    /\ pc \notin {"freed", "check failed"}
    /\ \A t \in Timers : timer[t].active /\ timer[t].interval > 0 =>
          Since(timer[t].start_time) < Wrap - 1
    /\ tick.on => Since(tick.prev_time) < Wrap - 1
    /\ pc = "asleep" => sleep > 0
    /\ pc = "computed" => late < MaxLate
    /\ now' = (now + 1) % Wrap
    /\ sleep' = IF pc = "asleep" /\ sleep # Forever THEN sleep - 1 ELSE sleep
    /\ late' = IF pc = "computed" THEN late + 1 ELSE late
    /\ UNCHANGED <<timer, timer_list, timer_queue, tick, notified, pc, fired, calls, dropped>>

Command ==
    \/ \E t \in Timers :
          \/ AllocTimer(t) \/ RestartTimer(t) \/ StopTimer(t) \/ FreeTimer(t)
          \/ \E interval \in Intervals : StartTimer(t, interval)
    \/ \E interval \in TickIntervals, on \in BOOLEAN : SetTick(interval, on)

\* The steps of furi_event_loop_run that wait for nobody.
LoopStep ==
    \/ ComputeWait \/ FallAsleep \/ TakeTimerFlag \/ ProcessRequest \/ QueueDone
    \/ TimeOut \/ CodeReturns

Next == Command \/ Run \/ LoopStep \/ OtherEvent \/ StopRun \/ FreeLoop \/ Pass

\* The loop's thread goes on when it is ready, and the kernel's counter does however
\* often the bounds of Pass hold it up.
Spec == Init /\ [][Next]_vars /\ WF_vars(LoopStep) /\ SF_vars(Pass)
-----------------------------------------------------------------------------
(* Properties *)

Time == 0..(Wrap - 1)

TimerState == [alloc : BOOLEAN, active : BOOLEAN, interval : Time, start_time : Time,
               next_interval : Time, request : Requests]

PCs == {"top", "computed", "asleep", "queue", "code", "stopped", "freeing",
        "freed", "check failed"}

\* Every variable has its type; times stay within the counter's width.
TypeOK ==
    /\ now \in Time /\ sleep \in Time
    /\ timer \in [Timers -> TimerState]
    /\ timer_list \in Seq(Timers) /\ timer_queue \in Seq(Timers)
    /\ tick \in [on : BOOLEAN, interval : Time, prev_time : Time]
    /\ notified \in BOOLEAN
    /\ pc \in PCs
    /\ late \in 0..MaxLate
    /\ fired \in Timers \cup {NoTimer, TickEvent}
    /\ calls \in 0..MaxCalls
    /\ dropped \in BOOLEAN

\* A timer is in the loop's list exactly while it is active and in its queue exactly
\* while a request is pending, once each and only while it is allocated: the two
\* links it carries are never followed after furi_event_loop_process_timer_queue has
\* freed it, whatever is started, stopped, restarted and freed from callbacks.
TimersLive ==
    /\ \A t \in Timers :
          /\ Has(timer_list, t) <=> timer[t].active
          /\ Has(timer_queue, t) <=> timer[t].request # "None"
          /\ timer[t].active \/ timer[t].request # "None" => timer[t].alloc
    /\ NoDuplicates(timer_list) /\ NoDuplicates(timer_queue)

\* TimerList_front is the first timer to expire (event_loop_timer.c:50 and :122), also
\* when the counter has wrapped since some of them started.
FrontExpiresFirst ==
    \A k, l \in 1..Len(timer_list) :
        k < l => RemainingTime(timer_list[k]) <= RemainingTime(timer_list[l])

\* The loop does not oversleep: when it sleeps, it wakes no later than any active timer
\* and the tick expire, but for the ticks lost before it fell asleep.
WakesInTime ==
    pc = "asleep" =>
        /\ \A t \in Timers : timer[t].active => sleep <= RemainingTime(t) + late
        /\ tick.on => sleep <= TickWaitTime + late

\* A timer's callback never starts after the timer was told to stop ("without firing its
\* callback", event_loop_timer.h:84), to restart or to be freed: the queued command is
\* carried out before timers are looked at again, in every run of the loop.  Excepted are
\* commands left in the queue by a run whose Stop took their flag with it and forgot it
\* (event_loop.c:232-234): until the queue is processed, a timer of the next run may fire
\* with its stop still queued.
CommandsComeFirst ==
    [][\A t \in Timers :
          pc = "asleep" /\ pc' = "code" /\ fired' = t =>
             timer[t].request = "None" \/ dropped]_vars

\* A periodic timer that fires late makes up for it: its next deadline lies ahead, so
\* missed periods are skipped and never fire in a burst.
PeriodsAreSkipped ==
    [][\A t \in Periodic :
          /\ pc = "asleep" /\ pc' = "code" /\ fired' = t
          /\ timer[t].interval > 0
          => ~IsExpired(t)']_vars

\* furi_event_loop_free finds its timer list empty when every timer was freed by the
\* application before, wherever the run was stopped.
FreeFindsNoTimer == pc # "check failed"

InRun == pc \in {"top", "computed", "asleep", "queue", "code"}

\* If other events leave the loop alone from some time on, an active timer fires unless
\* it is given another command or the run ends: no other timer, however short its
\* period and slow its callback, keeps it from firing.
TimerFires ==
    <>[][~OtherEvent]_vars =>
        \A t \in Timers :
            InRun /\ timer[t].active /\ timer[t].request = "None"
                ~> fired = t \/ timer[t].request # "None" \/ ~InRun

=============================================================================
