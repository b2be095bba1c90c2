-------------------------- MODULE MCEventLoopTimer --------------------------
(***************************************************************************)
(* Instances of EventLoopTimer for TLC.                                    *)
(***************************************************************************)
EXTENDS EventLoopTimer

\* Only differences to the counter matter, so states that are the same but for the
\* time of day are one.  A stopped timer's start, the next interval of a timer that is
\* not about to start and the times of a tick that is off are not read again.
Elapsed ==
    [t \in Timers |->
        [timer[t] EXCEPT !.start_time = IF timer[t].active THEN Since(@) ELSE 0,
                         !.next_interval = IF timer[t].request = "Start" THEN @ ELSE 0]]

RelativeTick ==
    IF tick.on THEN [tick EXCEPT !.prev_time = Since(@)] ELSE [on |-> FALSE]

RelativeTime ==
    <<Elapsed, timer_list, timer_queue, RelativeTick, notified, pc, sleep, late, fired,
      calls, dropped>>
=============================================================================
