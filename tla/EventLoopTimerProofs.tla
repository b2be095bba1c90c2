------------------------ MODULE EventLoopTimerProofs ------------------------
(***************************************************************************)
(* Proofs about EventLoopTimer, for any timers and intervals and any width *)
(* of the kernel's counter.                                                *)
(***************************************************************************)
EXTENDS EventLoopTimer, IntrusiveListProofs, TLAPS

-----------------------------------------------------------------------------
(* The parts of the inductive invariant.                                   *)

\* Timers and the tick have the intervals they were given, or none yet.
IntervalsGiven ==
    /\ \A t \in Timers : {timer[t].interval, timer[t].next_interval} \subseteq Intervals \union {0}
    /\ tick.interval \in TickIntervals \union {0}

\* Only code of the application runs on behalf of a timer or the tick.
CodeFired == pc # "code" => fired = NoTimer

\* Before the loop runs, sleeps or looks at its timers it knows that there are requests,
\* unless the Stop of an earlier run has forgotten it.
RequestsNotified ==
    pc \in {"stopped", "top", "computed", "asleep", "code"} /\ timer_queue # <<>> =>
        notified \/ dropped

\* The timers that furi_event_loop_free finds are about to be freed.
AllFreed == pc = "freeing" => \A t \in Timers : timer[t].alloc => timer[t].request = "Free"

\* The inductive invariant.
TimerInv ==
    /\ TypeOK
    /\ TimersLive
    /\ FrontExpiresFirst
    /\ IntervalsGiven
    /\ CodeFired
    /\ RequestsNotified
    /\ AllFreed
    /\ FreeFindsNoTimer

\* The time the loop has computed to sleep is that of the first timer or of the tick, or
\* there is neither.  It is not true of an interval of FuriWaitForever, which means never.
SleepInv ==
    pc \in {"computed", "asleep"} =>
        /\ \A t \in Timers : timer[t].active => sleep <= RemainingTime(t) + late
        /\ tick.on => sleep <= TickWaitTime + late
        /\ sleep = Forever /\ sleep > 0 => timer_list = <<>> /\ ~tick.on

-----------------------------------------------------------------------------
(* Time *)

\* The width of the counter and the intervals.
LEMMA Width ==
    /\ Wrap \in Nat \ {0} /\ MaxCalls \in Nat /\ MaxLate \in Nat
    /\ Intervals \subseteq Time /\ TickIntervals \subseteq Time
    /\ 0 \in Time /\ Forever \in Time /\ Time \subseteq Nat
    /\ NoTimer \notin Timers /\ TickEvent \notin Timers /\ NoTimer # TickEvent
    /\ Periodic \subseteq Timers
<1>1. /\ Wrap \in Nat \ {0} /\ MaxCalls \in Nat /\ MaxLate \in Nat
      /\ Intervals \subseteq 1..(Wrap - 1) /\ TickIntervals \subseteq 1..(Wrap - 1)
      /\ NoTimer \notin Timers /\ TickEvent \notin Timers /\ NoTimer # TickEvent
      /\ Periodic \subseteq Timers
    BY TimerAssumption DEF TimerAssumption
<1>2. 0 \in Time /\ Forever \in Time /\ Time \subseteq Nat /\ 1..(Wrap - 1) \subseteq Time
    BY <1>1 DEF Time, Forever
<1> QED
    BY <1>1, <1>2

\* The unsigned difference of two readings of the counter: the time between them.
LEMMA SinceIs ==
    ASSUME now \in Time, NEW t \in Time
    PROVE  /\ Since(t) \in Time
           /\ Since(t) = IF now >= t THEN now - t ELSE now - t + Wrap
<1>1. Wrap \in Nat \ {0} /\ now \in 0..(Wrap - 1) /\ t \in 0..(Wrap - 1)
    BY Width DEF Time
<1>2. CASE now >= t
    <2>1. now - t + Wrap \in Wrap..(2 * Wrap - 1)
        BY <1>1, <1>2
    <2>2. (now - t + Wrap) % Wrap = now - t + Wrap - Wrap
        BY <1>1, <2>1
    <2> QED
        BY <1>1, <1>2, <2>2 DEF Since, Time
<1>3. CASE ~(now >= t)
    <2>1. now - t + Wrap \in 0..(Wrap - 1)
        BY <1>1, <1>3
    <2>2. (now - t + Wrap) % Wrap = now - t + Wrap
        BY <1>1, <2>1
    <2> QED
        BY <1>1, <1>3, <2>1, <2>2 DEF Since, Time
<1> QED
    BY <1>2, <1>3

\* What is left of an interval.
LEMMA LeftIs ==
    ASSUME now \in Time, NEW t \in Time, NEW interval \in Time
    PROVE  Left(t, interval) \in Time /\ Left(t, interval) <= interval
<1>1. Since(t) \in Nat /\ interval \in 0..(Wrap - 1) /\ Wrap \in Nat
    BY SinceIs, Width DEF Time
<1> QED
    BY <1>1 DEF Left, Time

\* The tick of the counter takes one from it.
LEMMA TickPasses ==
    ASSUME now \in Time, now' = (now + 1) % Wrap, NEW t \in Time, NEW interval \in Time,
           interval > 0 => Since(t) < Wrap - 1,
           NEW left, left = Left(t, interval)
    PROVE  /\ now' \in Time
           /\ Left(t, interval)' = IF left = 0 THEN 0 ELSE left - 1
<1>1. Wrap \in Nat \ {0} /\ now \in 0..(Wrap - 1) /\ t \in 0..(Wrap - 1)
      /\ interval \in 0..(Wrap - 1)
    BY Width DEF Time
<1>2. now' = IF now + 1 = Wrap THEN 0 ELSE now + 1
    <2>1. CASE now + 1 = Wrap
        <3>1. Wrap \in Wrap..(2 * Wrap - 1)
            BY <1>1
        <3> QED
            BY <1>1, <2>1, <3>1
    <2>2. CASE now + 1 # Wrap
        <3>1. now + 1 \in 0..(Wrap - 1)
            BY <1>1, <2>2
        <3> QED
            BY <1>1, <2>2, <3>1
    <2> QED
        BY <2>1, <2>2
<1>3. now' \in Time
    BY <1>1, <1>2 DEF Time
<1>4. Since(t) = IF now >= t THEN now - t ELSE now - t + Wrap
    BY SinceIs
<1>5. Since(t)' = IF now' >= t THEN now' - t ELSE now' - t + Wrap
    <2>1. \A n \in Time : (n - t + Wrap) % Wrap = IF n >= t THEN n - t ELSE n - t + Wrap
        <3> SUFFICES ASSUME NEW n \in Time
                     PROVE  (n - t + Wrap) % Wrap = IF n >= t THEN n - t ELSE n - t + Wrap
            OBVIOUS
        <3>1. n \in 0..(Wrap - 1)
            BY DEF Time
        <3>2. CASE n >= t
            <4>1. n - t + Wrap \in Wrap..(2 * Wrap - 1)
                BY <1>1, <3>1, <3>2
            <4> QED
                BY <1>1, <3>1, <3>2, <4>1
        <3>3. CASE ~(n >= t)
            <4>1. n - t + Wrap \in 0..(Wrap - 1)
                BY <1>1, <3>1, <3>3
            <4> QED
                BY <1>1, <3>1, <3>3, <4>1
        <3> QED
            BY <3>2, <3>3
    <2> QED
        BY <1>3, <2>1 DEF Since
<1>6. interval = 0 => left = 0 /\ Left(t, interval)' = 0
    <2>1. Since(t) \in Nat /\ Since(t)' \in Nat
        BY <1>1, <1>2, <1>4, <1>5
    <2> QED
        BY <2>1 DEF Left
<1>7. interval > 0 => Since(t)' = Since(t) + 1
    BY <1>1, <1>2, <1>4, <1>5
<1>8. interval > 0 => Left(t, interval)' = IF left = 0 THEN 0 ELSE left - 1
    <2>1. Since(t) \in Nat
        BY <1>1, <1>4
    <2> QED
        BY <1>1, <1>7, <2>1 DEF Left
<1> QED
    BY <1>1, <1>3, <1>6, <1>8

\* A timer that starts again at the last multiple of its interval has not expired.
LEMMA SkippedPeriods ==
    ASSUME now \in Time, NEW t \in Time, NEW interval \in Time, interval > 0,
           NEW next, next = (t + interval * (Since(t) \div interval)) % Wrap
    PROVE  next \in Time /\ Since(next) < interval
<1>1. Wrap \in Nat \ {0} /\ now \in 0..(Wrap - 1) /\ t \in 0..(Wrap - 1)
      /\ interval \in 1..(Wrap - 1)
    BY Width DEF Time
<1>2. /\ Since(t) \in Nat
      /\ Since(t) = IF now >= t THEN now - t ELSE now - t + Wrap
    BY SinceIs DEF Time
<1> DEFINE skipped == interval * (Since(t) \div interval)
<1>3. skipped \in Nat /\ skipped <= Since(t) /\ Since(t) - skipped < interval
    <2>1. \A x \in Nat, y \in Nat \ {0} :
             x \div y \in Nat /\ y * (x \div y) <= x /\ x - y * (x \div y) < y
        OBVIOUS
    <2>2. \A x, y \in Nat : x * y \in Nat
        OBVIOUS
    <2> QED
        BY <1>1, <1>2, <2>1, <2>2
<1> HIDE DEF skipped
<1>4. next = (t + skipped) % Wrap
    BY DEF skipped
<1>5. next = IF t + skipped < Wrap THEN t + skipped ELSE t + skipped - Wrap
    <2>1. CASE t + skipped < Wrap
        <3>1. t + skipped \in 0..(Wrap - 1)
            BY <1>1, <1>3, <2>1
        <3> QED
            BY <1>1, <1>4, <2>1, <3>1
    <2>2. CASE ~(t + skipped < Wrap)
        <3>1. t + skipped \in Wrap..(2 * Wrap - 1)
            BY <1>1, <1>2, <1>3, <2>2
        <3>2. (t + skipped) % Wrap = t + skipped - Wrap
            BY <1>1, <1>3, <3>1
        <3> QED
            BY <1>4, <2>2, <3>2
    <2> QED
        BY <2>1, <2>2
<1>6. next \in Time
    BY <1>1, <1>2, <1>3, <1>5 DEF Time
<1>7. Since(next) = IF now >= next THEN now - next ELSE now - next + Wrap
    BY <1>6, SinceIs
<1>8. Since(next) = Since(t) - skipped
    BY <1>1, <1>2, <1>3, <1>5, <1>7
<1> QED
    BY <1>3, <1>6, <1>8

-----------------------------------------------------------------------------
(* The list of active timers *)

\* The types of the timers and of the two lists.
LEMMA TimerTypes ==
    ASSUME TypeOK
    PROVE  /\ now \in Time /\ sleep \in Time /\ late \in Nat
           /\ timer \in [Timers -> TimerState]
           /\ timer_list \in Seq(Timers) /\ timer_queue \in Seq(Timers)
           /\ tick \in [on : BOOLEAN, interval : Time, prev_time : Time]
           /\ \A t \in Timers : RemainingTime(t) \in Time /\ RemainingTime(t) \in Nat
                                /\ RemainingTime(t) <= timer[t].interval
<1>1. /\ now \in Time /\ sleep \in Time /\ late \in Nat
      /\ timer \in [Timers -> TimerState]
      /\ timer_list \in Seq(Timers) /\ timer_queue \in Seq(Timers)
      /\ tick \in [on : BOOLEAN, interval : Time, prev_time : Time]
    BY Width DEF TypeOK
<1>2. ASSUME NEW t \in Timers
      PROVE  RemainingTime(t) \in Time /\ RemainingTime(t) <= timer[t].interval
    <2>1. timer[t].start_time \in Time /\ timer[t].interval \in Time
        BY <1>1, <1>2 DEF TimerState
    <2> QED
        BY <1>1, <2>1, LeftIs DEF RemainingTime
<1> QED
    BY <1>1, <1>2, Width

\* A timer that is unlinked leaves the others in their order.
LEMMA Unscheduled ==
    ASSUME TypeOK, NoDuplicates(timer_list), FrontExpiresFirst, NEW t \in Timers,
           now' = now, \A u \in Timers \ {t} : timer'[u] = timer[u],
           timer_list' = Unlink(timer_list, t)
    PROVE  /\ timer_list' \in Seq(Timers) /\ NoDuplicates(timer_list')
           /\ \A u : Has(timer_list', u) <=> Has(timer_list, u) /\ u # t
           /\ FrontExpiresFirst'
<1>1. timer_list \in Seq(Timers)
    BY TimerTypes
<1>2. /\ timer_list' \in Seq(Timers) /\ NoDuplicates(timer_list')
      /\ \A u : Has(timer_list', u) <=> Has(timer_list, u) /\ u # t
      /\ \A k \in 1..Len(timer_list') : timer_list'[k] # t
    BY <1>1, UnlinkType, UnlinkElements, UnlinkHas
<1>3. \A u \in Timers : u # t => RemainingTime(u)' = RemainingTime(u)
    BY DEF RemainingTime, Left, Since
<1>4. ASSUME NEW k \in 1..Len(timer_list'), NEW l \in 1..Len(timer_list'), k < l
      PROVE  RemainingTime(timer_list[k])' <= RemainingTime(timer_list[l])'
    <2>1. PICK a, b \in 1..Len(timer_list) :
              a < b /\ timer_list'[k] = timer_list[a] /\ timer_list'[l] = timer_list[b]
        BY <1>1, <1>4, UnlinkOrder
    <2>2. RemainingTime(timer_list[a]) <= RemainingTime(timer_list[b])
        BY <2>1 DEF FrontExpiresFirst
    <2>3. /\ timer_list'[k] \in Timers /\ timer_list'[k] # t
          /\ timer_list'[l] \in Timers /\ timer_list'[l] # t
        BY <1>2, <1>4
    <2>4. RemainingTime(timer_list[k])' = RemainingTime(timer_list'[k])
          /\ RemainingTime(timer_list[l])' = RemainingTime(timer_list'[l])
        BY <2>3 DEF RemainingTime, Left, Since
    <2> QED
        BY <2>1, <2>2, <2>4
<1> QED
    BY <1>2, <1>4 DEF FrontExpiresFirst

\* furi_event_loop_schedule_timer keeps the timers in the order in which they expire.
LEMMA Scheduled ==
    ASSUME TypeOK, NoDuplicates(timer_list), FrontExpiresFirst, NEW t \in Timers,
           NEW f \in TimerState, now' = now, timer' = [timer EXCEPT ![t] = f],
           timer_list' = Schedule(Unlink(timer_list, t), t, f)
    PROVE  /\ timer_list' \in Seq(Timers) /\ NoDuplicates(timer_list')
           /\ \A u : Has(timer_list', u) <=> Has(timer_list, u) \/ u = t
           /\ FrontExpiresFirst'
<1> DEFINE rest == Unlink(timer_list, t)
           mine == Left(f.start_time, f.interval)
           before == {k \in 1..Len(rest) : mine >= RemainingTime(rest[k])}
           place == IF before = {} THEN 0 ELSE CHOOSE k \in before : \A l \in before : l <= k
<1>1. timer_list \in Seq(Timers) /\ timer \in [Timers -> TimerState] /\ now \in Time
    BY TimerTypes
<1>2. /\ rest \in Seq(Timers) /\ NoDuplicates(rest)
      /\ \A u : Has(rest, u) <=> Has(timer_list, u) /\ u # t
      /\ \A k \in 1..Len(rest) : rest[k] # t
    BY <1>1, UnlinkType, UnlinkElements, UnlinkHas
<1>3. \A k, l \in 1..Len(rest) : k < l => RemainingTime(rest[k]) <= RemainingTime(rest[l])
    <2> SUFFICES ASSUME NEW k \in 1..Len(rest), NEW l \in 1..Len(rest), k < l
                 PROVE  RemainingTime(rest[k]) <= RemainingTime(rest[l])
        OBVIOUS
    <2>1. PICK a, b \in 1..Len(timer_list) :
              a < b /\ rest[k] = timer_list[a] /\ rest[l] = timer_list[b]
        BY <1>1, UnlinkOrder
    <2> QED
        BY <2>1 DEF FrontExpiresFirst
<1> HIDE DEF rest
<1>4. \A k \in 1..Len(rest) : RemainingTime(rest[k]) \in Nat
    BY <1>2, TimerTypes
<1>5. mine \in Nat
    <2>1. f.start_time \in Time /\ f.interval \in Time
        BY DEF TimerState
    <2> QED
        BY <1>1, <2>1, LeftIs, Width
<1> HIDE DEF mine
<1>6. /\ place \in 0..Len(rest)
      /\ \A k \in 1..Len(rest) : k <= place => mine >= RemainingTime(rest[k])
      /\ \A k \in 1..Len(rest) : k > place => mine <= RemainingTime(rest[k])
    <2>1. CASE before = {}
        <3>1. place = 0
            BY <2>1
        <3>2. \A k \in 1..Len(rest) : ~(mine >= RemainingTime(rest[k]))
            BY <2>1
        <3> HIDE DEF place, before
        <3>3. Len(rest) \in Nat /\ \A k \in 1..Len(rest) : ~(k <= 0)
            BY <1>2
        <3> QED
            BY <1>4, <1>5, <3>1, <3>2, <3>3
    <2>2. CASE before # {}
        <3>1. before \in SUBSET (1..Len(rest)) /\ Len(rest) \in Nat
            BY <1>2
        <3>2. \E last \in before : \A k \in before : k <= last
            BY <2>2, <3>1, LastPosition
        <3>3. place \in before /\ \A l \in before : l <= place
            BY <2>2, <3>2
        <3> HIDE DEF place
        <3>4. place \in 1..Len(rest) /\ mine >= RemainingTime(rest[place])
            BY <3>3
        <3>5. ASSUME NEW k \in 1..Len(rest), k <= place
              PROVE  mine >= RemainingTime(rest[k])
            <4>1. k = place \/ RemainingTime(rest[k]) <= RemainingTime(rest[place])
                BY <1>3, <3>4, <3>5
            <4> QED
                BY <1>4, <1>5, <3>4, <4>1
        <3>6. ASSUME NEW k \in 1..Len(rest), k > place
              PROVE  mine <= RemainingTime(rest[k])
            <4>1. k \notin before
                BY <3>3, <3>4, <3>6
            <4> QED
                BY <1>4, <1>5, <4>1
        <3> QED
            BY <3>4, <3>5, <3>6
    <2> QED
        BY <2>1, <2>2
<1>7. timer_list' = InsertAfter(rest, place, t)
    BY DEF Schedule, mine, rest
<1> HIDE DEF place, before
<1>8. /\ timer_list' \in Seq(Timers) /\ NoDuplicates(timer_list')
      /\ \A u : Has(timer_list', u) <=> Has(timer_list, u) \/ u = t
      /\ Len(timer_list') = Len(rest) + 1
    <2>1. ~Has(rest, t)
        BY <1>2
    <2>2. \A u : Has(timer_list', u) <=> Has(rest, u) \/ u = t
        BY <1>2, <1>6, <1>7, InsertElements
    <2>3. \A u : Has(timer_list', u) <=> Has(timer_list, u) \/ u = t
        BY <1>2, <2>2
    <2>4. /\ timer_list' \in Seq(Timers) /\ NoDuplicates(timer_list')
          /\ Len(timer_list') = Len(rest) + 1
        BY <1>2, <1>6, <1>7, <2>1, InsertElements
    <2> QED
        BY <2>3, <2>4
<1>9. \A k \in 1..Len(timer_list') :
         timer_list'[k] = IF k <= place THEN rest[k] ELSE IF k = place + 1 THEN t ELSE rest[k - 1]
    BY <1>6, <1>7, <1>8 DEF InsertAfter
<1>10. /\ RemainingTime(t)' = mine
       /\ \A u \in Timers : u # t => RemainingTime(u)' = RemainingTime(u)
    BY <1>1 DEF RemainingTime, Left, Since, mine
<1> DEFINE left(k) == RemainingTime(timer_list[k])'
<1>11. ASSUME NEW k \in 1..Len(timer_list')
       PROVE  left(k) = IF k <= place THEN RemainingTime(rest[k])
                        ELSE IF k = place + 1 THEN mine ELSE RemainingTime(rest[k - 1])
    <2>2. CASE k <= place
        <3>1. k \in 1..Len(rest) /\ timer_list'[k] = rest[k]
            BY <1>6, <1>8, <1>9, <2>2
        <3> QED
            BY <1>2, <1>9, <1>10, <2>2, <3>1 DEF RemainingTime, Left, Since
    <2>3. CASE k = place + 1
        <3>1. timer_list'[k] = t /\ ~(k <= place)
            BY <1>6, <1>9, <2>3
        <3> QED
            BY <1>10, <2>3, <3>1 DEF RemainingTime, Left, Since
    <2>4. CASE k > place + 1
        <3>1. k - 1 \in 1..Len(rest) /\ timer_list'[k] = rest[k - 1] /\ ~(k <= place)
            BY <1>2, <1>6, <1>8, <1>9, <2>4
        <3> QED
            BY <1>2, <1>10, <2>4, <3>1 DEF RemainingTime, Left, Since
    <2> QED
        BY <1>6, <2>2, <2>3, <2>4
<1> HIDE DEF left
<1>12. ASSUME NEW k \in 1..Len(timer_list'), NEW l \in 1..Len(timer_list'), k < l
       PROVE  left(k) <= left(l)
    <2>1. /\ left(k) = IF k <= place THEN RemainingTime(rest[k])
                       ELSE IF k = place + 1 THEN mine ELSE RemainingTime(rest[k - 1])
          /\ left(l) = IF l <= place THEN RemainingTime(rest[l])
                       ELSE IF l = place + 1 THEN mine ELSE RemainingTime(rest[l - 1])
        BY <1>11
    <2>2. Len(rest) \in Nat /\ Len(timer_list') = Len(rest) + 1 /\ place \in 0..Len(rest)
        BY <1>2, <1>6, <1>8
    <2>3. CASE l <= place
        <3>1. k \in 1..Len(rest) /\ l \in 1..Len(rest) /\ k <= place
            BY <1>12, <2>2, <2>3
        <3> QED
            BY <1>3, <1>12, <2>1, <2>3, <3>1
    <2>4. CASE l = place + 1
        <3>1. k \in 1..Len(rest) /\ k <= place /\ ~(l <= place)
            BY <1>12, <2>2, <2>4
        <3> QED
            BY <1>4, <1>5, <1>6, <2>1, <2>4, <3>1
    <2>5. CASE l > place + 1 /\ k <= place
        <3>1. k \in 1..Len(rest) /\ l - 1 \in 1..Len(rest) /\ l - 1 > place
              /\ ~(l <= place) /\ l # place + 1
            BY <1>12, <2>2, <2>5
        <3>2. mine >= RemainingTime(rest[k]) /\ mine <= RemainingTime(rest[l - 1])
            BY <1>6, <2>5, <3>1
        <3> QED
            BY <1>4, <1>5, <2>1, <2>5, <3>1, <3>2
    <2>6. CASE l > place + 1 /\ k = place + 1
        <3>1. l - 1 \in 1..Len(rest) /\ l - 1 > place /\ ~(k <= place)
              /\ ~(l <= place) /\ l # place + 1
            BY <1>12, <2>2, <2>6
        <3>2. mine <= RemainingTime(rest[l - 1])
            BY <1>6, <3>1
        <3> QED
            BY <2>1, <2>6, <3>1, <3>2
    <2>7. CASE l > place + 1 /\ k > place + 1
        <3>1. k - 1 \in 1..Len(rest) /\ l - 1 \in 1..Len(rest) /\ k - 1 < l - 1
              /\ ~(k <= place) /\ k # place + 1 /\ ~(l <= place) /\ l # place + 1
            BY <1>12, <2>2, <2>7
        <3>2. RemainingTime(rest[k - 1]) <= RemainingTime(rest[l - 1])
            BY <1>3, <3>1
        <3> QED
            BY <2>1, <3>1, <3>2
    <2> QED
        BY <2>2, <2>3, <2>4, <2>5, <2>6, <2>7
<1> QED
    BY <1>8, <1>12 DEF FrontExpiresFirst, left

-----------------------------------------------------------------------------
(* The steps                                                               *)

\* The order of the list depends on the times only.
LEMMA SameOrder ==
    ASSUME FrontExpiresFirst, timer_list \in Seq(Timers), UNCHANGED <<now, timer_list>>,
           \A t \in Timers : timer'[t].start_time = timer[t].start_time
                             /\ timer'[t].interval = timer[t].interval
    PROVE  FrontExpiresFirst'
<1>1. \A t \in Timers : RemainingTime(t)' = RemainingTime(t)
    BY DEF RemainingTime, Left, Since
<1>2. \A k \in 1..Len(timer_list) :
         timer_list[k] \in Timers /\ RemainingTime(timer_list[k])' = RemainingTime(timer_list[k])
    BY <1>1 DEF RemainingTime, Left, Since
<1> QED
    BY <1>2 DEF FrontExpiresFirst

\* The lists say of every timer what its fields do, if they do for the one that changes.
LEMMA SameOthers ==
    ASSUME TypeOK, TimersLive, NEW t \in Timers, NEW f \in TimerState,
           timer' = [timer EXCEPT ![t] = f],
           NoDuplicates(timer_list'), NoDuplicates(timer_queue'),
           \A u \in Timers \ {t} : /\ Has(timer_list', u) <=> Has(timer_list, u)
                                   /\ Has(timer_queue', u) <=> Has(timer_queue, u),
           Has(timer_list', t) <=> f.active, Has(timer_queue', t) <=> f.request # "None",
           f.active \/ f.request # "None" => f.alloc
    PROVE  TimersLive'
<1>1. timer' \in [Timers -> TimerState] /\ timer'[t] = f
      /\ \A u \in Timers : u # t => timer'[u] = timer[u]
    BY TimerTypes
<1>2. ASSUME NEW u \in Timers
      PROVE  /\ Has(timer_list', u) <=> timer'[u].active
             /\ Has(timer_queue', u) <=> timer'[u].request # "None"
             /\ timer'[u].active \/ timer'[u].request # "None" => timer'[u].alloc
    <2>1. CASE u = t
        BY <1>1, <2>1
    <2>2. CASE u # t
        BY <1>1, <1>2, <2>2 DEF TimersLive
    <2> QED
        BY <2>1, <2>2
<1> QED
    BY <1>2 DEF TimersLive

\* Steps that change no timer and no list.
LEMMA SameTimers ==
    ASSUME TypeOK, TimersLive, FrontExpiresFirst, UNCHANGED <<now, timer, timer_list, timer_queue>>
    PROVE  /\ now' \in Time /\ timer' \in [Timers -> TimerState]
           /\ timer_list' \in Seq(Timers) /\ timer_queue' \in Seq(Timers)
           /\ TimersLive' /\ FrontExpiresFirst'
<1>1. now' \in Time /\ timer' \in [Timers -> TimerState]
      /\ timer_list' \in Seq(Timers) /\ timer_queue' \in Seq(Timers)
    BY TimerTypes
<1>2. TimersLive'
    BY DEF TimersLive
<1>3. FrontExpiresFirst'
    BY SameOrder, TimerTypes
<1> QED
    BY <1>1, <1>2, <1>3

\* The types after a step, part by part.
LEMMA TypesAfter ==
    ASSUME now' \in Time, timer' \in [Timers -> TimerState],
           timer_list' \in Seq(Timers), timer_queue' \in Seq(Timers),
           sleep' \in Time, tick' \in [on : BOOLEAN, interval : Time, prev_time : Time],
           notified' \in BOOLEAN, pc' \in PCs, late' \in 0..MaxLate,
           fired' \in Timers \cup {NoTimer, TickEvent}, calls' \in 0..MaxCalls,
           dropped' \in BOOLEAN
    PROVE  TypeOK'
BY DEF TypeOK

\* The commands and the callbacks: what a timer is told is queued.
LEMMA AllocTimerInv ==
    ASSUME TimerInv, NEW t \in Timers, AllocTimer(t)
    PROVE  TimerInv'
<1>a. TypeOK /\ TimersLive /\ FrontExpiresFirst /\ IntervalsGiven /\ CodeFired
      /\ RequestsNotified /\ AllFreed /\ FreeFindsNoTimer
    BY DEF TimerInv
<1>b. UNCHANGED <<now, timer_list, timer_queue, tick, notified, pc, sleep, late, fired, dropped>>
    BY DEF AllocTimer, Called
<1> DEFINE f == [Unused EXCEPT !.alloc = TRUE]
<1>1. ~timer[t].alloc /\ timer' = [timer EXCEPT ![t] = f] /\ pc \in {"code", "stopped"}
      /\ calls < MaxCalls /\ calls' = calls + 1
    BY DEF AllocTimer, MayCall, Called
<1>2. f \in TimerState /\ ~f.active /\ f.request = "None" /\ f.interval = 0 /\ f.next_interval = 0
    BY Width DEF Unused, TimerState, Requests
<1> HIDE DEF f
<1>3. /\ timer \in [Timers -> TimerState] /\ timer' \in [Timers -> TimerState]
      /\ timer'[t] = f /\ \A u \in Timers : u # t => timer'[u] = timer[u]
      /\ timer_list \in Seq(Timers)
    BY <1>a, <1>1, <1>2, TimerTypes
<1>4. TypeOK'
    BY <1>a, <1>b, <1>1, <1>3, Width DEF TypeOK
<1>5. TimersLive'
    <2>1. ~Has(timer_list, t) /\ ~Has(timer_queue, t)
        BY <1>a, <1>1, <1>3 DEF TimersLive, TimerState
    <2> QED
        BY <1>a, <1>b, <1>1, <1>2, <2>1, SameOthers DEF TimersLive
<1>6. FrontExpiresFirst'
    <2>1. ~Has(timer_list, t)
        BY <1>a, <1>1, <1>3 DEF TimersLive, TimerState
    <2>2. \A k \in 1..Len(timer_list) : timer_list[k] \in Timers /\ timer_list[k] # t
        BY <1>3, <2>1 DEF Has
    <2>3. \A k \in 1..Len(timer_list) :
             RemainingTime(timer_list[k])' = RemainingTime(timer_list[k])
        BY <1>b, <1>3, <2>2 DEF RemainingTime, Left, Since
    <2> QED
        BY <1>a, <1>b, <2>3 DEF FrontExpiresFirst
<1>7. IntervalsGiven'
    BY <1>a, <1>b, <1>2, <1>3 DEF IntervalsGiven
<1>8. CodeFired' /\ RequestsNotified' /\ AllFreed' /\ FreeFindsNoTimer'
    BY <1>a, <1>b, <1>1 DEF CodeFired, RequestsNotified, AllFreed, FreeFindsNoTimer
<1> QED
    BY <1>4, <1>5, <1>6, <1>7, <1>8 DEF TimerInv

\* A call of the application (start, restart, stop, free) that queues a request keeps the
\* invariant: furi_event_loop_timer_enqueue_request links a timer at most once.
LEMMA EnqueueInv ==
    ASSUME TimerInv, NEW t \in Timers, NEW request \in {"Start", "Stop", "Free"},
           NEW next_interval \in Intervals \union {0}, Enqueue(t, request, next_interval)
    PROVE  TimerInv'
<1>a. TypeOK /\ TimersLive /\ FrontExpiresFirst /\ IntervalsGiven /\ CodeFired
      /\ RequestsNotified /\ AllFreed /\ FreeFindsNoTimer
    BY DEF TimerInv
<1>b. UNCHANGED <<now, timer_list, tick, pc, sleep, late, fired, dropped>> /\ notified' = TRUE
    BY DEF Enqueue, Called
<1> DEFINE f == [timer[t] EXCEPT !.request = request, !.next_interval = next_interval]
           rest == Unlink(timer_queue, t)
<1>1. timer[t].alloc /\ pc \in {"code", "stopped"}
      /\ calls < MaxCalls /\ calls' = calls + 1
      /\ timer_queue' = Append(rest, t)
    BY DEF Enqueue, MayCall, Called
<1>2. /\ timer \in [Timers -> TimerState] /\ timer[t] \in TimerState
      /\ timer_list \in Seq(Timers) /\ timer_queue \in Seq(Timers)
    BY <1>a, TimerTypes
<1>3. timer' = [timer EXCEPT ![t] = f]
    BY <1>2 DEF Enqueue, TimerState
<1>4. /\ f \in TimerState /\ f.active = timer[t].active /\ f.request = request
      /\ f.alloc = timer[t].alloc /\ f.interval = timer[t].interval
      /\ f.start_time = timer[t].start_time /\ f.next_interval = next_interval
    BY <1>2, Width DEF TimerState, Requests
<1> HIDE DEF f, rest
<1>5. /\ timer' \in [Timers -> TimerState]
      /\ timer'[t] = f /\ \A u \in Timers : u # t => timer'[u] = timer[u]
    BY <1>2, <1>3, <1>4
<1>6. /\ rest \in Seq(Timers) /\ NoDuplicates(rest)
      /\ \A u : Has(rest, u) <=> Has(timer_queue, u) /\ u # t
    BY <1>2, <1>a, UnlinkType, UnlinkElements, UnlinkHas DEF rest, TimersLive
<1>7. /\ timer_queue' \in Seq(Timers) /\ NoDuplicates(timer_queue')
      /\ \A u : Has(timer_queue', u) <=> Has(rest, u) \/ u = t
    <2>1. ~Has(rest, t)
        BY <1>6
    <2> QED
        BY <1>1, <1>6, <2>1, AppendElements
<1>8. TypeOK'
    BY <1>a, <1>b, <1>1, <1>5, <1>7, Width DEF TypeOK
<1>9. TimersLive'
    <2>1. Has(timer_list, t) <=> f.active
        BY <1>a, <1>4 DEF TimersLive
    <2>2. \A u \in Timers \ {t} : Has(timer_queue', u) <=> Has(timer_queue, u)
        BY <1>6, <1>7
    <2>3. NoDuplicates(timer_list') /\ NoDuplicates(timer_queue')
        BY <1>a, <1>b, <1>7 DEF TimersLive
    <2>4. Has(timer_queue', t) /\ f.request # "None" /\ f.alloc
        BY <1>1, <1>4, <1>7
    <2> QED
        BY <1>a, <1>b, <1>3, <1>4, <2>1, <2>2, <2>3, <2>4, SameOthers
<1>10. FrontExpiresFirst'
    <2>1. \A u \in Timers : timer'[u].start_time = timer[u].start_time
                            /\ timer'[u].interval = timer[u].interval
        BY <1>4, <1>5
    <2> QED
        BY <1>a, <1>b, <1>2, <2>1, SameOrder
<1>11. IntervalsGiven'
    BY <1>a, <1>b, <1>4, <1>5 DEF IntervalsGiven
<1>12. CodeFired' /\ RequestsNotified' /\ AllFreed' /\ FreeFindsNoTimer'
    BY <1>a, <1>b, <1>1 DEF CodeFired, RequestsNotified, AllFreed, FreeFindsNoTimer
<1> QED
    BY <1>8, <1>9, <1>10, <1>11, <1>12 DEF TimerInv

\* Each call of the timer and tick API keeps the invariant.
LEMMA CommandInv ==
    ASSUME TimerInv, Command
    PROVE  TimerInv'
<1>a. TypeOK /\ TimersLive /\ FrontExpiresFirst /\ IntervalsGiven /\ CodeFired
      /\ RequestsNotified /\ AllFreed /\ FreeFindsNoTimer
    BY DEF TimerInv
<1>1. ASSUME NEW interval \in TickIntervals, NEW on \in BOOLEAN, SetTick(interval, on)
      PROVE  TimerInv'
    <2>1. UNCHANGED <<now, timer, timer_list, timer_queue, notified, pc, sleep, late, fired, dropped>>
        BY <1>1 DEF SetTick, Called
    <2>2. pc \in {"code", "stopped"} /\ calls < MaxCalls /\ calls' = calls + 1
        BY <1>1 DEF SetTick, MayCall, Called
    <2>3. tick' = [on |-> on, interval |-> interval, prev_time |-> now]
        BY <1>1 DEF SetTick
    <2>4. now \in Time
        BY <1>a, TimerTypes
    <2>5. TypeOK'
        BY <1>a, <1>1, <2>1, <2>2, <2>3, <2>4, Width DEF TypeOK
    <2>6. TimersLive' /\ FrontExpiresFirst'
        BY <1>a, <2>1, SameTimers
    <2>7. IntervalsGiven'
        BY <1>a, <1>1, <2>1, <2>3 DEF IntervalsGiven
    <2>8. CodeFired' /\ RequestsNotified' /\ AllFreed' /\ FreeFindsNoTimer'
        BY <1>a, <2>1 DEF CodeFired, RequestsNotified, AllFreed, FreeFindsNoTimer
    <2> QED
        BY <2>5, <2>6, <2>7, <2>8 DEF TimerInv
<1>2. ASSUME NEW t \in Timers, NEW interval \in Intervals, StartTimer(t, interval)
      PROVE  TimerInv'
    BY <1>2, EnqueueInv DEF StartTimer
<1>3. ASSUME NEW t \in Timers, RestartTimer(t) \/ StopTimer(t) \/ FreeTimer(t)
      PROVE  TimerInv'
    <2>1. timer[t].interval \in Intervals \union {0} /\ timer[t].next_interval \in Intervals \union {0}
        BY <1>a DEF IntervalsGiven
    <2> QED
        BY <1>3, <2>1, EnqueueInv DEF RestartTimer, StopTimer, FreeTimer
<1> QED
    BY <1>1, <1>2, <1>3, AllocTimerInv DEF Command

\* The steps of the loop that change no timer: whether there are requests, and who fired,
\* is as the place the thread goes to demands.
LEMMA LoopInv ==
    ASSUME TimerInv,
           \/ Run \/ ComputeWait \/ FallAsleep \/ TakeTimerFlag \/ QueueDone \/ CodeReturns
           \/ OtherEvent \/ StopRun \/ FreeLoop
    PROVE  TimerInv'
<1>a. TypeOK /\ TimersLive /\ FrontExpiresFirst /\ IntervalsGiven /\ CodeFired
      /\ RequestsNotified /\ AllFreed /\ FreeFindsNoTimer
    BY DEF TimerInv
<1>b. UNCHANGED <<now, timer, timer_list, timer_queue>>
    BY DEF Run, ComputeWait, FallAsleep, TakeTimerFlag, QueueDone, CodeReturns, OtherEvent,
           StopRun, FreeLoop
<1>1. /\ now' \in Time /\ timer' \in [Timers -> TimerState]
      /\ timer_list' \in Seq(Timers) /\ timer_queue' \in Seq(Timers)
      /\ TimersLive' /\ FrontExpiresFirst'
    BY <1>a, <1>b, SameTimers
<1>2. /\ now \in Time /\ sleep \in Time /\ late \in 0..MaxLate /\ pc \in PCs
      /\ tick \in [on : BOOLEAN, interval : Time, prev_time : Time] /\ notified \in BOOLEAN
      /\ fired \in Timers \cup {NoTimer, TickEvent} /\ calls \in 0..MaxCalls
      /\ timer_list \in Seq(Timers) /\ timer_queue \in Seq(Timers) /\ dropped \in BOOLEAN
    BY <1>a DEF TypeOK
<1>3. 0 \in Time /\ 0 \in 0..MaxLate /\ 0 \in 0..MaxCalls
    BY Width
<1> DEFINE Goal == TypeOK' /\ IntervalsGiven' /\ CodeFired' /\ RequestsNotified' /\ AllFreed'
                   /\ FreeFindsNoTimer'
<1>4. ASSUME pc' \in PCs \ {"freeing", "check failed"}, sleep' \in Time, late' \in 0..MaxLate,
             calls' \in 0..MaxCalls, notified' \in BOOLEAN, dropped' \in BOOLEAN,
             tick' \in [on : BOOLEAN, interval : Time, prev_time : Time],
             tick'.interval = tick.interval,
             fired' = fired \/ fired' = NoTimer,
             pc' # "code" => fired' = NoTimer,
             pc' \in {"stopped", "top", "computed", "asleep", "code"} /\ timer_queue # <<>>
                => notified' \/ dropped'
      PROVE  Goal
    <2>1. TypeOK'
        BY <1>1, <1>2, <1>4, TypesAfter
    <2>2. IntervalsGiven'
        BY <1>a, <1>b, <1>4 DEF IntervalsGiven
    <2> QED
        BY <1>b, <1>4, <2>1, <2>2 DEF CodeFired, RequestsNotified, AllFreed, FreeFindsNoTimer
<1>5. CASE Run
    <2>1. tick' \in [on : BOOLEAN, interval : Time, prev_time : Time]
          /\ tick'.interval = tick.interval
        BY <1>2, <1>5 DEF Run
    <2>2. pc = "stopped" /\ pc' = "top"
          /\ UNCHANGED <<notified, sleep, late, fired, calls, dropped>>
        BY <1>5 DEF Run
    <2>3. Goal
        BY <1>a, <1>2, <1>4, <2>1, <2>2 DEF CodeFired, RequestsNotified, PCs
    <2> QED
        BY <1>1, <2>3 DEF TimerInv
<1>6. CASE ComputeWait
    <2>1. sleep' \in Time
        <3>1. TimerWaitTime \in Time
            <4>1. timer_list # <<>> => Head(timer_list) \in Timers
                BY <1>2
            <4> QED
                BY <1>a, <4>1, TimerTypes, Width DEF TimerWaitTime
        <3>2. TickWaitTime \in Time
            BY <1>2, LeftIs, Width DEF TickWaitTime
        <3> QED
            BY <1>6, <3>1, <3>2 DEF ComputeWait, Least
    <2>2. pc = "top" /\ pc' = "computed" /\ calls' = 0
          /\ UNCHANGED <<tick, notified, late, fired, dropped>>
        BY <1>6 DEF ComputeWait
    <2>3. Goal
        BY <1>a, <1>2, <1>3, <1>4, <2>1, <2>2 DEF CodeFired, RequestsNotified, PCs
    <2> QED
        BY <1>1, <2>3 DEF TimerInv
<1>7. CASE FallAsleep
    <2>1. pc = "computed" /\ pc' = "asleep"
          /\ UNCHANGED <<tick, notified, sleep, late, fired, calls, dropped>>
        BY <1>7 DEF FallAsleep
    <2>2. Goal
        BY <1>a, <1>2, <1>4, <2>1 DEF CodeFired, RequestsNotified, PCs
    <2> QED
        BY <1>1, <2>2 DEF TimerInv
<1>8. CASE TakeTimerFlag
    <2>1. pc \in {"computed", "asleep"} /\ pc' = "queue" /\ notified' = FALSE
          /\ sleep' = 0 /\ late' = 0 /\ UNCHANGED <<tick, fired, calls, dropped>>
        BY <1>8 DEF TakeTimerFlag, Awake
    <2>2. Goal
        BY <1>a, <1>2, <1>3, <1>4, <2>1 DEF CodeFired, PCs
    <2> QED
        BY <1>1, <2>2 DEF TimerInv
<1>9. CASE QueueDone
    <2>1. pc \in {"queue", "freeing"} /\ timer_queue = <<>> /\ dropped' = FALSE
          /\ UNCHANGED <<tick, notified, sleep, late, fired, calls>>
        BY <1>9 DEF QueueDone
    <2>2. pc = "freeing" => timer_list = <<>>
        <3>1. \A t : ~Has(timer_queue, t)
            BY <2>1 DEF Has
        <3>2. pc = "freeing" => \A t \in Timers : ~Has(timer_list, t)
            BY <1>a, <3>1 DEF AllFreed, TimersLive
        <3>3. timer_list # <<>> => Head(timer_list) \in Timers /\ Has(timer_list, Head(timer_list))
            BY <1>a, <1>2, TailElements DEF TimersLive
        <3> QED
            BY <3>2, <3>3
    <2>3. pc' \in {"top", "freed"}
        BY <1>9, <2>1, <2>2 DEF QueueDone
    <2>4. Goal
        BY <1>a, <1>2, <1>4, <2>1, <2>3 DEF CodeFired, PCs
    <2> QED
        BY <1>1, <2>4 DEF TimerInv
<1>10. CASE CodeReturns
    <2>1. pc = "code" /\ pc' = "top" /\ fired' = NoTimer
          /\ UNCHANGED <<tick, notified, sleep, late, calls, dropped>>
        BY <1>10 DEF CodeReturns
    <2>2. Goal
        BY <1>a, <1>2, <1>4, <2>1 DEF RequestsNotified, PCs
    <2> QED
        BY <1>1, <2>2 DEF TimerInv
<1>11. CASE OtherEvent
    <2>1. pc \in {"computed", "asleep"} /\ pc' = "code" /\ calls' = 0
          /\ sleep' = 0 /\ late' = 0 /\ UNCHANGED <<tick, notified, fired, dropped>>
        BY <1>11 DEF OtherEvent, Awake
    <2>2. Goal
        BY <1>a, <1>2, <1>3, <1>4, <2>1 DEF RequestsNotified, PCs
    <2> QED
        BY <1>1, <2>2 DEF TimerInv
<1>12. CASE StopRun
    <2>1. pc \in {"computed", "asleep"} /\ pc' = "stopped" /\ calls' = 0 /\ notified' = FALSE
          /\ sleep' = 0 /\ late' = 0 /\ UNCHANGED <<tick, fired>>
          /\ dropped' = (timer_queue # <<>>)
        BY <1>12 DEF StopRun, Awake
    <2>2. Goal
        BY <1>a, <1>2, <1>3, <1>4, <2>1 DEF CodeFired, PCs
    <2> QED
        BY <1>1, <2>2 DEF TimerInv
<1>13. CASE FreeLoop
    <2>1. pc = "stopped" /\ pc' = "freeing"
          /\ UNCHANGED <<tick, notified, sleep, late, fired, calls, dropped>>
          /\ \A t \in Timers : timer[t].alloc => timer[t].request = "Free"
        BY <1>13 DEF FreeLoop
    <2>2. TypeOK'
        BY <1>1, <1>2, <2>1, TypesAfter DEF PCs
    <2>3. IntervalsGiven'
        BY <1>a, <1>b, <2>1 DEF IntervalsGiven
    <2>4. CodeFired' /\ RequestsNotified' /\ AllFreed' /\ FreeFindsNoTimer'
        BY <1>a, <1>b, <2>1 DEF CodeFired, RequestsNotified, AllFreed, FreeFindsNoTimer
    <2> QED
        BY <1>1, <2>2, <2>3, <2>4 DEF TimerInv
<1> QED
    BY <1>5, <1>6, <1>7, <1>8, <1>9, <1>10, <1>11, <1>12, <1>13

\* furi_event_loop_process_timer_queue carries out one request.
LEMMA ProcessRequestInv ==
    ASSUME TimerInv, ProcessRequest
    PROVE  TimerInv'
<1>a. TypeOK /\ TimersLive /\ FrontExpiresFirst /\ IntervalsGiven /\ CodeFired
      /\ RequestsNotified /\ AllFreed /\ FreeFindsNoTimer
    BY DEF TimerInv
<1>b. UNCHANGED <<now, tick, notified, pc, sleep, late, fired, calls, dropped>>
      /\ pc \in {"queue", "freeing"} /\ timer_queue # <<>> /\ timer_queue' = Tail(timer_queue)
    BY DEF ProcessRequest
<1> DEFINE t == Head(timer_queue)
           rest == Unlink(timer_list, t)
           started == [timer[t] EXCEPT !.active = TRUE, !.interval = timer[t].next_interval,
                                       !.start_time = now, !.request = "None"]
           stopped == [timer[t] EXCEPT !.active = FALSE, !.request = "None"]
<1>1. /\ timer \in [Timers -> TimerState] /\ timer_list \in Seq(Timers)
      /\ timer_queue \in Seq(Timers) /\ now \in Time
      /\ NoDuplicates(timer_list) /\ NoDuplicates(timer_queue)
    BY <1>a, TimerTypes DEF TimersLive
<1>2. /\ t \in Timers /\ Has(timer_queue, t) /\ timer_queue' \in Seq(Timers)
      /\ NoDuplicates(timer_queue')
      /\ \A u : Has(timer_queue', u) <=> Has(timer_queue, u) /\ u # t
    BY <1>1, <1>b, TailElements
<1>3. timer[t] \in TimerState /\ timer[t].alloc /\ (Has(timer_list, t) <=> timer[t].active)
      /\ timer[t].active \in BOOLEAN
    BY <1>a, <1>1, <1>2 DEF TimersLive, TimerState
<1>4. \/ /\ timer[t].request = "Start" /\ timer' = [timer EXCEPT ![t] = started]
         /\ timer_list' = Schedule(rest, t, started)
      \/ /\ timer[t].request = "Stop"
         /\ timer' = [timer EXCEPT ![t].active = FALSE, ![t].request = "None"]
         /\ timer_list' = IF timer[t].active THEN rest ELSE timer_list
      \/ /\ timer[t].request = "Free" /\ timer' = [timer EXCEPT ![t] = Unused]
         /\ timer_list' = IF timer[t].active THEN rest ELSE timer_list
    BY DEF ProcessRequest
<1>5. started \in TimerState /\ started.active /\ started.request = "None" /\ started.alloc
      /\ started.interval = timer[t].next_interval
      /\ started.next_interval = timer[t].next_interval
    BY <1>1, <1>3 DEF TimerState, Requests
<1>6. stopped \in TimerState /\ ~stopped.active /\ stopped.request = "None"
      /\ stopped.interval = timer[t].interval /\ stopped.next_interval = timer[t].next_interval
    BY <1>3 DEF TimerState, Requests
<1>7. Unused \in TimerState /\ ~Unused.active /\ Unused.request = "None" /\ ~Unused.alloc
      /\ Unused.interval = 0 /\ Unused.next_interval = 0
    BY Width DEF Unused, TimerState, Requests
<1>8. timer[t].request = "Stop" => timer' = [timer EXCEPT ![t] = stopped]
    BY <1>1, <1>2, <1>4
<1>9. /\ timer[t].interval \in Intervals \union {0} /\ timer[t].next_interval \in Intervals \union {0}
    BY <1>a, <1>2 DEF IntervalsGiven
<1> HIDE DEF t, started, stopped
<1>10. CASE timer[t].request = "Start"
    <2>1. timer' = [timer EXCEPT ![t] = started] /\ timer_list' = Schedule(rest, t, started)
        BY <1>4, <1>10
    <2>2. /\ timer_list' \in Seq(Timers) /\ NoDuplicates(timer_list')
          /\ \A u : Has(timer_list', u) <=> Has(timer_list, u) \/ u = t
          /\ FrontExpiresFirst'
        BY <1>a, <1>b, <1>1, <1>2, <1>5, <2>1, Scheduled
    <2>3. TimersLive'
        BY <1>a, <1>2, <1>5, <2>1, <2>2, SameOthers
    <2>4. TypeOK'
        BY <1>a, <1>b, <1>1, <1>2, <1>5, <2>1, <2>2 DEF TypeOK
    <2>5. IntervalsGiven'
        BY <1>a, <1>b, <1>1, <1>2, <1>5, <1>9, <2>1 DEF IntervalsGiven
    <2>6. AllFreed'
        BY <1>a, <1>b, <1>2, <1>3, <1>10 DEF AllFreed
    <2>7. CodeFired' /\ RequestsNotified' /\ FreeFindsNoTimer'
        BY <1>a, <1>b DEF CodeFired, RequestsNotified, FreeFindsNoTimer
    <2> QED
        BY <2>2, <2>3, <2>4, <2>5, <2>6, <2>7 DEF TimerInv
<1>11. CASE timer[t].request \in {"Stop", "Free"}
    <2>1. PICK f \in {stopped, Unused} : timer' = [timer EXCEPT ![t] = f]
        BY <1>4, <1>8, <1>11
    <2>2. f \in TimerState /\ ~f.active /\ f.request = "None"
          /\ {f.interval, f.next_interval} \subseteq Intervals \union {0}
        BY <1>6, <1>7, <1>9, <2>1
    <2>3. /\ timer' \in [Timers -> TimerState] /\ timer'[t] = f
          /\ \A u \in Timers \ {t} : timer'[u] = timer[u]
        BY <1>1, <1>2, <2>1, <2>2
    <2>4. timer_list' = IF timer[t].active THEN rest ELSE timer_list
        BY <1>4, <1>11
    <2>5. /\ timer_list' \in Seq(Timers) /\ NoDuplicates(timer_list')
          /\ \A u : Has(timer_list', u) <=> Has(timer_list, u) /\ u # t
          /\ FrontExpiresFirst'
        <3>1. timer_list' = rest
            <4>1. ~Has(timer_list, t) => Unlink(timer_list, t) = timer_list
                BY DEF Unlink
            <4> QED
                BY <1>3, <2>4, <4>1
        <3> QED
            BY <1>a, <1>b, <1>1, <1>2, <2>3, <3>1, Unscheduled
    <2>6. TimersLive'
        BY <1>a, <1>2, <2>1, <2>2, <2>5, SameOthers
    <2>7. TypeOK'
        BY <1>a, <1>b, <1>2, <2>3, <2>5 DEF TypeOK
    <2>8. IntervalsGiven'
        BY <1>a, <1>b, <2>2, <2>3 DEF IntervalsGiven
    <2>9. AllFreed'
        <3>1. pc = "freeing" => timer[t].request = "Free"
            BY <1>a, <1>2, <1>3 DEF AllFreed
        <3>2. pc = "freeing" => timer' = [timer EXCEPT ![t] = Unused]
            BY <1>4, <3>1
        <3>3. pc = "freeing" => ~timer'[t].alloc
            BY <1>1, <1>2, <1>7, <3>2
        <3> QED
            BY <1>a, <1>b, <2>3, <3>3 DEF AllFreed
    <2>10. CodeFired' /\ RequestsNotified' /\ FreeFindsNoTimer'
        BY <1>a, <1>b DEF CodeFired, RequestsNotified, FreeFindsNoTimer
    <2> QED
        BY <2>5, <2>6, <2>7, <2>8, <2>9, <2>10 DEF TimerInv
<1> QED
    BY <1>4, <1>10, <1>11

\* A timer that fires: a periodic one starts again, another one is over.
LEMMA FireIs ==
    ASSUME TimerInv, NEW t \in Timers, Fire(t), now' = now, timer_queue' = timer_queue,
           timer[t].active
    PROVE  /\ timer' \in [Timers -> TimerState] /\ timer_list' \in Seq(Timers)
           /\ TimersLive' /\ FrontExpiresFirst' /\ fired' = t /\ tick' = tick
           /\ \A u \in Timers : /\ timer'[u].interval = timer[u].interval
                                /\ timer'[u].next_interval = timer[u].next_interval
<1>a. TypeOK /\ TimersLive /\ FrontExpiresFirst
    BY DEF TimerInv
<1> DEFINE f == timer[t]
           events == IF f.interval = 0 THEN 0 ELSE Since(f.start_time) \div f.interval
           next == [f EXCEPT !.start_time = (@ + f.interval * events) % Wrap]
           over == [f EXCEPT !.active = FALSE]
<1>1. /\ timer \in [Timers -> TimerState] /\ timer_list \in Seq(Timers) /\ now \in Time
      /\ NoDuplicates(timer_list) /\ NoDuplicates(timer_queue)
    BY <1>a, TimerTypes DEF TimersLive
<1>2. f \in TimerState /\ f.alloc /\ f.active /\ Has(timer_list, t)
      /\ (Has(timer_queue, t) <=> f.request # "None")
    BY <1>a, <1>1 DEF TimersLive
<1>3. (f.start_time + f.interval * events) % Wrap \in Time
    <2>1. Wrap \in Nat \ {0} /\ f.start_time \in Nat /\ f.interval \in Nat
          /\ Since(f.start_time) \in Nat
        BY <1>1, <1>2, SinceIs, Width DEF TimerState
    <2>2. events \in Nat
        <3>1. \A x \in Nat, y \in Nat \ {0} : x \div y \in Nat
            OBVIOUS
        <3> QED
            BY <2>1, <3>1
    <2> HIDE DEF events, f
    <2>3. \A x \in Nat : x % Wrap \in 0..(Wrap - 1)
        BY <2>1
    <2>4. f.start_time + f.interval * events \in Nat
        <3>1. \A x, y \in Nat : x * y \in Nat
            OBVIOUS
        <3> QED
            BY <2>1, <2>2, <3>1
    <2> QED
        BY <2>3, <2>4 DEF Time
<1>4. next \in TimerState /\ next.alloc = f.alloc /\ next.active = f.active
      /\ next.request = f.request /\ next.interval = f.interval
      /\ next.next_interval = f.next_interval
    <2> HIDE DEF events
    <2> QED
        BY <1>2, <1>3 DEF TimerState
<1>5. over \in TimerState /\ over.alloc = f.alloc /\ ~over.active
      /\ over.request = f.request /\ over.interval = f.interval
      /\ over.next_interval = f.next_interval
    BY <1>2 DEF TimerState
<1>6. /\ fired' = t /\ tick' = tick
      /\ \/ /\ timer' = [timer EXCEPT ![t] = next]
            /\ timer_list' = Schedule(Unlink(timer_list, t), t, next)
         \/ /\ timer' = [timer EXCEPT ![t].active = FALSE]
            /\ timer_list' = Unlink(timer_list, t)
    BY DEF Fire
<1>7. timer' = [timer EXCEPT ![t].active = FALSE] => timer' = [timer EXCEPT ![t] = over]
    BY <1>1
<1> HIDE DEF f, next, over
<1>8. CASE timer' = [timer EXCEPT ![t] = next]
           /\ timer_list' = Schedule(Unlink(timer_list, t), t, next)
    <2>1. /\ timer_list' \in Seq(Timers) /\ NoDuplicates(timer_list')
          /\ \A u : Has(timer_list', u) <=> Has(timer_list, u) \/ u = t
          /\ FrontExpiresFirst'
        BY <1>a, <1>1, <1>4, <1>8, Scheduled
    <2>2. TimersLive'
        BY <1>a, <1>1, <1>2, <1>4, <1>8, <2>1, SameOthers
    <2>3. timer' \in [Timers -> TimerState] /\ timer'[t] = next
          /\ \A u \in Timers \ {t} : timer'[u] = timer[u]
        BY <1>1, <1>4, <1>8
    <2> QED
        BY <1>4, <1>6, <2>1, <2>2, <2>3 DEF f
<1>9. CASE timer' = [timer EXCEPT ![t] = over] /\ timer_list' = Unlink(timer_list, t)
    <2>1. timer' \in [Timers -> TimerState] /\ timer'[t] = over
          /\ \A u \in Timers \ {t} : timer'[u] = timer[u]
        BY <1>1, <1>5, <1>9
    <2>2. /\ timer_list' \in Seq(Timers) /\ NoDuplicates(timer_list')
          /\ \A u : Has(timer_list', u) <=> Has(timer_list, u) /\ u # t
          /\ FrontExpiresFirst'
        BY <1>a, <1>1, <1>9, <2>1, Unscheduled
    <2>3. TimersLive'
        BY <1>a, <1>1, <1>2, <1>5, <1>9, <2>2, SameOthers
    <2> QED
        BY <1>5, <1>6, <2>1, <2>2, <2>3 DEF f
<1> QED
    BY <1>6, <1>7, <1>8, <1>9

\* xTaskNotifyWaitIndexed times out: a timer fires, or the tick, or nothing.
LEMMA TimeOutInv ==
    ASSUME TimerInv, TimeOut
    PROVE  TimerInv'
<1>a. TypeOK /\ TimersLive /\ FrontExpiresFirst /\ IntervalsGiven /\ CodeFired
      /\ RequestsNotified /\ AllFreed /\ FreeFindsNoTimer
    BY DEF TimerInv
<1>b. UNCHANGED <<now, timer_queue, notified, dropped>> /\ pc = "asleep" /\ ~notified
      /\ calls' = 0 /\ sleep' = 0 /\ late' = 0
    BY DEF TimeOut, Awake
<1>1. timer_queue = <<>> \/ dropped
    BY <1>a, <1>b DEF RequestsNotified
<1>2. /\ now \in Time /\ timer_queue \in Seq(Timers) /\ timer_list \in Seq(Timers)
      /\ tick \in [on : BOOLEAN, interval : Time, prev_time : Time] /\ notified \in BOOLEAN
      /\ 0 \in Time /\ 0 \in 0..MaxLate /\ 0 \in 0..MaxCalls
      /\ timer \in [Timers -> TimerState] /\ fired = NoTimer /\ dropped \in BOOLEAN
    BY <1>a, <1>b, TimerTypes, Width DEF TypeOK, CodeFired
<1>3. CASE FrontIsExpired /\ Fire(Head(timer_list)) /\ pc' = "code"
    <2> DEFINE t == Head(timer_list)
    <2>1. timer_list # <<>>
        BY <1>3 DEF FrontIsExpired
    <2>2. t \in Timers /\ Has(timer_list, t)
        BY <1>a, <1>2, <2>1, TailElements DEF TimersLive
    <2> HIDE DEF t
    <2>3. Fire(t) /\ timer[t].active
        BY <1>a, <1>3, <2>2 DEF t, TimersLive
    <2>4. /\ timer' \in [Timers -> TimerState] /\ timer_list' \in Seq(Timers)
          /\ TimersLive' /\ FrontExpiresFirst' /\ fired' = t /\ tick' = tick
          /\ \A u \in Timers : /\ timer'[u].interval = timer[u].interval
                               /\ timer'[u].next_interval = timer[u].next_interval
        BY <1>b, <2>2, <2>3, FireIs
    <2>5. TypeOK'
        BY <1>b, <1>2, <1>3, <2>2, <2>4, TypesAfter DEF PCs
    <2>6. IntervalsGiven'
        BY <1>a, <2>4 DEF IntervalsGiven
    <2>7. CodeFired' /\ RequestsNotified' /\ AllFreed' /\ FreeFindsNoTimer'
        BY <1>b, <1>1, <1>3 DEF CodeFired, RequestsNotified, AllFreed, FreeFindsNoTimer
    <2> QED
        BY <2>4, <2>5, <2>6, <2>7 DEF TimerInv
<1>4. CASE FireTick /\ pc' = "code"
    <2>1. UNCHANGED <<now, timer, timer_list, timer_queue>> /\ fired' = TickEvent
        BY <1>b, <1>4 DEF FireTick
    <2>2. tick' \in [on : BOOLEAN, interval : Time, prev_time : Time]
          /\ tick'.interval = tick.interval
        <3>1. (tick.prev_time + tick.interval) % Wrap \in Time
            <4>1. tick.prev_time + tick.interval \in Int /\ Wrap \in Nat \ {0}
                <5>1. tick.prev_time \in Nat /\ tick.interval \in Nat /\ Wrap \in Nat \ {0}
                    BY <1>2, Width
                <5> QED
                    BY <5>1
            <4>2. \A x \in Int : x % Wrap \in 0..(Wrap - 1)
                BY <4>1
            <4> QED
                BY <4>1, <4>2 DEF Time
        <3> QED
            BY <1>2, <1>4, <3>1 DEF FireTick
    <2>3. /\ timer' \in [Timers -> TimerState] /\ now' \in Time
          /\ timer_list' \in Seq(Timers) /\ timer_queue' \in Seq(Timers)
          /\ TimersLive' /\ FrontExpiresFirst'
        BY <1>a, <2>1, SameTimers
    <2>4. TypeOK'
        BY <1>b, <1>2, <1>4, <2>1, <2>2, <2>3, TypesAfter DEF PCs
    <2>5. IntervalsGiven'
        BY <1>a, <2>1, <2>2 DEF IntervalsGiven
    <2>6. CodeFired' /\ RequestsNotified' /\ AllFreed' /\ FreeFindsNoTimer'
        BY <1>b, <1>1, <1>4 DEF CodeFired, RequestsNotified, AllFreed, FreeFindsNoTimer
    <2> QED
        BY <2>3, <2>4, <2>5, <2>6 DEF TimerInv
<1>5. CASE pc' = "top" /\ UNCHANGED <<timer, timer_list, tick, fired>>
    <2>1. /\ timer' \in [Timers -> TimerState] /\ now' \in Time
          /\ timer_list' \in Seq(Timers) /\ timer_queue' \in Seq(Timers)
          /\ TimersLive' /\ FrontExpiresFirst'
        BY <1>a, <1>b, <1>5, SameTimers
    <2>2. TypeOK'
        BY <1>b, <1>2, <1>5, <2>1, TypesAfter DEF PCs
    <2>3. IntervalsGiven'
        BY <1>a, <1>5 DEF IntervalsGiven
    <2>4. CodeFired' /\ RequestsNotified' /\ AllFreed' /\ FreeFindsNoTimer'
        BY <1>b, <1>1, <1>2, <1>5 DEF CodeFired, RequestsNotified, AllFreed, FreeFindsNoTimer
    <2> QED
        BY <2>1, <2>2, <2>3, <2>4 DEF TimerInv
<1> QED
    BY <1>3, <1>4, <1>5 DEF TimeOut

\* While time passes the timers stay in the order in which they expire.
LEMMA TimePasses ==
    ASSUME TypeOK, Pass, NEW t \in Timers, timer[t].active, NEW left, left = RemainingTime(t)
    PROVE  /\ left \in Nat
           /\ RemainingTime(t)' = IF left = 0 THEN 0 ELSE left - 1
<1>1. timer[t] \in TimerState /\ now \in Time /\ left \in Nat
    BY TimerTypes
<1>2. PICK start \in Time, interval \in Time :
         start = timer[t].start_time /\ interval = timer[t].interval
    BY <1>1 DEF TimerState
<1>3. /\ now' = (now + 1) % Wrap /\ (interval > 0 => Since(start) < Wrap - 1)
      /\ timer' = timer
    BY <1>2 DEF Pass
<1>4. left = Left(start, interval)
    BY <1>2 DEF RemainingTime
<1>5. Left(start, interval)' = IF left = 0 THEN 0 ELSE left - 1
    BY <1>1, <1>2, <1>3, <1>4, TickPasses
<1>6. RemainingTime(t)' = Left(start, interval)'
    BY <1>2, <1>3 DEF RemainingTime, Left, Since
<1> QED
    BY <1>1, <1>5, <1>6

\* The passing of a tick keeps the invariant: only differences to now are compared.
LEMMA PassInv ==
    ASSUME TimerInv, Pass
    PROVE  TimerInv'
<1>a. TypeOK /\ TimersLive /\ FrontExpiresFirst /\ IntervalsGiven /\ CodeFired
      /\ RequestsNotified /\ AllFreed /\ FreeFindsNoTimer
    BY DEF TimerInv
<1>b. UNCHANGED <<timer, timer_list, timer_queue, tick, notified, pc, fired, calls, dropped>>
    BY DEF Pass
<1>1. now \in Time /\ sleep \in Time /\ late \in 0..MaxLate /\ timer_list \in Seq(Timers)
    BY <1>a, TimerTypes DEF TypeOK
<1>2. now' \in Time
    <2>1. Wrap \in Nat \ {0} /\ now \in Nat /\ now' = (now + 1) % Wrap
        BY <1>1, Width DEF Pass
    <2>2. (now + 1) % Wrap \in 0..(Wrap - 1)
        BY <2>1
    <2> QED
        BY <2>1, <2>2 DEF Time
<1>3. sleep' \in Time
    <2>1. Wrap \in Nat \ {0} /\ sleep \in 0..(Wrap - 1)
        BY <1>1, Width DEF Time
    <2>2. sleep' = sleep \/ (sleep' = sleep - 1 /\ sleep > 0)
        BY DEF Pass
    <2> QED
        BY <2>1, <2>2 DEF Time
<1>4. late' \in 0..MaxLate
    <2>1. late' = late \/ (late' = late + 1 /\ late < MaxLate)
        BY DEF Pass
    <2> QED
        BY <1>1, <2>1, Width
<1>5. TypeOK'
    BY <1>a, <1>b, <1>2, <1>3, <1>4 DEF TypeOK
<1>6. TimersLive'
    BY <1>a, <1>b DEF TimersLive
<1>7. FrontExpiresFirst'
    <2> SUFFICES ASSUME NEW k \in 1..Len(timer_list), NEW l \in 1..Len(timer_list), k < l
                 PROVE  RemainingTime(timer_list[k])' <= RemainingTime(timer_list[l])'
        BY <1>b DEF FrontExpiresFirst
    <2>1. PICK t \in Timers, u \in Timers :
             timer_list[k] = t /\ timer[t].active /\ timer_list[l] = u /\ timer[u].active
        BY <1>a, <1>1 DEF TimersLive, Has
    <2>2. RemainingTime(t) <= RemainingTime(u)
        BY <1>a, <2>1 DEF FrontExpiresFirst
    <2>3. /\ RemainingTime(t) \in Nat /\ RemainingTime(u) \in Nat
          /\ RemainingTime(t)' = IF RemainingTime(t) = 0 THEN 0 ELSE RemainingTime(t) - 1
          /\ RemainingTime(u)' = IF RemainingTime(u) = 0 THEN 0 ELSE RemainingTime(u) - 1
        BY <1>a, <2>1, TimePasses
    <2>4. RemainingTime(t)' <= RemainingTime(u)'
        BY <2>2, <2>3
    <2>5. /\ RemainingTime(timer_list[k])' = RemainingTime(t)'
          /\ RemainingTime(timer_list[l])' = RemainingTime(u)'
        BY <1>b, <2>1 DEF RemainingTime, Left, Since
    <2> QED
        BY <2>4, <2>5
<1>8. IntervalsGiven'
    BY <1>a, <1>b DEF IntervalsGiven
<1>9. CodeFired' /\ RequestsNotified' /\ AllFreed' /\ FreeFindsNoTimer'
    BY <1>a, <1>b DEF CodeFired, RequestsNotified, AllFreed, FreeFindsNoTimer
<1> QED
    BY <1>5, <1>6, <1>7, <1>8, <1>9 DEF TimerInv

-----------------------------------------------------------------------------
(* The invariant, and the properties it implies                            *)

\* At the start no timer is allocated.
LEMMA InitTimerInv ==
    ASSUME Init
    PROVE  TimerInv
<1>1. Unused \in TimerState /\ 0 \in Time /\ 0 \in 0..MaxLate /\ 0 \in 0..MaxCalls
    BY Width DEF Unused, TimerState, Requests
<1>2. /\ <<>> \in Seq(Timers) /\ NoDuplicates(<<>>) /\ \A t : ~Has(<<>>, t)
    BY DEF NoDuplicates, Has
<1>3. TypeOK
    BY <1>1, <1>2 DEF Init, TypeOK, PCs
<1>4. TimersLive
    <2>1. ~Unused.active /\ Unused.request = "None"
        BY DEF Unused
    <2> QED
        BY <1>2, <2>1 DEF Init, TimersLive
<1>5. FrontExpiresFirst
    <2>1. Len(timer_list) = 0
        BY DEF Init
    <2> QED
        BY <2>1 DEF FrontExpiresFirst
<1>6. IntervalsGiven /\ CodeFired /\ RequestsNotified /\ AllFreed /\ FreeFindsNoTimer
    BY DEF Init, Unused, IntervalsGiven, CodeFired, RequestsNotified, AllFreed, FreeFindsNoTimer
<1> QED
    BY <1>3, <1>4, <1>5, <1>6 DEF TimerInv

\* Every step of the loop's thread and of the counter keeps the invariant.
LEMMA NextTimerInv ==
    ASSUME TimerInv, [Next]_vars
    PROVE  TimerInv'
<1>1. CASE Next
    BY <1>1, CommandInv, LoopInv, ProcessRequestInv, TimeOutInv, PassInv DEF Next, LoopStep
<1>2. CASE UNCHANGED vars
    <2>1. UNCHANGED <<now, timer, timer_list, timer_queue, tick, notified, pc, sleep, late,
                      fired, calls, dropped>>
        BY <1>2 DEF vars
    <2>2. TypeOK' /\ TimersLive'
        BY <2>1 DEF TimerInv, TypeOK, TimersLive
    <2>3. FrontExpiresFirst'
        BY <2>1, SameOrder, TimerTypes DEF TimerInv
    <2>4. IntervalsGiven' /\ CodeFired' /\ RequestsNotified' /\ AllFreed' /\ FreeFindsNoTimer'
        BY <2>1 DEF TimerInv, IntervalsGiven, CodeFired, RequestsNotified, AllFreed,
                    FreeFindsNoTimer
    <2> QED
        BY <2>2, <2>3, <2>4 DEF TimerInv
<1> QED
    BY <1>1, <1>2

\* The lists, the requests and the notification of the loop agree with one another at
\* every moment, and the list is in the order in which its timers expire.
THEOREM TimerInvariant == Spec => []TimerInv
<1>1. Init => TimerInv
    BY InitTimerInv
<1>2. TimerInv /\ [Next]_vars => TimerInv'
    BY NextTimerInv
<1> QED
    BY <1>1, <1>2, PTL DEF Spec

\* The types of the variables; start times and intervals stay within the counter's width.
THEOREM TimerTypeOK == Spec => []TypeOK
<1>1. TimerInv => TypeOK
    BY DEF TimerInv
<1> QED
    BY <1>1, TimerInvariant, PTL

\* furi_event_loop_process_timer_queue and furi_event_loop_process_expired_timers follow
\* the links of allocated timers only.
THEOREM TimersAreLive == Spec => []TimersLive
<1>1. TimerInv => TimersLive
    BY DEF TimerInv
<1> QED
    BY <1>1, TimerInvariant, PTL

\* The front of the list is the first to expire, whenever the counter wraps.
THEOREM FrontIsFirst == Spec => []FrontExpiresFirst
<1>1. TimerInv => FrontExpiresFirst
    BY DEF TimerInv
<1> QED
    BY <1>1, TimerInvariant, PTL

\* furi_event_loop_free's furi_check of an empty timer list holds.
THEOREM FreeChecksHold == Spec => []FreeFindsNoTimer
<1>1. TimerInv => FreeFindsNoTimer
    BY DEF TimerInv
<1> QED
    BY <1>1, TimerInvariant, PTL

\* A step from asleep to the application's code is a timeout with nothing notified, or an
\* event that fires no timer.
LEMMA WhoFires ==
    ASSUME TimerInv, [Next]_vars, pc = "asleep", pc' = "code", fired' \in Timers
    PROVE  /\ TimeOut /\ ~notified /\ timer_list # <<>>
           /\ Fire(Head(timer_list)) /\ fired' = Head(timer_list)
<1>1. fired = NoTimer /\ NoTimer \notin Timers /\ TickEvent \notin Timers
    BY Width DEF TimerInv, CodeFired
<1>2. ~OtherEvent
    BY <1>1 DEF OtherEvent
<1>3. ~Command
    BY DEF Command, AllocTimer, RestartTimer, StopTimer, FreeTimer, StartTimer, Enqueue,
           SetTick, MayCall
<1>4. TimeOut
    BY <1>2, <1>3 DEF Next, LoopStep, Run, ComputeWait, FallAsleep, TakeTimerFlag,
       ProcessRequest, QueueDone, CodeReturns, StopRun, FreeLoop, Pass, vars
<1>5. FrontIsExpired /\ Fire(Head(timer_list))
    BY <1>1, <1>4 DEF TimeOut, FireTick
<1> QED
    BY <1>4, <1>5 DEF TimeOut, FrontIsExpired, Fire

\* No callback of a timer starts between a command to it and the queue being processed, in
\* any run of the loop, unless the Stop of an earlier run has forgotten the queue.
THEOREM CommandsAreFirst == Spec => CommandsComeFirst
<1>1. ASSUME TimerInv, [Next]_vars, NEW t \in Timers,
             pc = "asleep", pc' = "code", fired' = t
      PROVE  timer[t].request = "None" \/ dropped
    <2>1. ~notified
        BY <1>1, WhoFires
    <2>2. timer_queue = <<>> \/ dropped
        BY <1>1, <2>1 DEF TimerInv, RequestsNotified
    <2>3. ~Has(timer_queue, t) \/ dropped
        BY <2>2 DEF Has
    <2> QED
        BY <1>1, <2>3 DEF TimerInv, TimersLive
<1>2. TimerInv /\ [Next]_vars =>
         [\A t \in Timers :
             pc = "asleep" /\ pc' = "code" /\ fired' = t =>
                timer[t].request = "None" \/ dropped]_vars
    BY <1>1
<1> QED
    BY <1>2, TimerInvariant, PTL DEF Spec, CommandsComeFirst

\* A periodic timer that fires is not expired afterwards, however late it was.
THEOREM PeriodsAreCaughtUp == Spec => PeriodsAreSkipped
<1>1. ASSUME TimerInv, [Next]_vars, NEW t \in Periodic,
             pc = "asleep", pc' = "code", fired' = t, timer[t].interval > 0
      PROVE  ~IsExpired(t)'
    <2>1. t \in Timers
        BY Width
    <2>2. TimeOut /\ Fire(t)
        BY <1>1, <2>1, WhoFires
    <2>3. timer[t] \in TimerState /\ now \in Time /\ timer \in [Timers -> TimerState]
        BY <1>1, <2>1, TimerTypes DEF TimerInv
    <2>4. PICK start \in Time, interval \in Time :
             start = timer[t].start_time /\ interval = timer[t].interval
        BY <2>3 DEF TimerState
    <2>5. PICK next : next = (start + interval * (Since(start) \div interval)) % Wrap
        OBVIOUS
    <2>6. interval > 0 /\ interval # 0
        BY <1>1, <2>4, Width
    <2>7. next \in Time /\ Since(next) < interval
        BY <2>3, <2>5, <2>6, SkippedPeriods
    <2>8. timer' = [timer EXCEPT ![t] = [timer[t] EXCEPT !.start_time = next]]
        BY <2>2, <2>4, <2>5, <2>6 DEF Fire
    <2>9. timer'[t].start_time = next /\ timer'[t].interval = interval
        BY <2>1, <2>3, <2>4, <2>8 DEF TimerState
    <2>10. now' = now
        BY <2>2 DEF TimeOut
    <2>11. Since(next) \in Nat /\ interval \in Nat
        BY <2>3, <2>7, SinceIs, Width
    <2>12. ~(Since(next) >= interval)
        BY <2>7, <2>11
    <2> QED
        BY <2>9, <2>10, <2>12 DEF IsExpired, Since
<1>2. TimerInv /\ [Next]_vars =>
         [\A t \in Periodic :
             /\ pc = "asleep" /\ pc' = "code" /\ fired' = t
             /\ timer[t].interval > 0
             => ~IsExpired(t)']_vars
    BY <1>1
<1> QED
    BY <1>2, TimerInvariant, PTL DEF Spec, PeriodsAreSkipped

\* What the loop computes to sleep ...
LEMMA ComputeWaitSleep ==
    ASSUME TimerInv, ComputeWait, Forever \notin Intervals, Forever \notin TickIntervals
    PROVE  SleepInv'
<1>a. TypeOK /\ TimersLive /\ FrontExpiresFirst /\ IntervalsGiven
    BY DEF TimerInv
<1>b. UNCHANGED <<now, timer, timer_list, tick, late>>
      /\ sleep' = Least(TimerWaitTime, TickWaitTime)
    BY DEF ComputeWait
<1>1. /\ timer_list \in Seq(Timers) /\ timer \in [Timers -> TimerState] /\ late \in Nat
      /\ tick \in [on : BOOLEAN, interval : Time, prev_time : Time] /\ now \in Time
    BY <1>a, TimerTypes
<1>2. \A t \in Timers : RemainingTime(t) \in Nat /\ RemainingTime(t) <= timer[t].interval
                        /\ timer[t].interval \in Time /\ timer[t].interval \in Intervals \union {0}
    BY <1>a, <1>1, TimerTypes DEF TimerState, IntervalsGiven
<1>3. Forever \in Nat /\ \A n \in Time : n \in Nat /\ n <= Forever
    BY Width DEF Forever, Time
<1>4. TickWaitTime \in Nat /\ (tick.on => TickWaitTime <= tick.interval)
      /\ tick.interval \in TickIntervals \union {0} /\ tick.interval \in Time
    BY <1>a, <1>1, <1>3, LeftIs DEF TickWaitTime, IntervalsGiven
<1>5. TimerWaitTime \in Nat
    <2>1. timer_list # <<>> => Head(timer_list) \in Timers
        BY <1>1
    <2> QED
        BY <1>2, <1>3, <2>1 DEF TimerWaitTime
<1>6. sleep' \in Nat /\ sleep' <= TimerWaitTime /\ sleep' <= TickWaitTime
    BY <1>b, <1>4, <1>5 DEF Least
<1>7. \A t \in Timers : timer[t].active => timer_list # <<>> /\ TimerWaitTime <= RemainingTime(t)
    <2> SUFFICES ASSUME NEW t \in Timers, timer[t].active
                 PROVE  timer_list # <<>> /\ TimerWaitTime <= RemainingTime(t)
        OBVIOUS
    <2>1. PICK k \in 1..Len(timer_list) : timer_list[k] = t
        BY <1>a DEF TimersLive, Has
    <2>2. timer_list # <<>> /\ Head(timer_list) = timer_list[1] /\ 1 \in 1..Len(timer_list)
          /\ timer_list[1] \in Timers
        BY <1>1, <2>1
    <2>3. k = 1 \/ 1 < k
        BY <1>1, <2>1
    <2>4. RemainingTime(timer_list[1]) <= RemainingTime(timer_list[k])
        BY <1>2, <1>a, <2>1, <2>2, <2>3 DEF FrontExpiresFirst
    <2> QED
        BY <2>1, <2>2, <2>4 DEF TimerWaitTime
<1>8. sleep' = Forever /\ sleep' > 0 => timer_list = <<>> /\ ~tick.on
    <2> SUFFICES ASSUME sleep' = Forever, sleep' > 0
                 PROVE  timer_list = <<>> /\ ~tick.on
        OBVIOUS
    <2>1. ASSUME tick.on
          PROVE  FALSE
        <3>1. tick.interval = Forever
            BY <1>3, <1>4, <1>6, <2>1
        <3> QED
            BY <1>4, <3>1
    <2>2. ASSUME timer_list # <<>>
          PROVE  FALSE
        <3>1. PICK t \in Timers : t = Head(timer_list)
            BY <1>1, <2>2
        <3>2. TimerWaitTime = RemainingTime(t)
            BY <2>2, <3>1 DEF TimerWaitTime
        <3>3. timer[t].interval = Forever
            BY <1>2, <1>3, <1>6, <3>2
        <3> QED
            BY <1>2, <3>3
    <2> QED
        BY <2>1, <2>2
<1>9. \A t \in Timers : timer[t].active => sleep' <= RemainingTime(t) + late
    BY <1>1, <1>2, <1>5, <1>6, <1>7
<1>10. sleep' <= TickWaitTime + late
    BY <1>1, <1>4, <1>6
<1>11. (\A t \in Timers : RemainingTime(t)' = RemainingTime(t)) /\ TickWaitTime' = TickWaitTime
    BY <1>b DEF RemainingTime, TickWaitTime, Left, Since, Forever
<1> QED
    BY <1>b, <1>8, <1>9, <1>10, <1>11 DEF SleepInv

\* ... and what passes of it.
LEMMA PassSleep ==
    ASSUME TimerInv, SleepInv, Pass
    PROVE  SleepInv'
<1>a. TypeOK /\ TimersLive
    BY DEF TimerInv
<1>b. UNCHANGED <<timer, timer_list, tick, pc>>
    BY DEF Pass
<1> SUFFICES ASSUME pc \in {"computed", "asleep"}
             PROVE  SleepInv'
    BY <1>b DEF SleepInv
<1>1. /\ late \in Nat /\ sleep \in Nat /\ now \in Time /\ timer_list \in Seq(Timers)
      /\ tick \in [on : BOOLEAN, interval : Time, prev_time : Time] /\ sleep \in Time
    BY <1>a, TimerTypes, Width
<1>2. /\ \A t \in Timers : timer[t].active => sleep <= RemainingTime(t) + late
      /\ tick.on => sleep <= TickWaitTime + late
      /\ sleep = Forever /\ sleep > 0 => timer_list = <<>> /\ ~tick.on
    BY DEF SleepInv
<1>3. \A t \in Timers : timer[t].active => timer_list # <<>>
    <2>1. Len(<<>>) = 0
        OBVIOUS
    <2> QED
        BY <1>a, <2>1 DEF TimersLive, Has
<1>4. \/ pc = "computed" /\ sleep' = sleep /\ late' = late + 1
      \/ pc = "asleep" /\ late' = late /\ sleep > 0 /\ sleep = Forever /\ sleep' = sleep
      \/ pc = "asleep" /\ late' = late /\ sleep > 0 /\ sleep # Forever /\ sleep' = sleep - 1
    BY DEF Pass
<1>5. ASSUME NEW left \in Nat, NEW left2 \in Nat, sleep <= left + late,
             left2 = (IF left = 0 THEN 0 ELSE left - 1), timer_list # <<>> \/ tick.on
      PROVE  sleep' <= left2 + late'
    BY <1>1, <1>2, <1>4, <1>5
<1>6. ASSUME NEW t \in Timers, timer[t].active
      PROVE  sleep' <= RemainingTime(t)' + late'
    <2>1. RemainingTime(t) \in Nat
          /\ RemainingTime(t)' = IF RemainingTime(t) = 0 THEN 0 ELSE RemainingTime(t) - 1
        BY <1>6, <1>a, TimePasses
    <2>2. RemainingTime(t)' \in Nat
        BY <2>1
    <2> QED
        BY <1>2, <1>3, <1>5, <1>6, <2>1, <2>2
<1>7. ASSUME tick.on
      PROVE  sleep' <= TickWaitTime' + late'
    <2>1. PICK prev \in Time, interval \in Time :
             prev = tick.prev_time /\ interval = tick.interval
        BY <1>1
    <2>2. now' = (now + 1) % Wrap /\ Since(prev) < Wrap - 1
        BY <1>7, <2>1 DEF Pass
    <2>3. PICK left \in Nat : left = Left(prev, interval)
        BY <1>1, LeftIs, Width
    <2>4. Left(prev, interval)' = IF left = 0 THEN 0 ELSE left - 1
        BY <1>1, <2>2, <2>3, TickPasses
    <2>5. TickWaitTime = left
        BY <1>7, <2>1, <2>3 DEF TickWaitTime
    <2>6. TickWaitTime' = Left(prev, interval)'
        BY <1>7, <1>b, <2>1 DEF TickWaitTime, Left, Since
    <2>7. TickWaitTime' \in Nat
        BY <2>4, <2>6
    <2> QED
        BY <1>2, <1>5, <1>7, <2>4, <2>5, <2>6, <2>7
<1>8. sleep' = Forever /\ sleep' > 0 => timer_list = <<>> /\ ~tick.on
    <2>1. Forever \in Nat /\ sleep <= Forever
        BY <1>1, Width DEF Time, Forever
    <2> QED
        BY <1>1, <1>2, <1>4, <2>1
<1> QED
    BY <1>b, <1>6, <1>7, <1>8 DEF SleepInv, Forever

\* The loop wakes in time: from the order of the list and what it computed from its front.
\* An interval of FuriWaitForever is excepted, the time that the kernel waits for ever.
THEOREM LoopWakesInTime ==
    ASSUME Forever \notin Intervals, Forever \notin TickIntervals
    PROVE  Spec => []WakesInTime
<1>1. Init => SleepInv
    BY DEF Init, SleepInv
<1>2. ASSUME TimerInv, SleepInv, [Next]_vars
      PROVE  SleepInv'
    <2>1. CASE ComputeWait
        BY <1>2, <2>1, ComputeWaitSleep
    <2>2. CASE Pass
        BY <1>2, <2>2, PassSleep
    <2>3. CASE FallAsleep \/ UNCHANGED vars
        <3>1. UNCHANGED <<now, timer, timer_list, tick, sleep, late>>
              /\ (pc' = pc \/ pc = "computed")
            BY <2>3 DEF FallAsleep, vars
        <3>2. (\A t \in Timers : RemainingTime(t)' = RemainingTime(t)) /\ TickWaitTime' = TickWaitTime
            BY <3>1 DEF RemainingTime, TickWaitTime, Left, Since, Forever
        <3> QED
            BY <1>2, <3>1, <3>2 DEF SleepInv, Forever
    <2>4. CASE Command
        <3>1. pc' = pc /\ pc \notin {"computed", "asleep"}
            BY <2>4 DEF Command, AllocTimer, RestartTimer, StopTimer, FreeTimer, StartTimer,
                        Enqueue, SetTick, MayCall, Called
        <3> QED
            BY <3>1 DEF SleepInv
    <2>5. CASE \/ Run \/ TakeTimerFlag \/ ProcessRequest \/ QueueDone \/ TimeOut \/ CodeReturns
               \/ OtherEvent \/ StopRun \/ FreeLoop
        <3>1. pc' \notin {"computed", "asleep"}
            BY <2>5 DEF Run, TakeTimerFlag, ProcessRequest, QueueDone, TimeOut, CodeReturns,
                        OtherEvent, StopRun, FreeLoop
        <3> QED
            BY <3>1 DEF SleepInv
    <2> QED
        BY <1>2, <2>1, <2>2, <2>3, <2>4, <2>5 DEF Next, LoopStep
<1>3. SleepInv => WakesInTime
    BY DEF SleepInv, WakesInTime
<1> QED
    BY <1>1, <1>2, <1>3, TimerInvariant, PTL DEF Spec

=============================================================================
