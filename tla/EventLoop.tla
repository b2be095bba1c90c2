------------------------------ MODULE EventLoop ------------------------------
(***************************************************************************)
(* FuriEventLoop: the thread that owns the loop, the primitives it is      *)
(* subscribed to, and the threads that use those primitives meanwhile.     *)
(*                                                                         *)
(* A critical section (FURI_CRITICAL_ENTER .. EXIT) is one step, and so is *)
(* one kernel call.  furi_event_loop_link_notify pushes the item and sets  *)
(* the notification inside one critical section, but the primitive has     *)
(* changed before it is called: between the two every other thread may     *)
(* run.  The body of a callback is any bounded sequence of API calls.      *)
(***************************************************************************)
EXTENDS EventLoopObjects, IntrusiveList

CONSTANTS
    Items,             \* addresses a FuriEventLoopItem can be allocated at
    NULL,              \* the null pointer
    Owner,             \* the thread the loop belongs to
    Threads,           \* the other threads
    Modes,             \* [edge |-> _, once |-> _]: event flags subscribers use
    MaxCalls,          \* API calls the owner makes per stretch of user code
    MaxPending,        \* bound on callbacks pended and not finished
    MaxTimerCommands,  \* bound on timer commands queued
    MaxRuns,           \* bound on calls of furi_event_loop_run per loop
    MayStop,           \* threads that may call furi_event_loop_stop
    FlagSetters        \* threads that may call furi_thread_flags_set

AllThreads == Threads \cup {Owner}

ASSUME EventLoopAssumption ==
    /\ NULL \notin Items /\ NULL \notin Objects
    /\ Owner \notin Threads
    /\ Modes \subseteq [edge : BOOLEAN, once : BOOLEAN]
    /\ MaxCalls \in Nat /\ MaxPending \in Nat /\ MaxTimerCommands \in Nat
    /\ MaxRuns \in Nat
    /\ MayStop \subseteq AllThreads
    /\ FlagSetters \subseteq AllThreads

VARIABLES
    level,             \* level of each primitive
    link,              \* event_loop_link of each primitive: item_in, item_out
    op,                \* per thread, the link_notify its call still has to make
    item,              \* the memory of each item
    tree,              \* subscribed object -> item
    waiting_list,      \* items with an event, oldest first
    notify,            \* task notification value at the loop's index
    pending_queue,     \* pended callbacks, oldest first (the list's back)
    timer_queue,       \* number of timer requests not processed
    armed,             \* a timer or the tick may expire
    subscribed,        \* are_thread_flags_subscribed
    pc,                \* where the owner is
    flags,             \* local of furi_event_loop_run
    cur,               \* local item of furi_event_loop_process_waiting_list
    again,             \* its status is Incomplete
    runs,              \* furi_event_loop_run calls since the loop was allocated
    calls,             \* API calls made in the current stretch of user code
    due                \* a thread flag notification no callback has answered yet

loopVars == <<pc, flags, cur, again>>
listVars == <<link, item, tree, waiting_list>>
deferVars == <<pending_queue, timer_queue, armed>>
vars == <<level, link, op, item, tree, waiting_list, notify, pending_queue,
          timer_queue, armed, subscribed, pc, flags, cur, again, runs, calls, due>>

Flags == {"Event", "Stop", "Timer", "Pending", "ThreadFlag"}

-----------------------------------------------------------------------------
(* Items and lists *)

\* vPortFree clears the block: every field of a freed item reads as zero.
FreedItem == [alloc |-> FALSE, owner |-> FALSE, object |-> NULL, dir |-> Out,
              edge |-> FALSE, once |-> FALSE]

ItemState == [alloc : BOOLEAN, owner : BOOLEAN, object : Objects \cup {NULL},
              dir : Dirs, edge : BOOLEAN, once : BOOLEAN]

\* furi_event_loop_item_is_waiting
IsWaiting(i) == Has(waiting_list, i)

\* furi_event_loop_item_notify, with the notification it ends with
NotifyItem(i) ==
    /\ waiting_list' = IF IsWaiting(i) THEN waiting_list ELSE Append(waiting_list, i)
    /\ notify' = notify \cup {"Event"}

\* furi_event_loop_link_notify, after o was moved in direction d
NotifyLink(o, d) ==
    IF link[o][d] # NULL /\ Announces(o, level[o], d)
    THEN NotifyItem(link[o][d])
    ELSE UNCHANGED <<waiting_list, notify>>

\* Faulty variants, such as this one, stand before the definition they vary; no
\* specification uses them, they show which property would notice the fault.
\* Fault: the item stays in the waiting list.
DetachStillWaiting(i, isCurrent) ==
    /\ tree' = [tree EXCEPT ![item[i].object] = NULL]
    /\ link' = [link EXCEPT ![item[i].object][item[i].dir] = NULL]
    /\ waiting_list' = waiting_list
    /\ item' = IF isCurrent THEN [item EXCEPT ![i].owner = FALSE]
                            ELSE [item EXCEPT ![i] = FreedItem]

\* What furi_event_loop_unsubscribe does to the object's entry, and to the item
\* unless it is the one being processed, which is only disowned.
Detach(i, isCurrent) ==
    /\ tree' = [tree EXCEPT ![item[i].object] = NULL]
    /\ link' = [link EXCEPT ![item[i].object][item[i].dir] = NULL]
    /\ waiting_list' = Unlink(waiting_list, i)
    /\ item' = IF isCurrent THEN [item EXCEPT ![i].owner = FALSE]
                            ELSE [item EXCEPT ![i] = FreedItem]

-----------------------------------------------------------------------------
(* Who may call what *)

\* The owner runs code of the application: outside of furi_event_loop_run, or
\* in a callback of the loop.
UserCode == pc \in {"user", "callback", "pendcb", "tfcb", "timercb"}

OwnerMay == UserCode /\ op[Owner] = {} /\ calls < MaxCalls

May(t) == IF t = Owner THEN OwnerMay ELSE op[t] = {}

Called(t) == calls' = IF t = Owner THEN calls + 1 ELSE calls

Alive == pc # "none"      \* the loop is allocated

\* instance->current_item is set around the callback of an item
IsCurrent(i) == i = cur /\ pc = "callback"

Init ==
    /\ level = [o \in Objects |-> IF Kind[o] = "mutex" THEN 1 ELSE 0]
    /\ link = [o \in Objects |-> [d \in Dirs |-> NULL]]
    /\ op = [t \in AllThreads |-> {}]
    /\ item = [i \in Items |-> FreedItem]
    /\ tree = [o \in Objects |-> NULL]
    /\ waiting_list = <<>>
    /\ notify = {}
    /\ pending_queue = <<>>
    /\ timer_queue = 0
    /\ armed = FALSE
    /\ subscribed = FALSE
    /\ pc = "user"
    /\ flags = {}
    /\ cur = NULL
    /\ again = FALSE
    /\ runs = 0
    /\ calls = 0
    /\ due = FALSE

-----------------------------------------------------------------------------
(* The primitives, used by any thread *)

\* furi_message_queue_put, furi_semaphore_release, furi_mutex_release,
\* furi_stream_buffer_send: the kernel call has succeeded, link_notify is next.
\* A call that waits is one whose guard is not true yet; one that fails changes
\* nothing.
Put(t, o) ==
    /\ May(t) /\ Kind[o] # "flag"
    /\ \E n \in Amounts(o, Capacity[o] - level[o]) :
          /\ level[o] + n <= Capacity[o]
          /\ level' = [level EXCEPT ![o] = @ + n]
    /\ op' = [op EXCEPT ![t] = {<<o, In>>}]
    /\ Called(t)
    /\ UNCHANGED <<listVars, notify, deferVars, subscribed, loopVars, runs, due>>

\* Fault: takes from an empty primitive.
GetFromEmpty(t, o) ==
    /\ May(t)
    /\ level' = [level EXCEPT ![o] = @ - 1]
    /\ op' = [op EXCEPT ![t] = {<<o, Out>>}]
    /\ Called(t)
    /\ UNCHANGED <<listVars, notify, deferVars, subscribed, loopVars, runs, due>>

\* furi_message_queue_get, furi_semaphore_acquire, furi_mutex_acquire,
\* furi_stream_buffer_receive, furi_event_flag_wait
Get(t, o) ==
    /\ May(t)
    /\ \E n \in Amounts(o, level[o]) :
          /\ n <= level[o]
          /\ level' = [level EXCEPT ![o] = @ - n]
    /\ op' = [op EXCEPT ![t] = {<<o, Out>>}]
    /\ Called(t)
    /\ UNCHANGED <<listVars, notify, deferVars, subscribed, loopVars, runs, due>>

\* furi_message_queue_reset, furi_stream_buffer_reset
Reset(t, o) ==
    /\ May(t) /\ Kind[o] \in {"queue", "stream"}
    /\ level' = [level EXCEPT ![o] = 0]
    /\ op' = [op EXCEPT ![t] = {<<o, Out>>}]
    /\ Called(t)
    /\ UNCHANGED <<listVars, notify, deferVars, subscribed, loopVars, runs, due>>

\* The link_notify that ends each of the three.
LinkNotify(t) ==
    /\ \E o \in Objects, d \in Dirs :
          /\ op[t] = {<<o, d>>}
          /\ NotifyLink(o, d)
    /\ op' = [op EXCEPT ![t] = {}]
    /\ UNCHANGED <<level, link, item, tree, deferVars, subscribed, loopVars,
                   runs, calls, due>>

\* furi_event_flag_set: the bits and the notification are one critical section.
\* The bit may have been set before, and is announced all the same.
EventFlagSet(t, o) ==
    /\ May(t) /\ Kind[o] = "flag"
    /\ \E n \in {0, 1} :
          /\ level[o] + n \in 1..Capacity[o]
          /\ level' = [level EXCEPT ![o] = @ + n]
    /\ NotifyLink(o, In)
    /\ Called(t)
    /\ UNCHANGED <<link, op, item, tree, deferVars, subscribed, loopVars, runs, due>>

\* furi_event_flag_clear of a bit that is set
EventFlagClear(t, o) ==
    /\ May(t) /\ Kind[o] = "flag"
    /\ level[o] > 0
    /\ level' = [level EXCEPT ![o] = @ - 1]
    /\ NotifyLink(o, Out)
    /\ Called(t)
    /\ UNCHANGED <<link, op, item, tree, deferVars, subscribed, loopVars, runs, due>>

\* furi_thread_flags_set(owner): sets the flag, then notifies the loop
SetThreadFlags(t) ==
    /\ May(t) /\ t \in FlagSetters
    /\ notify' = notify \cup {"ThreadFlag"}
    /\ due' = (due \/ subscribed)
    /\ Called(t)
    /\ UNCHANGED <<level, listVars, op, deferVars, subscribed, loopVars, runs>>

\* furi_event_loop_stop
Stop(t) ==
    /\ May(t) /\ t \in MayStop /\ Alive
    /\ notify' = notify \cup {"Stop"}
    /\ Called(t)
    /\ UNCHANGED <<level, listVars, op, deferVars, subscribed, loopVars, runs, due>>

-----------------------------------------------------------------------------
(* Calls only the owner may make *)

\* furi_event_loop_object_subscribe, with the item allocated at i
SubscribeItem(o, d, m, i) ==
    /\ ~item[i].alloc
    /\ item' = [item EXCEPT ![i] = [alloc |-> TRUE, owner |-> TRUE, object |-> o,
                                    dir |-> d, edge |-> m.edge, once |-> m.once]]
    /\ tree' = [tree EXCEPT ![o] = i]
    /\ link' = [link EXCEPT ![o][d] = i]
    /\ IF ~m.edge /\ GetLevel(o, level[o], d)
       THEN NotifyItem(i)
       ELSE UNCHANGED <<waiting_list, notify>>

Subscribe(o, d, m) ==
    /\ OwnerMay
    /\ tree[o] = NULL
    /\ \E i \in Items : SubscribeItem(o, d, m, i)
    /\ Called(Owner)
    /\ UNCHANGED <<level, op, deferVars, subscribed, loopVars, runs, due>>

\* furi_event_loop_unsubscribe
Unsubscribe(o) ==
    /\ OwnerMay
    /\ tree[o] # NULL
    /\ Detach(tree[o], IsCurrent(tree[o]))
    /\ Called(Owner)
    /\ UNCHANGED <<level, op, notify, deferVars, subscribed, loopVars, runs, due>>

\* furi_event_loop_subscribe_thread_flags
SubscribeThreadFlags ==
    /\ OwnerMay
    /\ FlagSetters # {} /\ ~subscribed
    /\ subscribed' = TRUE
    /\ Called(Owner)
    /\ UNCHANGED <<level, listVars, op, notify, deferVars, loopVars, runs, due>>

\* furi_event_loop_unsubscribe_thread_flags
UnsubscribeThreadFlags ==
    /\ OwnerMay
    /\ subscribed
    /\ subscribed' = FALSE
    /\ due' = FALSE
    /\ Called(Owner)
    /\ UNCHANGED <<level, listVars, op, notify, deferVars, loopVars, runs>>

\* furi_event_loop_pend_callback; each entry remembers the timer requests that
\* were queued before it and whether a pended callback pended it.
PendCallback ==
    /\ OwnerMay
    /\ Len(pending_queue) < MaxPending
    /\ pending_queue' = Append(pending_queue,
                               [timers |-> timer_queue, nested |-> pc = "pendcb"])
    /\ notify' = notify \cup {"Pending"}
    /\ Called(Owner)
    /\ UNCHANGED <<level, listVars, op, timer_queue, armed, subscribed, loopVars,
                   runs, due>>

\* furi_event_loop_timer_enqueue_request
TimerCommand ==
    /\ OwnerMay
    /\ timer_queue < MaxTimerCommands
    /\ timer_queue' = timer_queue + 1
    /\ notify' = notify \cup {"Timer"}
    /\ Called(Owner)
    /\ UNCHANGED <<level, listVars, op, pending_queue, armed, subscribed, loopVars,
                   runs, due>>

\* furi_event_loop_free of a stopped loop nothing is subscribed to
FreeLoop ==
    /\ pc = "user" /\ op[Owner] = {}
    /\ \A o \in Objects : tree[o] = NULL
    /\ ~subscribed
    /\ timer_queue' = 0 /\ armed' = FALSE
    /\ pc' = IF waiting_list = <<>> THEN "none" ELSE "undefined"
    /\ pending_queue' = <<>>
    /\ notify' = {}
    /\ UNCHANGED <<level, listVars, op, subscribed, flags, cur, again, runs, calls, due>>

\* furi_event_loop_alloc
AllocLoop ==
    /\ pc = "none"
    /\ pc' = "user"
    /\ notify' = {}
    /\ runs' = 0
    /\ calls' = 0
    /\ due' = FALSE
    /\ UNCHANGED <<level, listVars, op, deferVars, subscribed, flags, cur, again>>

-----------------------------------------------------------------------------
(* furi_event_loop_run *)

Run ==
    /\ pc = "user" /\ op[Owner] = {}
    /\ runs < MaxRuns
    /\ pc' = "wait"
    /\ runs' = runs + 1
    /\ UNCHANGED <<level, listVars, op, notify, deferVars, subscribed, flags, cur,
                   again, calls, due>>

\* xTaskNotifyWaitIndexed returns pdTRUE and clears the value it returns.
TakeFlags ==
    /\ pc = "wait" /\ notify # {}
    /\ flags' = notify
    /\ notify' = {}
    /\ pc' = "dispatch"
    /\ UNCHANGED <<level, listVars, op, deferVars, subscribed, cur, again, runs,
                   calls, due>>

\* xTaskNotifyWaitIndexed times out: an expired timer, or else the tick, is called.
TimeOut ==
    /\ pc = "wait" /\ notify = {} /\ armed
    /\ armed' \in BOOLEAN
    /\ pc' = "timercb"
    /\ calls' = 0
    /\ UNCHANGED <<level, listVars, op, notify, pending_queue, timer_queue, subscribed,
                   flags, cur, again, runs, due>>

\* Faults: pended callbacks overtake timer requests, events overtake Stop.
PendingBeforeTimer ==
    IF "Stop" \in flags THEN "Stop"
    ELSE IF "Event" \in flags THEN "Event"
    ELSE IF "Pending" \in flags THEN "Pending"
    ELSE IF "Timer" \in flags THEN "Timer"
    ELSE "ThreadFlag"

EventBeforeStop ==
    IF "Event" \in flags THEN "Event"
    ELSE IF "Stop" \in flags THEN "Stop"
    ELSE IF "Timer" \in flags THEN "Timer"
    ELSE IF "Pending" \in flags THEN "Pending"
    ELSE "ThreadFlag"

\* The branches of furi_event_loop_run, in the order they are tried.
FirstFlag ==
    IF "Stop" \in flags THEN "Stop"
    ELSE IF "Event" \in flags THEN "Event"
    ELSE IF "Timer" \in flags THEN "Timer"
    ELSE IF "Pending" \in flags THEN "Pending"
    ELSE "ThreadFlag"

DispatchStop ==
    /\ pc = "dispatch" /\ FirstFlag = "Stop"
    /\ pc' = "user"
    /\ calls' = 0
    /\ flags' = {}
    /\ UNCHANGED <<level, listVars, op, notify, deferVars, subscribed, cur, again,
                   runs, due>>

\* furi_event_loop_get_waiting_item; an empty list ends the branch at once.
DispatchEvent ==
    /\ pc = "dispatch" /\ FirstFlag = "Event"
    /\ flags' = flags \ {"Event"}
    /\ IF waiting_list = <<>>
       THEN /\ pc' = "restore"
            /\ UNCHANGED <<cur, waiting_list>>
       ELSE /\ pc' = "process"
            /\ cur' = Head(waiting_list)
            /\ waiting_list' = Tail(waiting_list)
    /\ UNCHANGED <<level, link, item, tree, op, notify, deferVars, subscribed, again,
                   runs, calls, due>>

\* furi_event_loop_process_timer_queue empties the queue; callbacks pended before
\* have no timer request to wait for any more.
DispatchTimer ==
    /\ pc = "dispatch" /\ FirstFlag = "Timer"
    /\ flags' = flags \ {"Timer"}
    /\ timer_queue' = 0
    /\ armed' \in IF timer_queue > 0 THEN BOOLEAN ELSE {armed}
    /\ pending_queue' = [k \in 1..Len(pending_queue) |->
                            [pending_queue[k] EXCEPT !.timers = 0]]
    /\ pc' = "restore"
    /\ UNCHANGED <<level, listVars, op, notify, subscribed, cur, again, runs, calls, due>>

\* This branch and the next keep nothing of the other flags.
DispatchPending ==
    /\ pc = "dispatch" /\ FirstFlag = "Pending"
    /\ flags' = {}
    /\ pc' = "pending"
    /\ UNCHANGED <<level, listVars, op, notify, deferVars, subscribed, cur, again,
                   runs, calls, due>>

DispatchThreadFlag ==
    /\ pc = "dispatch" /\ FirstFlag = "ThreadFlag"
    /\ flags' = {}
    /\ pc' = IF subscribed THEN "tfcb" ELSE "wait"
    /\ calls' = 0
    /\ due' = FALSE
    /\ UNCHANGED <<level, listVars, op, notify, deferVars, subscribed, cur, again, runs>>

\* furi_event_loop_process_event up to the callback.  A Once item is unsubscribed
\* first, while it is not the current item: furi_event_loop_unsubscribe frees it,
\* and the event and contract read next are those of the cleared block.
ProcessItem ==
    /\ pc = "process"
    /\ IF item[cur].once
       THEN /\ Detach(cur, FALSE)
            /\ pc' = "undefined"
       ELSE /\ pc' = IF item[cur].edge \/ GetLevel(item[cur].object, level[item[cur].object],
                                                   item[cur].dir)
                     THEN "callback" ELSE "finish"
            /\ UNCHANGED listVars
    /\ again' = FALSE
    /\ calls' = 0
    /\ UNCHANGED <<level, op, notify, deferVars, subscribed, flags, cur, runs, due>>

\* Fault: the level is not read again.
CallbackReturnsForGood ==
    /\ pc = "callback" /\ op[Owner] = {}
    /\ again' = FALSE
    /\ pc' = "finish"
    /\ UNCHANGED <<level, listVars, op, notify, deferVars, subscribed, flags, cur, runs,
                   calls, due>>

\* The item's callback returns; a level item is asked for its level again.
CallbackReturn ==
    /\ pc = "callback" /\ op[Owner] = {}
    /\ again' = (~item[cur].edge /\ GetLevel(item[cur].object, level[item[cur].object],
                                             item[cur].dir))
    /\ pc' = "finish"
    /\ UNCHANGED <<level, listVars, op, notify, deferVars, subscribed, flags, cur, runs,
                   calls, due>>

\* furi_event_loop_process_waiting_list acts on the status: FreeLater overrides
\* the others, Incomplete puts the item back.
FinishItem ==
    /\ pc = "finish"
    /\ IF ~item[cur].owner
       THEN /\ item' = [item EXCEPT ![cur] = FreedItem]
            /\ UNCHANGED <<waiting_list, notify>>
       ELSE /\ UNCHANGED item
            /\ IF again THEN NotifyItem(cur) ELSE UNCHANGED <<waiting_list, notify>>
    /\ cur' = NULL
    /\ again' = FALSE
    /\ pc' = "sync"
    /\ UNCHANGED <<level, link, tree, op, deferVars, subscribed, flags, runs, calls, due>>

\* Fault: items left in the waiting list are not announced again.
NoSyncFlags ==
    /\ pc = "sync"
    /\ pc' = "restore"
    /\ UNCHANGED <<level, listVars, op, notify, deferVars, subscribed, flags, cur, again,
                   runs, calls, due>>

\* furi_event_loop_sync_flags
SyncFlags ==
    /\ pc = "sync"
    /\ notify' = IF waiting_list # <<>> THEN notify \cup {"Event"} ELSE notify
    /\ pc' = "restore"
    /\ UNCHANGED <<level, listVars, op, deferVars, subscribed, flags, cur, again, runs,
                   calls, due>>

\* Fault: the flags of the branches not taken are lost.
NoRestoreFlags ==
    /\ pc = "restore"
    /\ flags' = {}
    /\ pc' = "wait"
    /\ UNCHANGED <<level, listVars, op, notify, deferVars, subscribed, cur, again, runs,
                   calls, due>>

\* furi_event_loop_restore_flags
RestoreFlags ==
    /\ pc = "restore"
    /\ notify' = notify \cup flags
    /\ flags' = {}
    /\ pc' = "wait"
    /\ UNCHANGED <<level, listVars, op, deferVars, subscribed, cur, again, runs, calls, due>>

\* furi_event_loop_process_pending_callbacks: call the oldest entry ...
CallPending ==
    /\ pc = "pending"
    /\ pc' = IF pending_queue = <<>> THEN "wait" ELSE "pendcb"
    /\ calls' = 0
    /\ UNCHANGED <<level, listVars, op, notify, deferVars, subscribed, flags, cur, again,
                   runs, due>>

\* ... and drop it when the call has returned.
PendingReturn ==
    /\ pc = "pendcb" /\ op[Owner] = {}
    /\ pending_queue' = Tail(pending_queue)
    /\ pc' = "pending"
    /\ UNCHANGED <<level, listVars, op, notify, timer_queue, armed, subscribed, flags, cur,
                   again, runs, calls, due>>

\* The thread flag callback, a timer's or the tick's returns.
SimpleReturn ==
    /\ pc \in {"tfcb", "timercb"} /\ op[Owner] = {}
    /\ pc' = "wait"
    /\ UNCHANGED <<level, listVars, op, notify, deferVars, subscribed, flags, cur, again,
                   runs, calls, due>>

-----------------------------------------------------------------------------
ObjectUse(t) ==
    \/ \E o \in Objects : Put(t, o) \/ Get(t, o) \/ Reset(t, o)
                          \/ EventFlagSet(t, o) \/ EventFlagClear(t, o)
    \/ SetThreadFlags(t)
    \/ Stop(t)

OwnerCall ==
    \/ \E o \in Objects, d \in Dirs, m \in Modes : Subscribe(o, d, m)
    \/ \E o \in Objects : Unsubscribe(o)
    \/ SubscribeThreadFlags
    \/ UnsubscribeThreadFlags
    \/ PendCallback
    \/ TimerCommand
    \/ FreeLoop
    \/ AllocLoop
    \/ Run

\* The steps of furi_event_loop_run, each followed by the next without waiting
\* for anybody.
LoopStep ==
    \/ TakeFlags
    \/ DispatchStop \/ DispatchEvent \/ DispatchTimer \/ DispatchPending
    \/ DispatchThreadFlag
    \/ ProcessItem \/ CallbackReturn \/ FinishItem \/ SyncFlags \/ RestoreFlags
    \/ CallPending \/ PendingReturn \/ SimpleReturn

Next ==
    \/ \E t \in AllThreads : ObjectUse(t) \/ LinkNotify(t)
    \/ OwnerCall
    \/ LoopStep
    \/ TimeOut

Spec == Init /\ [][Next]_vars

\* The scheduler runs every ready thread, and callbacks return: the loop and a
\* call that has to notify go on.
Fairness ==
    /\ WF_vars(LoopStep)
    /\ \A t \in AllThreads : WF_vars(LinkNotify(t))

FairSpec == Spec /\ Fairness
-----------------------------------------------------------------------------
(* Properties *)

PCs == {"none", "user", "wait", "dispatch", "process", "callback", "finish", "sync",
        "restore", "pending", "pendcb", "tfcb", "timercb", "undefined"}

PendingEntry == [timers : Nat, nested : BOOLEAN]

\* Every variable has its type: a level stays within the capacity of its primitive,
\* the notification value holds the five FuriEventLoopFlag bits.
TypeOK ==
    /\ level \in [Objects -> Nat] /\ \A o \in Objects : level[o] <= Capacity[o]
    /\ link \in [Objects -> [Dirs -> Items \cup {NULL}]]
    /\ op \in [AllThreads -> SUBSET (Objects \X Dirs)]
    /\ item \in [Items -> ItemState]
    /\ tree \in [Objects -> Items \cup {NULL}]
    /\ waiting_list \in Seq(Items)
    /\ notify \in SUBSET Flags /\ flags \in SUBSET Flags
    /\ pending_queue \in Seq(PendingEntry)
    /\ timer_queue \in Nat
    /\ armed \in BOOLEAN /\ subscribed \in BOOLEAN /\ again \in BOOLEAN /\ due \in BOOLEAN
    /\ pc \in PCs
    /\ cur \in Items \cup {NULL}
    /\ runs \in Nat /\ calls \in Nat

\* A subscribed object's item is allocated, owned by the loop, and the one its link
\* points to.
SubscribedItems ==
    \A o \in Objects : tree[o] # NULL =>
        /\ item[tree[o]].alloc /\ item[tree[o]].owner
        /\ item[tree[o]].object = o
        /\ link[o][item[tree[o]].dir] = tree[o]

\* A link another thread may follow leads to the subscription of its object.
LinkedItems ==
    \A o \in Objects, d \in Dirs : link[o][d] # NULL =>
        link[o][d] = tree[o] /\ item[tree[o]].dir = d

\* A waiting item is subscribed, and waits once.
WaitingItems ==
    /\ \A k \in 1..Len(waiting_list) :
          /\ item[waiting_list[k]].alloc
          /\ tree[item[waiting_list[k]].object] = waiting_list[k]
    /\ \A k, l \in 1..Len(waiting_list) : waiting_list[k] = waiting_list[l] => k = l

\* The item being processed is allocated; only there may it outlive its subscription.
CurrentItem ==
    /\ pc \in {"process", "callback", "finish"} => cur # NULL /\ item[cur].alloc
    /\ pc = "process" => tree[item[cur].object] = cur
    /\ \A i \in Items : item[i].alloc /\ ~item[i].owner =>
          i = cur /\ pc \in {"callback", "finish"}
    /\ \A i \in Items : item[i].alloc /\ item[i].owner => tree[item[i].object] = i

\* No pointer to an item outlives the item and no item outlives its last pointer,
\* whatever is subscribed, unsubscribed and subscribed again from callbacks while
\* other threads notify (furi_event_loop_unsubscribe, free and free_later).
ItemsLive == SubscribedItems /\ LinkedItems /\ WaitingItems /\ CurrentItem

\* The loop was not stopped since it was allocated.
NotStopped == runs = 0 \/ (runs = 1 /\ pc \notin {"user", "none", "undefined"})

\* Until a loop is stopped, whatever is queued for it has its notification bit: set,
\* taken and to be restored, or about to be set again by the branch being run.
\* This is what sync_flags and restore_flags are for.
EventWakeup ==
    waiting_list # <<>> =>
        "Event" \in notify \cup flags \/ pc \in {"process", "callback", "finish", "sync"}
TimerWakeup == timer_queue > 0 => "Timer" \in notify \cup flags
PendingWakeup ==
    pending_queue # <<>> => "Pending" \in notify \cup flags \/ pc \in {"pending", "pendcb"}
NoLostWakeup == NotStopped => EventWakeup /\ TimerWakeup /\ PendingWakeup

\* The level at which an event has to be announced.  A mutex announces no Out event
\* when its Out level rises, which is when it is released.
IsDue(o, d) ==
    /\ GetLevel(o, level[o], d) /\ Announces(o, level[o], d)
    /\ Kind[o] = "mutex" => d = In

\* A level subscription whose level is not zero is in the waiting list, is being
\* processed with its level still to be read, or the call that raised the level has
\* its notification still to send: no order of producer, consumer and loop steps
\* leaves a level nobody will look at.
LevelNotLost ==
    \A o \in Objects :
        tree[o] # NULL /\ ~item[tree[o]].edge /\ IsDue(o, item[tree[o]].dir) =>
            \/ IsWaiting(tree[o])
            \/ \E t \in AllThreads : op[t] = {<<o, item[tree[o]].dir>>}
            \/ tree[o] = cur /\ (pc \in {"process", "callback"} \/ (pc = "finish" /\ again))

\* A thread flag notification that found the loop subscribed is not forgotten before
\* the thread flags callback runs.
ThreadFlagAnswered == NotStopped /\ due => "ThreadFlag" \in notify \cup flags

\* A callback pended outside of pended callbacks is called when the timer requests
\* queued before it are processed.
PendingAfterTimers ==
    NotStopped /\ pc = "pendcb" /\ ~Head(pending_queue).nested =>
        Head(pending_queue).timers = 0

\* The callback the loop calls for an item is read from the memory of a subscription, and
\* furi_event_loop_free finds nothing waiting once everything is unsubscribed.
ItemInUseIsAllocated == pc # "undefined"

\* A stop request made while the loop runs ends furi_event_loop_run.
StopEndsRun == "Stop" \in notify /\ runs > 0 ~> pc \in {"user", "none"}

\* The loop implements EventDelivery: the waiting list is the set of raised events.
Delivery == INSTANCE EventDelivery WITH
    subs <- {o \in Objects : tree[o] # NULL},
    raised <- {item[waiting_list[k]].object : k \in 1..Len(waiting_list)},
    running <- pc \notin {"none", "user"}

DeliverySpec == Delivery!Spec
=============================================================================
