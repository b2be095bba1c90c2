---------------------- MODULE EventLoopDeliveryProofs ----------------------
(***************************************************************************)
(* More proofs about EventLoop, on top of the invariants of                *)
(* EventLoopProofs: levels that are announced, thread flags that are       *)
(* answered, pended callbacks that wait for timer requests, and the steps  *)
(* of EventDelivery that the loop's steps implement.                       *)
(***************************************************************************)
EXTENDS EventLoopProofs

\* What EventLoopProofs shows of every reachable state.
LoopInv == TypeOK /\ Control /\ ItemInv /\ FreeIsEmpty /\ NoLostWakeup

\* The invariant of the loop holds when it is allocated (furi_event_loop_alloc).
LEMMA LoopInit == Init => LoopInv
BY TypeInit, ItemInit DEF LoopInv, Init, Control, FreeIsEmpty, NoLostWakeup, EventWakeup,
   TimerWakeup, PendingWakeup

\* Every step of the system keeps that invariant.
LEMMA LoopInvStep == LoopInv /\ [Next]_vars => LoopInv'
BY TypeStep, ControlStep, ItemStep, FreeStep, WakeupStep DEF LoopInv

\* What follows from the types and from ItemInv about the waiting list.
LEMMA WaitingFacts ==
    ASSUME LoopInv
    PROVE  /\ waiting_list \in Seq(Items) /\ NoDuplicates(waiting_list)
           /\ \A j \in Items : IsWaiting(j) =>
                 item[j].alloc /\ item[j].object \in Objects /\ tree[item[j].object] = j
<1>1. waiting_list \in Seq(Items) /\ NoDuplicates(waiting_list)
    BY DEF LoopInv, TypeOK, ItemInv, ItemsLive, WaitingItems, NoDuplicates
<1>2. ASSUME NEW j \in Items, IsWaiting(j)
      PROVE  item[j].alloc /\ item[j].object \in Objects /\ tree[item[j].object] = j
    <2>1. PICK k \in 1..Len(waiting_list) : waiting_list[k] = j
        BY <1>2 DEF IsWaiting, Has
    <2>2. item[j].alloc /\ tree[item[j].object] = j
        BY <2>1 DEF LoopInv, ItemInv, ItemsLive, WaitingItems
    <2> QED
        BY <2>2 DEF LoopInv, ItemInv, AllocatedItems
<1> QED
    BY <1>1, <1>2

\* furi_event_loop_item_notify adds the item to those that wait, if it is not one of them.
LEMMA NotifyItemHas ==
    ASSUME waiting_list \in Seq(Items), NEW i \in Items, NotifyItem(i)
    PROVE  \A j : Has(waiting_list', j) <=> Has(waiting_list, j) \/ j = i
<1>1. CASE IsWaiting(i)
    BY <1>1 DEF NotifyItem, IsWaiting
<1>2. CASE ~IsWaiting(i)
    <2>1. \A j : Has(Append(waiting_list, i), j) <=> Has(waiting_list, j) \/ j = i
        BY AppendElements
    <2> QED
        BY <1>2, <2>1 DEF NotifyItem
<1> QED
    BY <1>1, <1>2

-----------------------------------------------------------------------------
(* Levels *)

\* LevelNotLost, for one subscription: somebody will look at the level.
Watched(o) ==
    \/ IsWaiting(tree[o])
    \/ \E t \in AllThreads : op[t] = {<<o, item[tree[o]].dir>>}
    \/ tree[o] = cur /\ (pc \in {"process", "callback"} \/ (pc = "finish" /\ again))

\* A subscription for the level with its level reached.
Raised(o) == tree[o] # NULL /\ ~item[tree[o]].edge /\ IsDue(o, item[tree[o]].dir)

\* A step that moves no level, withdraws no notification and leaves the item in process
\* where it is keeps what LevelNotLost says of a subscription it does not touch.
LEMMA WatchedFrame ==
    ASSUME LevelNotLost, NEW o \in Objects, UNCHANGED <<tree[o], item[tree[o]], level[o]>>,
           IsWaiting(tree[o]) => IsWaiting(tree[o])',
           \A t \in AllThreads :
              op'[t] = op[t] \/ op[t] # {<<o, item[tree[o]].dir>>} \/ IsWaiting(tree[o])',
           \/ UNCHANGED <<cur, pc, again>>
           \/ pc \notin {"process", "callback", "finish"}
           \/ tree[o] # cur
    PROVE  Raised(o)' => Watched(o)'
BY DEF LevelNotLost, Raised, Watched, IsDue

\* So does a step that touches none.
LEMMA LevelFrame ==
    ASSUME LevelNotLost, UNCHANGED <<level, item, tree, waiting_list, op>>,
           UNCHANGED <<cur, pc, again>> \/ pc \notin {"process", "callback", "finish"}
    PROVE  LevelNotLost'
<1> SUFFICES ASSUME NEW o \in Objects PROVE Raised(o)' => Watched(o)'
    BY DEF LevelNotLost, Raised, Watched
<1> QED
    BY WatchedFrame DEF IsWaiting

\* A primitive that moves in one direction has the notification of that direction to
\* send; in the other, its level is no higher than before.
LEMMA MovedLevel ==
    ASSUME LoopInv, LevelNotLost, NEW t \in AllThreads, NEW o \in Objects, NEW d \in Dirs,
           op[t] = {}, op' = [op EXCEPT ![t] = {<<o, d>>}],
           \A p \in Objects : p # o => level'[p] = level[p],
           \A c \in Dirs : c # d /\ IsDue(o, c)' => IsDue(o, c),
           UNCHANGED <<item, tree, waiting_list, cur, pc, again>>
    PROVE  LevelNotLost'
<1> SUFFICES ASSUME NEW p \in Objects, Raised(p)' PROVE Watched(p)'
    BY DEF LevelNotLost, Raised, Watched
<1> DEFINE x == item[tree[p]].dir
<1>1. tree[p] # NULL /\ ~item[tree[p]].edge /\ IsDue(p, x)'
    BY DEF Raised, IsDue
<1>2. x \in Dirs
    BY <1>1, Subscription DEF LoopInv
<1>3. /\ op'[t] = {<<o, d>>} /\ \A u \in AllThreads : u # t => op'[u] = op[u]
    BY DEF LoopInv, TypeOK
<1>4. CASE p = o /\ x = d
    BY <1>3, <1>4 DEF Watched
<1>5. CASE p # o \/ x # d
    <2>1. IsDue(p, x)
        BY <1>1, <1>2, <1>5 DEF IsDue
    <2>2. Watched(p)
        BY <1>1, <2>1 DEF LevelNotLost, Watched
    <2>3. \A u \in AllThreads : op[u] = {<<p, x>>} => op'[u] = {<<p, x>>}
        BY <1>3
    <2> QED
        BY <2>2, <2>3 DEF Watched, IsWaiting
<1> QED
    BY <1>4, <1>5

\* furi_event_loop_link_notify puts a subscription whose level is reached in the list.
LEMMA NotifiedLevel ==
    ASSUME LoopInv, NEW o \in Objects, NEW d \in Dirs, NotifyLink(o, d), tree[o] # NULL,
           item[tree[o]].dir = d, IsDue(o, d)
    PROVE  Has(waiting_list', tree[o])
<1>1. link[o][d] = tree[o] /\ tree[o] \in Items
    BY Subscription DEF LoopInv
<1>2. NotifyItem(tree[o])
    BY <1>1 DEF NotifyLink, IsDue
<1>3. waiting_list \in Seq(Items)
    BY DEF LoopInv, TypeOK
<1> QED
    BY <1>1, <1>2, <1>3, NotifyItemHas

\* It takes nothing out of the list.
LEMMA NotifyKeepsWaiting ==
    ASSUME LoopInv, NEW o \in Objects, NEW d \in Dirs, NotifyLink(o, d)
    PROVE  \A j : Has(waiting_list, j) => Has(waiting_list', j)
<1>1. CASE link[o][d] # NULL /\ Announces(o, level[o], d)
    <2>1. link[o][d] \in Items /\ waiting_list \in Seq(Items)
        BY <1>1 DEF LoopInv, TypeOK
    <2>2. NotifyItem(link[o][d])
        BY <1>1 DEF NotifyLink
    <2> QED
        BY <2>1, <2>2, NotifyItemHas
<1>2. CASE ~(link[o][d] # NULL /\ Announces(o, level[o], d))
    BY <1>2 DEF NotifyLink
<1> QED
    BY <1>1, <1>2

\* An event flag moves and notifies at once.
LEMMA FlagMoved ==
    ASSUME LoopInv, LevelNotLost, NEW o \in Objects, NEW d \in Dirs, NotifyLink(o, d),
           Kind[o] = "flag",
           \A p \in Objects : p # o => level'[p] = level[p],
           \A c \in Dirs : c # d /\ IsDue(o, c)' => IsDue(o, c),
           UNCHANGED <<item, tree, op, cur, pc, again>>
    PROVE  LevelNotLost'
<1> SUFFICES ASSUME NEW p \in Objects, Raised(p)' PROVE Watched(p)'
    BY DEF LevelNotLost, Raised, Watched
<1> DEFINE x == item[tree[p]].dir
<1>1. tree[p] # NULL /\ ~item[tree[p]].edge /\ IsDue(p, x)' /\ UNCHANGED <<tree[p], item[tree[p]]>>
    BY DEF Raised, IsDue
<1>2. x \in Dirs
    BY <1>1, Subscription DEF LoopInv
<1>3. CASE p = o /\ x = d
    <2>1. link[o][d] = tree[o] /\ tree[o] \in Items /\ waiting_list \in Seq(Items)
        BY <1>1, <1>3, Subscription DEF LoopInv, TypeOK
    <2>2. NotifyItem(tree[o])
        BY <1>1, <1>3, <2>1 DEF NotifyLink, Announces
    <2> QED
        BY <1>1, <1>3, <2>1, <2>2, NotifyItemHas DEF Watched, IsWaiting
<1>4. CASE p # o \/ x # d
    <2>1. IsDue(p, x)
        BY <1>1, <1>2, <1>4 DEF IsDue
    <2>2. Watched(p)
        BY <1>1, <2>1 DEF LevelNotLost, Watched
    <2> QED
        BY <2>2, NotifyKeepsWaiting DEF Watched, IsWaiting
<1> QED
    BY <1>3, <1>4

\* Cancelling a subscription in a callback, or outside, leaves the others watched.
LEMMA DetachedLevel ==
    ASSUME LoopInv, LevelNotLost, NEW o \in Objects, tree[o] # NULL, NEW isCurrent \in BOOLEAN,
           Detach(tree[o], isCurrent), UNCHANGED <<level, op, cur, pc, again>>
    PROVE  LevelNotLost'
<1>1. tree[o] \in Items /\ item[tree[o]].object = o
    BY Subscription DEF LoopInv
<1>2. /\ tree'[o] = NULL /\ \A p \in Objects : p # o => tree'[p] = tree[p]
      /\ \A j \in Items : j # tree[o] => item'[j] = item[j]
    BY <1>1 DEF Detach, LoopInv, TypeOK
<1>3. \A j : j # tree[o] /\ Has(waiting_list, j) => Has(waiting_list', j)
    <2>1. waiting_list' = Unlink(waiting_list, tree[o])
        BY DEF Detach
    <2> QED
        BY <2>1, WaitingFacts, UnlinkHas
<1> SUFFICES ASSUME NEW p \in Objects PROVE Raised(p)' => Watched(p)'
    BY DEF LevelNotLost, Raised, Watched
<1>4. CASE p = o \/ tree[p] = NULL
    BY <1>2, <1>4 DEF Raised
<1>5. CASE p # o /\ tree[p] # NULL
    <2>1. tree[p] \in Items /\ tree[p] # tree[o]
        BY <1>1, <1>5, Subscription DEF LoopInv
    <2>2. UNCHANGED <<tree[p], item[tree[p]], level[p]>>
        BY <1>2, <1>5, <2>1
    <2>3. IsWaiting(tree[p]) => IsWaiting(tree[p])'
        BY <1>3, <2>1, <2>2 DEF IsWaiting
    <2> QED
        BY <2>2, <2>3, WatchedFrame
<1> QED
    BY <1>4, <1>5

\* Every step keeps the levels announced.
LEMMA LevelStep ==
    ASSUME LoopInv, LevelNotLost, [Next]_vars
    PROVE  LevelNotLost'
<1> USE DEF listVars, loopVars, deferVars
<1>0. /\ level \in [Objects -> Nat] /\ op \in [AllThreads -> SUBSET (Objects \X Dirs)]
      /\ waiting_list \in Seq(Items) /\ NoDuplicates(waiting_list)
      /\ \A p \in Objects : level[p] \in Nat /\ Capacity[p] \in Nat /\ Trigger[p] \in Nat
    BY CapacityNat, WaitingFacts, ObjectsAssumption DEF LoopInv, TypeOK, ObjectsAssumption
<1>1. CASE UNCHANGED vars
    BY <1>1, LevelFrame DEF vars
<1>2. ASSUME NEW t \in AllThreads, NEW o \in Objects, Put(t, o)
      PROVE  LevelNotLost'
    <2>1. PICK n \in Amounts(o, Capacity[o] - level[o]) :
             level' = [level EXCEPT ![o] = level[o] + n]
        BY <1>2 DEF Put
    <2>2. n \in Nat
        BY <2>1 DEF Amounts
    <2>3. /\ level'[o] = level[o] + n
          /\ \A p \in Objects : p # o => level'[p] = level[p]
        BY <1>0, <2>1
    <2>4. IsDue(o, Out)' => IsDue(o, Out)
        BY <1>0, <2>2, <2>3 DEF IsDue, GetLevel, Announces, In, Out
    <2>5. op[t] = {} /\ op' = [op EXCEPT ![t] = {<<o, In>>}]
          /\ UNCHANGED <<item, tree, waiting_list, cur, pc, again>>
        BY <1>2 DEF Put, May, OwnerMay
    <2>6. In \in Dirs /\ \A c \in Dirs : c # In => c = Out
        BY DEF Dirs
    <2> QED
        BY <2>3, <2>4, <2>5, <2>6, MovedLevel
<1>3. ASSUME NEW t \in AllThreads, NEW o \in Objects, Get(t, o)
      PROVE  LevelNotLost'
    <2>1. PICK n \in Amounts(o, level[o]) :
             n <= level[o] /\ level' = [level EXCEPT ![o] = level[o] - n]
        BY <1>3 DEF Get
    <2>2. n \in Nat
        BY <2>1 DEF Amounts
    <2>3. /\ level'[o] = level[o] - n
          /\ \A p \in Objects : p # o => level'[p] = level[p]
        BY <1>0, <2>1
    <2>4. IsDue(o, In)' => IsDue(o, In)
        BY <1>0, <2>2, <2>3 DEF IsDue, GetLevel, Announces, In, Out
    <2>5. op[t] = {} /\ op' = [op EXCEPT ![t] = {<<o, Out>>}]
          /\ UNCHANGED <<item, tree, waiting_list, cur, pc, again>>
        BY <1>3 DEF Get, May, OwnerMay
    <2>6. Out \in Dirs /\ \A c \in Dirs : c # Out => c = In
        BY DEF Dirs
    <2> QED
        BY <2>3, <2>4, <2>5, <2>6, MovedLevel
<1>4. ASSUME NEW t \in AllThreads, NEW o \in Objects, Reset(t, o)
      PROVE  LevelNotLost'
    <2>1. /\ level'[o] = 0
          /\ \A p \in Objects : p # o => level'[p] = level[p]
        BY <1>0, <1>4 DEF Reset
    <2>2. IsDue(o, In)' => IsDue(o, In)
        BY <1>0, <2>1, <1>4 DEF IsDue, GetLevel, Reset
    <2>3. op[t] = {} /\ op' = [op EXCEPT ![t] = {<<o, Out>>}]
          /\ UNCHANGED <<item, tree, waiting_list, cur, pc, again>>
        BY <1>4 DEF Reset, May, OwnerMay
    <2>4. Out \in Dirs /\ \A c \in Dirs : c # Out => c = In
        BY DEF Dirs
    <2> QED
        BY <2>1, <2>2, <2>3, <2>4, MovedLevel
<1>5. ASSUME NEW t \in AllThreads, NEW o \in Objects, EventFlagSet(t, o)
      PROVE  LevelNotLost'
    <2>1. /\ Kind[o] = "flag" /\ NotifyLink(o, In)
          /\ UNCHANGED <<item, tree, op, cur, pc, again>>
        BY <1>5 DEF EventFlagSet
    <2>2. /\ level'[o] \in Nat /\ level'[o] >= level[o]
          /\ \A p \in Objects : p # o => level'[p] = level[p]
        BY <1>0, <1>5 DEF EventFlagSet
    <2>3. IsDue(o, Out)' => IsDue(o, Out)
        BY <1>0, <2>1, <2>2 DEF IsDue, GetLevel, Announces, In, Out
    <2>4. In \in Dirs /\ \A c \in Dirs : c # In => c = Out
        BY DEF Dirs
    <2> QED
        BY <2>1, <2>2, <2>3, <2>4, FlagMoved
<1>6. ASSUME NEW t \in AllThreads, NEW o \in Objects, EventFlagClear(t, o)
      PROVE  LevelNotLost'
    <2>1. /\ Kind[o] = "flag" /\ NotifyLink(o, Out)
          /\ UNCHANGED <<item, tree, op, cur, pc, again>>
        BY <1>6 DEF EventFlagClear
    <2>2. /\ level'[o] \in Nat /\ level'[o] <= level[o]
          /\ \A p \in Objects : p # o => level'[p] = level[p]
        BY <1>0, <1>6 DEF EventFlagClear
    <2>3. IsDue(o, In)' => IsDue(o, In)
        BY <1>0, <2>1, <2>2 DEF IsDue, GetLevel, Announces, In, Out
    <2>4. Out \in Dirs /\ \A c \in Dirs : c # Out => c = In
        BY DEF Dirs
    <2> QED
        BY <2>1, <2>2, <2>3, <2>4, FlagMoved
<1>7. ASSUME NEW t \in AllThreads, SetThreadFlags(t)
      PROVE  LevelNotLost'
    BY <1>7, LevelFrame DEF SetThreadFlags
<1>8. ASSUME NEW t \in AllThreads, Stop(t)
      PROVE  LevelNotLost'
    BY <1>8, LevelFrame DEF Stop
<1>9. ASSUME NEW t \in AllThreads, LinkNotify(t)
      PROVE  LevelNotLost'
    <2>1. PICK p \in Objects, d \in Dirs : op[t] = {<<p, d>>} /\ NotifyLink(p, d)
        BY <1>9 DEF LinkNotify
    <2>2. /\ \A u \in AllThreads : u # t => op'[u] = op[u]
          /\ UNCHANGED <<level, item, tree, cur, pc, again>>
        BY <1>0, <1>9 DEF LinkNotify
    <2>3. \A j : Has(waiting_list, j) => Has(waiting_list', j)
        BY <2>1, NotifyKeepsWaiting
    <2> SUFFICES ASSUME NEW o \in Objects, Raised(o)' PROVE Watched(o)'
        BY DEF LevelNotLost, Raised, Watched
    <2>4. tree[o] # NULL /\ IsDue(o, item[tree[o]].dir)
        BY <2>2 DEF Raised, IsDue
    <2>5. CASE o = p /\ item[tree[o]].dir = d
        <3>1. Has(waiting_list', tree[o])
            BY <2>1, <2>4, <2>5, NotifiedLevel
        <3> QED
            BY <2>2, <3>1 DEF Watched, IsWaiting
    <2>6. CASE o # p \/ item[tree[o]].dir # d
        <3>1. <<p, d>> # <<o, item[tree[o]].dir>>
            BY <2>6
        <3>2. op[t] # {<<o, item[tree[o]].dir>>}
            BY <2>1, <3>1
        <3> QED
            BY <2>2, <2>3, <3>2, WatchedFrame DEF IsWaiting
    <2> QED
        BY <2>5, <2>6
<1>10. ASSUME NEW o \in Objects, NEW d \in Dirs, NEW m \in Modes, Subscribe(o, d, m)
      PROVE  LevelNotLost'
    <2>1. PICK i \in Items : SubscribeItem(o, d, m, i)
        BY <1>10 DEF Subscribe
    <2>2. /\ tree[o] = NULL /\ ~item[i].alloc /\ UNCHANGED <<level, op, cur, pc, again>>
          /\ tree'[o] = i /\ \A p \in Objects : p # o => tree'[p] = tree[p]
          /\ item'[i].dir = d /\ item'[i].edge = m.edge
          /\ \A j \in Items : j # i => item'[j] = item[j]
        BY <2>1, <1>10 DEF Subscribe, SubscribeItem, LoopInv, TypeOK
    <2>3. NotifyItem(i) \/ UNCHANGED waiting_list
        BY <2>1 DEF SubscribeItem
    <2>4. \A j : Has(waiting_list, j) => Has(waiting_list', j)
        BY <1>0, <2>3, NotifyItemHas
    <2>5. Raised(o)' => Watched(o)'
        <3> SUFFICES ASSUME Raised(o)' PROVE Watched(o)'
            OBVIOUS
        <3>1. ~m.edge /\ GetLevel(o, level[o], d)
            BY <2>2 DEF Raised, IsDue
        <3>2. NotifyItem(i)
            BY <2>1, <3>1 DEF SubscribeItem
        <3> QED
            BY <1>0, <2>2, <3>2, NotifyItemHas DEF Watched, IsWaiting
    <2>6. ASSUME NEW p \in Objects, p # o
          PROVE  Raised(p)' => Watched(p)'
        <3>1. CASE tree[p] = NULL
            BY <2>2, <2>6, <3>1 DEF Raised
        <3>2. CASE tree[p] # NULL
            <4>1. tree[p] \in Items /\ tree[p] # i
                BY <2>2, <3>2, Subscription DEF LoopInv
            <4> QED
                BY <2>2, <2>4, <2>6, <4>1, WatchedFrame DEF IsWaiting
        <3> QED
            BY <3>1, <3>2
    <2> QED
        BY <2>5, <2>6 DEF LevelNotLost, Raised, Watched
<1>11. ASSUME NEW o \in Objects, Unsubscribe(o)
      PROVE  LevelNotLost'
    <2>1. /\ tree[o] # NULL /\ Detach(tree[o], IsCurrent(tree[o]))
          /\ UNCHANGED <<level, op, cur, pc, again>>
        BY <1>11 DEF Unsubscribe
    <2> QED
        BY <2>1, DetachedLevel DEF IsCurrent
<1>12. CASE SubscribeThreadFlags
    BY <1>12, LevelFrame DEF SubscribeThreadFlags
<1>13. CASE UnsubscribeThreadFlags
    BY <1>13, LevelFrame DEF UnsubscribeThreadFlags
<1>14. CASE PendCallback
    BY <1>14, LevelFrame DEF PendCallback
<1>15. CASE TimerCommand
    BY <1>15, LevelFrame DEF TimerCommand
<1>16. CASE FreeLoop
    BY <1>16, LevelFrame DEF FreeLoop
<1>17. CASE AllocLoop
    BY <1>17, LevelFrame DEF AllocLoop
<1>18. CASE Run
    BY <1>18, LevelFrame DEF Run
<1>19. CASE TakeFlags
    BY <1>19, LevelFrame DEF TakeFlags
<1>20. CASE DispatchStop
    BY <1>20, LevelFrame DEF DispatchStop
<1>21. CASE DispatchEvent
    <2>1. CASE waiting_list = <<>>
        BY <1>21, <2>1, LevelFrame DEF DispatchEvent
    <2>2. CASE waiting_list # <<>>
        <3>1. /\ cur' = Head(waiting_list) /\ waiting_list' = Tail(waiting_list)
              /\ pc = "dispatch" /\ pc' = "process" /\ UNCHANGED <<level, item, tree, op>>
            BY <1>21, <2>2 DEF DispatchEvent
        <3>2. \A j : Has(waiting_list, j) => Has(waiting_list', j) \/ j = cur'
            BY <1>0, <2>2, <3>1, TailElements
        <3> SUFFICES ASSUME NEW o \in Objects, Raised(o)' PROVE Watched(o)'
            BY DEF LevelNotLost, Raised, Watched
        <3>3. Watched(o)
            BY <3>1 DEF LevelNotLost, Raised, Watched, IsDue
        <3> QED
            BY <3>1, <3>2, <3>3 DEF Watched, IsWaiting
    <2> QED
        BY <2>1, <2>2
<1>22. CASE DispatchTimer
    BY <1>22, LevelFrame DEF DispatchTimer
<1>23. CASE DispatchPending
    BY <1>23, LevelFrame DEF DispatchPending
<1>24. CASE DispatchThreadFlag
    BY <1>24, LevelFrame DEF DispatchThreadFlag
<1>25. CASE ProcessItem
    <2>1. /\ pc = "process" /\ cur \in Items /\ item[cur].object \in Objects
          /\ tree[item[cur].object] = cur /\ cur # NULL
        BY <1>25 DEF ProcessItem, LoopInv, Control, ItemInv, ItemsLive, CurrentItem, AllocatedItems
    <2>2. CASE item[cur].once
        <3>1. /\ Detach(cur, FALSE) /\ pc' = "undefined" /\ UNCHANGED <<level, op, cur>>
            BY <1>25, <2>2 DEF ProcessItem
        <3> SUFFICES ASSUME NEW o \in Objects PROVE Raised(o)' => Watched(o)'
            BY DEF LevelNotLost, Raised, Watched
        <3>2. CASE o = item[cur].object
            BY <2>1, <3>1, <3>2 DEF Detach, LoopInv, TypeOK, Raised
        <3>3. CASE o # item[cur].object /\ tree[o] # NULL
            <4>1. tree[o] \in Items /\ tree[o] # cur
                BY <3>3, Subscription DEF LoopInv
            <4>2. UNCHANGED <<tree[o], item[tree[o]], level[o]>>
                BY <2>1, <3>1, <3>3, <4>1 DEF Detach, LoopInv, TypeOK
            <4>3. Has(waiting_list, tree[o]) => Has(waiting_list', tree[o])
                BY <1>0, <3>1, <4>1, UnlinkHas DEF Detach
            <4> QED
                BY <3>1, <4>1, <4>2, <4>3, WatchedFrame DEF IsWaiting
        <3>4. CASE o # item[cur].object /\ tree[o] = NULL
            BY <2>1, <3>1, <3>4 DEF Detach, LoopInv, TypeOK, Raised
        <3> QED
            BY <3>2, <3>3, <3>4
    <2>3. CASE ~item[cur].once
        <3>1. /\ UNCHANGED <<level, item, tree, waiting_list, op, cur>>
              /\ \/ pc' = "callback"
                 \/ /\ pc' = "finish" /\ ~item[cur].edge
                    /\ ~GetLevel(item[cur].object, level[item[cur].object], item[cur].dir)
                 \/ item[cur].edge /\ pc' \in {"callback", "finish"}
            BY <1>25, <2>3 DEF ProcessItem
        <3> SUFFICES ASSUME NEW o \in Objects, Raised(o)' PROVE Watched(o)'
            BY DEF LevelNotLost, Raised, Watched
        <3>2. Raised(o) /\ Watched(o)
            BY <3>1 DEF LevelNotLost, Raised, Watched, IsDue
        <3>3. tree[o] = cur => item[cur].object = o
            BY <3>2, Subscription DEF LoopInv, Raised
        <3>4. tree[o] = cur => pc' = "callback" \/ item[cur].edge
            BY <3>1, <3>2, <3>3 DEF Raised, IsDue
        <3> QED
            BY <3>1, <3>2, <3>4 DEF Raised, Watched, IsWaiting
    <2> QED
        BY <2>2, <2>3
<1>26. CASE CallbackReturn
    <2>1. /\ UNCHANGED <<level, item, tree, waiting_list, op, cur>>
          /\ pc = "callback" /\ pc' = "finish"
          /\ again' = (~item[cur].edge /\ GetLevel(item[cur].object, level[item[cur].object],
                                                   item[cur].dir))
        BY <1>26 DEF CallbackReturn
    <2> SUFFICES ASSUME NEW o \in Objects, Raised(o)' PROVE Watched(o)'
        BY DEF LevelNotLost, Raised, Watched
    <2>2. Raised(o) /\ Watched(o)
        BY <2>1 DEF LevelNotLost, Raised, Watched, IsDue
    <2>3. tree[o] = cur => item[cur].object = o
        BY <2>2, Subscription DEF LoopInv, Raised
    <2>4. tree[o] = cur => again'
        BY <2>1, <2>2, <2>3 DEF Raised, IsDue
    <2> QED
        BY <2>1, <2>2, <2>4 DEF Watched, IsWaiting
<1>27. CASE FinishItem
    <2>1. /\ pc = "finish" /\ cur \in Items /\ UNCHANGED <<level, tree, op>>
        BY <1>27 DEF FinishItem, LoopInv, Control
    <2>2. \A j \in Items : j # cur \/ item[cur].owner => item'[j] = item[j]
        BY <1>27, <2>1 DEF FinishItem, LoopInv, TypeOK
    <2>3. /\ \A j : Has(waiting_list, j) => Has(waiting_list', j)
          /\ item[cur].owner /\ again => Has(waiting_list', cur)
        <3>1. CASE item[cur].owner /\ again
            <4>1. NotifyItem(cur)
                BY <1>27, <3>1 DEF FinishItem
            <4> QED
                BY <1>0, <2>1, <4>1, NotifyItemHas
        <3>2. CASE ~(item[cur].owner /\ again)
            BY <1>27, <3>2 DEF FinishItem
        <3> QED
            BY <3>1, <3>2
    <2> SUFFICES ASSUME NEW o \in Objects, Raised(o)' PROVE Watched(o)'
        BY DEF LevelNotLost, Raised, Watched
    <2>4. tree[o] # NULL /\ tree[o] \in Items /\ item[tree[o]].owner
        BY <2>1, Subscription DEF Raised, LoopInv
    <2>5. item'[tree[o]] = item[tree[o]]
        BY <2>2, <2>4
    <2>6. Raised(o) /\ Watched(o)
        BY <2>1, <2>5 DEF LevelNotLost, Raised, Watched, IsDue
    <2>7. tree[o] = cur /\ again => Has(waiting_list', tree[o])
        BY <2>3, <2>4
    <2> QED
        BY <2>1, <2>3, <2>5, <2>6, <2>7 DEF Watched, IsWaiting
<1>28. CASE SyncFlags
    BY <1>28, LevelFrame DEF SyncFlags
<1>29. CASE RestoreFlags
    BY <1>29, LevelFrame DEF RestoreFlags
<1>30. CASE CallPending
    BY <1>30, LevelFrame DEF CallPending
<1>31. CASE PendingReturn
    BY <1>31, LevelFrame DEF PendingReturn
<1>32. CASE SimpleReturn
    BY <1>32, LevelFrame DEF SimpleReturn
<1>33. CASE TimeOut
    BY <1>33, LevelFrame DEF TimeOut
<1> QED
    BY <1>1, <1>2, <1>3, <1>4, <1>5, <1>6, <1>7, <1>8, <1>9, <1>10, <1>11, <1>12,
       <1>13, <1>14, <1>15, <1>16, <1>17, <1>18, <1>19, <1>20, <1>21, <1>22, <1>23,
       <1>24, <1>25, <1>26, <1>27, <1>28, <1>29, <1>30, <1>31, <1>32, <1>33
       DEF Next, ObjectUse, OwnerCall, LoopStep

\* THEOREM: no order of the steps of producers, consumers and the loop leaves a level
\* that was subscribed to and reached without a waiting item, a reading that is still to
\* come or a notification that is still to be sent, for any number of primitives and threads.
THEOREM LevelsAreSeen == Spec => []LevelNotLost
<1>1. Init => LoopInv /\ LevelNotLost
    BY LoopInit DEF Init, LevelNotLost
<1>2. LoopInv /\ LevelNotLost /\ [Next]_vars => (LoopInv /\ LevelNotLost)'
    BY LoopInvStep, LevelStep
<1> QED
    BY <1>1, <1>2, PTL DEF Spec

-----------------------------------------------------------------------------
(* Thread flags *)

NonePended == pending_queue = <<>>

\* Only a subscribed loop has a notification to answer, and where no callback was pended
\* the branch that keeps none of the other flags (process_pending_callbacks) is not taken.
FlagInv ==
    /\ "Pending" \notin notify \cup flags
    /\ due => subscribed
    /\ ThreadFlagAnswered

\* A step that pends no callback and finds none pended keeps FlagInv.
LEMMA FlagStep ==
    ASSUME NonePended, NonePended', LoopInv, FlagInv, [Next]_vars
    PROVE  FlagInv'
<1> USE DEF FlagInv, ThreadFlagAnswered, NotStopped, listVars, loopVars, deferVars
<1>0. /\ runs \in Nat /\ Control /\ notify \in SUBSET Flags /\ flags \in SUBSET Flags
      /\ due \in BOOLEAN /\ subscribed \in BOOLEAN
    BY DEF LoopInv, TypeOK
<1>1. CASE UNCHANGED vars
    BY <1>0, <1>1 DEF vars
<1>2. ASSUME NEW t \in AllThreads, NEW o \in Objects, Put(t, o)
      PROVE  FlagInv'
    BY <1>0, <1>2 DEF Put
<1>3. ASSUME NEW t \in AllThreads, NEW o \in Objects, Get(t, o)
      PROVE  FlagInv'
    BY <1>0, <1>3 DEF Get
<1>4. ASSUME NEW t \in AllThreads, NEW o \in Objects, Reset(t, o)
      PROVE  FlagInv'
    BY <1>0, <1>4 DEF Reset
<1>5. ASSUME NEW t \in AllThreads, NEW o \in Objects, EventFlagSet(t, o)
      PROVE  FlagInv'
    BY <1>0, <1>5 DEF EventFlagSet, NotifyLink, NotifyItem
<1>6. ASSUME NEW t \in AllThreads, NEW o \in Objects, EventFlagClear(t, o)
      PROVE  FlagInv'
    BY <1>0, <1>6 DEF EventFlagClear, NotifyLink, NotifyItem
<1>7. ASSUME NEW t \in AllThreads, SetThreadFlags(t)
      PROVE  FlagInv'
    BY <1>0, <1>7 DEF SetThreadFlags
<1>8. ASSUME NEW t \in AllThreads, Stop(t)
      PROVE  FlagInv'
    BY <1>0, <1>8 DEF Stop
<1>9. ASSUME NEW t \in AllThreads, LinkNotify(t)
      PROVE  FlagInv'
    BY <1>0, <1>9 DEF LinkNotify, NotifyLink, NotifyItem
<1>10. ASSUME NEW o \in Objects, NEW d \in Dirs, NEW m \in Modes, Subscribe(o, d, m)
      PROVE  FlagInv'
    <2>1. PICK i \in Items : SubscribeItem(o, d, m, i)
        BY <1>10 DEF Subscribe
    <2>2. UNCHANGED notify \/ notify' = notify \cup {"Event"}
        BY <2>1 DEF SubscribeItem, NotifyItem
    <2> QED
        BY <1>0, <1>10, <2>2 DEF Subscribe
<1>11. ASSUME NEW o \in Objects, Unsubscribe(o)
      PROVE  FlagInv'
    BY <1>0, <1>11 DEF Unsubscribe
<1>12. CASE SubscribeThreadFlags
    BY <1>0, <1>12 DEF SubscribeThreadFlags
<1>13. CASE UnsubscribeThreadFlags
    BY <1>0, <1>13 DEF UnsubscribeThreadFlags
<1>14. CASE PendCallback
    <2>1. pending_queue \in Seq(PendingEntry)
        BY DEF LoopInv, TypeOK
    <2>2. \E e : pending_queue' = Append(pending_queue, e)
        BY <1>14 DEF PendCallback
    <2>3. pending_queue' # <<>>
        BY <2>1, <2>2
    <2> QED
        BY <2>3 DEF NonePended
<1>15. CASE TimerCommand
    BY <1>0, <1>15 DEF TimerCommand
<1>16. CASE FreeLoop
    BY <1>0, <1>16 DEF FreeLoop
<1>17. CASE AllocLoop
    BY <1>0, <1>17 DEF AllocLoop
<1>18. CASE Run
    BY <1>0, <1>18 DEF Run, Control
<1>19. CASE TakeFlags
    BY <1>0, <1>19 DEF TakeFlags, Control
<1>20. CASE DispatchStop
    BY <1>0, <1>20 DEF DispatchStop, FirstFlag, Flags, Control
<1>21. CASE DispatchEvent
    BY <1>0, <1>21 DEF DispatchEvent, FirstFlag, Flags, Control
<1>22. CASE DispatchTimer
    BY <1>0, <1>22 DEF DispatchTimer, FirstFlag, Flags, Control
<1>23. CASE DispatchPending
    BY <1>0, <1>23 DEF DispatchPending, FirstFlag, Flags, Control
<1>24. CASE DispatchThreadFlag
    BY <1>0, <1>24 DEF DispatchThreadFlag, FirstFlag, Flags, Control
<1>25. CASE ProcessItem
    <2>1. pc = "process" /\ pc' \in {"undefined", "callback", "finish"}
          /\ UNCHANGED <<notify, flags, due, subscribed, runs>>
        BY <1>25 DEF ProcessItem
    <2> QED
        BY <1>0, <2>1
<1>26. CASE CallbackReturn
    BY <1>0, <1>26 DEF CallbackReturn
<1>27. CASE FinishItem
    <2>1. /\ pc = "finish" /\ pc' = "sync" /\ UNCHANGED <<flags, due, subscribed, runs>>
          /\ UNCHANGED notify \/ notify' = notify \cup {"Event"}
        BY <1>27 DEF FinishItem, NotifyItem
    <2> QED
        BY <1>0, <2>1
<1>28. CASE SyncFlags
    BY <1>0, <1>28 DEF SyncFlags
<1>29. CASE RestoreFlags
    BY <1>0, <1>29 DEF RestoreFlags
<1>30. CASE CallPending
    BY <1>0, <1>30 DEF CallPending
<1>31. CASE PendingReturn
    BY <1>0, <1>31 DEF PendingReturn
<1>32. CASE SimpleReturn
    BY <1>0, <1>32 DEF SimpleReturn
<1>33. CASE TimeOut
    BY <1>0, <1>33 DEF TimeOut
<1> QED
    BY <1>1, <1>2, <1>3, <1>4, <1>5, <1>6, <1>7, <1>8, <1>9, <1>10, <1>11, <1>12,
       <1>13, <1>14, <1>15, <1>16, <1>17, <1>18, <1>19, <1>20, <1>21, <1>22, <1>23,
       <1>24, <1>25, <1>26, <1>27, <1>28, <1>29, <1>30, <1>31, <1>32, <1>33
       DEF Next, ObjectUse, OwnerCall, LoopStep

\* THEOREM: a thread flag notification that finds the loop subscribed is not forgotten
\* before the callback runs, in every behaviour that pends no callback: of the branches of
\* furi_event_loop_run only the one that processes pended callbacks loses it.
THEOREM ThreadFlagsAreAnswered == Spec /\ []NonePended => []ThreadFlagAnswered
<1>1. Init => LoopInv /\ FlagInv
    BY LoopInit DEF Init, FlagInv, ThreadFlagAnswered
<1>2. NonePended /\ NonePended' /\ LoopInv /\ FlagInv /\ [Next]_vars => (LoopInv /\ FlagInv)'
    BY LoopInvStep, FlagStep
<1>3. FlagInv => ThreadFlagAnswered
    BY DEF FlagInv
<1> QED
    BY <1>1, <1>2, <1>3, PTL DEF Spec

-----------------------------------------------------------------------------
(* Pended callbacks and timer requests *)

\* An entry that has requests to wait for finds some queued; requests queued before the
\* flags were taken have their flag among those taken, for only the loop's own thread
\* queues them; and so the callbacks called have none to wait for, but those that
\* were pended by others of them.
TimersFirst ==
    /\ \A k \in 1..Len(pending_queue) : pending_queue[k].timers > 0 => timer_queue > 0
    /\ NotStopped /\ pc = "dispatch" /\ timer_queue > 0 => "Timer" \in flags
    /\ NotStopped /\ pc \in {"pending", "pendcb"} =>
          \A k \in 1..Len(pending_queue) :
              ~pending_queue[k].nested => pending_queue[k].timers = 0

\* Every step keeps the order of pended callbacks and timer requests.
LEMMA TimersFirstStep ==
    ASSUME LoopInv, TimersFirst, [Next]_vars
    PROVE  TimersFirst'
<1> USE DEF TimersFirst, NotStopped, listVars, loopVars, deferVars
<1>a. /\ runs \in Nat /\ Control /\ timer_queue \in Nat /\ pending_queue \in Seq(PendingEntry)
      /\ NotStopped => TimerWakeup
    BY DEF LoopInv, TypeOK, NoLostWakeup
<1>b. \A k \in 1..Len(pending_queue) : pending_queue[k] \in PendingEntry
    BY <1>a
<1>c. \A k \in 1..Len(pending_queue) : pending_queue[k].timers \in Nat
    BY <1>b DEF PendingEntry
<1>0. /\ runs \in Nat /\ Control /\ timer_queue \in Nat /\ pending_queue \in Seq(PendingEntry)
      /\ \A k \in 1..Len(pending_queue) : pending_queue[k].timers \in Nat
      /\ NotStopped => TimerWakeup
    BY <1>a, <1>c
<1>1. CASE UNCHANGED vars
    BY <1>0, <1>1 DEF vars
<1>2. ASSUME NEW t \in AllThreads, NEW o \in Objects, Put(t, o)
      PROVE  TimersFirst'
    BY <1>0, <1>2 DEF Put
<1>3. ASSUME NEW t \in AllThreads, NEW o \in Objects, Get(t, o)
      PROVE  TimersFirst'
    BY <1>0, <1>3 DEF Get
<1>4. ASSUME NEW t \in AllThreads, NEW o \in Objects, Reset(t, o)
      PROVE  TimersFirst'
    BY <1>0, <1>4 DEF Reset
<1>5. ASSUME NEW t \in AllThreads, NEW o \in Objects, EventFlagSet(t, o)
      PROVE  TimersFirst'
    BY <1>0, <1>5 DEF EventFlagSet
<1>6. ASSUME NEW t \in AllThreads, NEW o \in Objects, EventFlagClear(t, o)
      PROVE  TimersFirst'
    BY <1>0, <1>6 DEF EventFlagClear
<1>7. ASSUME NEW t \in AllThreads, SetThreadFlags(t)
      PROVE  TimersFirst'
    BY <1>0, <1>7 DEF SetThreadFlags
<1>8. ASSUME NEW t \in AllThreads, Stop(t)
      PROVE  TimersFirst'
    BY <1>0, <1>8 DEF Stop
<1>9. ASSUME NEW t \in AllThreads, LinkNotify(t)
      PROVE  TimersFirst'
    BY <1>0, <1>9 DEF LinkNotify
<1>10. ASSUME NEW o \in Objects, NEW d \in Dirs, NEW m \in Modes, Subscribe(o, d, m)
      PROVE  TimersFirst'
    BY <1>0, <1>10 DEF Subscribe
<1>11. ASSUME NEW o \in Objects, Unsubscribe(o)
      PROVE  TimersFirst'
    BY <1>0, <1>11 DEF Unsubscribe
<1>12. CASE SubscribeThreadFlags
    BY <1>0, <1>12 DEF SubscribeThreadFlags
<1>13. CASE UnsubscribeThreadFlags
    BY <1>0, <1>13 DEF UnsubscribeThreadFlags
<1>14. CASE PendCallback
    <2> DEFINE e == [timers |-> timer_queue, nested |-> pc = "pendcb"]
    <2>1. /\ pending_queue' = Append(pending_queue, e)
          /\ UNCHANGED <<timer_queue, pc, flags, runs>> /\ pc \notin {"dispatch", "pending"}
        BY <1>14 DEF PendCallback, OwnerMay, UserCode
    <2> HIDE DEF e
    <2>2. /\ Len(pending_queue') = Len(pending_queue) + 1
          /\ \A k \in 1..Len(pending_queue) : pending_queue'[k] = pending_queue[k]
          /\ pending_queue'[Len(pending_queue) + 1] = e
        BY <1>0, <2>1
    <2>3. \A k \in 1..Len(pending_queue') :
             k \in 1..Len(pending_queue) \/ k = Len(pending_queue) + 1
        BY <1>0, <2>2
    <2>4. e.timers = timer_queue /\ (pc = "pendcb" => e.nested)
        BY DEF e
    <2> QED
        BY <1>0, <2>1, <2>2, <2>3, <2>4
<1>15. CASE TimerCommand
    BY <1>0, <1>15 DEF TimerCommand, OwnerMay, UserCode
<1>16. CASE FreeLoop
    BY <1>0, <1>16 DEF FreeLoop
<1>17. CASE AllocLoop
    BY <1>0, <1>17 DEF AllocLoop
<1>18. CASE Run
    BY <1>0, <1>18 DEF Run
<1>19. CASE TakeFlags
    BY <1>0, <1>19 DEF TakeFlags, TimerWakeup, Control
<1>20. CASE DispatchStop
    BY <1>0, <1>20 DEF DispatchStop, FirstFlag
<1>21. CASE DispatchEvent
    BY <1>0, <1>21 DEF DispatchEvent, FirstFlag
<1>22. CASE DispatchTimer
    <2>1. /\ pending_queue' = [k \in 1..Len(pending_queue) |->
                                  [pending_queue[k] EXCEPT !.timers = 0]]
          /\ pc' = "restore"
        BY <1>22 DEF DispatchTimer
    <2>2. /\ Len(pending_queue') = Len(pending_queue)
          /\ \A k \in 1..Len(pending_queue) :
                pending_queue'[k] = [pending_queue[k] EXCEPT !.timers = 0]
        BY <1>0, <2>1
    <2>3. \A k \in 1..Len(pending_queue) : pending_queue'[k].timers = 0
        BY <1>b, <2>2 DEF PendingEntry
    <2> QED
        BY <1>0, <2>1, <2>2, <2>3
<1>23. CASE DispatchPending
    <2>1. "Timer" \notin flags /\ pc = "dispatch" /\ pc' = "pending"
          /\ UNCHANGED <<pending_queue, timer_queue, runs>>
        BY <1>23 DEF DispatchPending, FirstFlag
    <2> QED
        BY <1>0, <2>1
<1>24. CASE DispatchThreadFlag
    BY <1>0, <1>24 DEF DispatchThreadFlag, FirstFlag
<1>25. CASE ProcessItem
    <2>1. pc' \in {"undefined", "callback", "finish"}
          /\ UNCHANGED <<pending_queue, timer_queue>>
        BY <1>25 DEF ProcessItem
    <2> QED
        BY <1>0, <2>1
<1>26. CASE CallbackReturn
    BY <1>0, <1>26 DEF CallbackReturn
<1>27. CASE FinishItem
    BY <1>0, <1>27 DEF FinishItem
<1>28. CASE SyncFlags
    BY <1>0, <1>28 DEF SyncFlags
<1>29. CASE RestoreFlags
    BY <1>0, <1>29 DEF RestoreFlags
<1>30. CASE CallPending
    BY <1>0, <1>30 DEF CallPending
<1>31. CASE PendingReturn
    <2>1. /\ pending_queue # <<>> /\ pending_queue' = Tail(pending_queue)
          /\ pc = "pendcb" /\ pc' = "pending" /\ UNCHANGED <<timer_queue, runs>>
        BY <1>0, <1>31 DEF PendingReturn, Control
    <2>2. /\ Len(pending_queue) \in Nat \ {0} /\ Len(pending_queue') = Len(pending_queue) - 1
          /\ \A k \in 1..Len(pending_queue') : pending_queue'[k] = pending_queue[k + 1]
        BY <1>0, <2>1
    <2>3. \A k \in 1..Len(pending_queue') : k + 1 \in 1..Len(pending_queue)
        BY <2>2
    <2> QED
        BY <1>0, <2>1, <2>2, <2>3
<1>32. CASE SimpleReturn
    BY <1>0, <1>32 DEF SimpleReturn
<1>33. CASE TimeOut
    BY <1>0, <1>33 DEF TimeOut
<1> QED
    BY <1>1, <1>2, <1>3, <1>4, <1>5, <1>6, <1>7, <1>8, <1>9, <1>10, <1>11, <1>12,
       <1>13, <1>14, <1>15, <1>16, <1>17, <1>18, <1>19, <1>20, <1>21, <1>22, <1>23,
       <1>24, <1>25, <1>26, <1>27, <1>28, <1>29, <1>30, <1>31, <1>32, <1>33
       DEF Next, ObjectUse, OwnerCall, LoopStep

\* THEOREM: a callback pended outside of pended callbacks is called when the timer
\* requests queued before it are processed (furi_event_loop_pend_callback), whatever else
\* the loop does meanwhile.
THEOREM PendedWaitForTimers == Spec => []PendingAfterTimers
<1>1. Init => LoopInv /\ TimersFirst
    BY LoopInit DEF Init, TimersFirst
<1>2. LoopInv /\ TimersFirst /\ [Next]_vars => (LoopInv /\ TimersFirst)'
    BY LoopInvStep, TimersFirstStep
<1>3. LoopInv /\ TimersFirst => PendingAfterTimers
    <2> SUFFICES ASSUME LoopInv, TimersFirst, NotStopped, pc = "pendcb"
                 PROVE  ~Head(pending_queue).nested => Head(pending_queue).timers = 0
        BY DEF PendingAfterTimers
    <2>1. 1 \in 1..Len(pending_queue) /\ Head(pending_queue) = pending_queue[1]
        BY DEF LoopInv, TypeOK, Control
    <2> QED
        BY <2>1 DEF TimersFirst
<1> QED
    BY <1>1, <1>2, <1>3, PTL DEF Spec

-----------------------------------------------------------------------------
(* The steps of EventDelivery *)

\* The refinement mapping of the instance Delivery.
Subs == {o \in Objects : tree[o] # NULL}
Events == {item[waiting_list[k]].object : k \in 1..Len(waiting_list)}
InRun == pc \notin {"none", "user"}

DeliveryMoves == [Delivery!Next]_(Delivery!vars)

\* A step that changes neither the subscriptions, nor the waiting list, nor whether the
\* loop runs is none of EventDelivery's.
LEMMA StutterMoves ==
    ASSUME UNCHANGED <<tree, waiting_list, item>>, InRun' = InRun
    PROVE  DeliveryMoves
<1>1. UNCHANGED <<Subs, Events>>
    BY DEF Subs, Events
<1> QED
    BY <1>1 DEF Subs, Events, InRun, DeliveryMoves, Delivery!vars

\* Nor is one that starts or stops the loop anything else.
LEMMA StartMoves ==
    ASSUME UNCHANGED <<tree, waiting_list, item>>, InRun' = ~InRun
    PROVE  DeliveryMoves
<1>1. UNCHANGED <<Subs, Events>>
    BY DEF Subs, Events
<1> QED
    BY <1>1 DEF Subs, Events, InRun, DeliveryMoves, Delivery!Next, Delivery!StartOrStop

\* The events before and after a step, by item rather than by position in the list.
LEMMA EventsHere ==
    ASSUME LoopInv, waiting_list' \in Seq(Items)
    PROVE  /\ \A x : x \in Events <=> \E j \in Items : IsWaiting(j) /\ item[j].object = x
           /\ \A x : x \in Events' <=>
                 \E j \in Items : Has(waiting_list', j) /\ item'[j].object = x
<1>1. waiting_list \in Seq(Items)
    BY DEF LoopInv, TypeOK
<1>2. \A x : x \in Events <=> \E j \in Items : IsWaiting(j) /\ item[j].object = x
    <2>1. \A k \in 1..Len(waiting_list) : waiting_list[k] \in Items
        BY <1>1
    <2> QED
        BY <2>1 DEF Events, IsWaiting, Has
<1>3. \A x : x \in Events' <=> \E j \in Items : Has(waiting_list', j) /\ item'[j].object = x
    <2>1. \A k \in 1..Len(waiting_list') : waiting_list'[k] \in Items
        OBVIOUS
    <2> QED
        BY <2>1 DEF Events, Has
<1> QED
    BY <1>2, <1>3

\* Notifying the item of a subscription raises its event.
LEMMA RaiseMoves ==
    ASSUME LoopInv, NEW i \in Items, item[i].object \in Objects, tree[item[i].object] # NULL,
           NotifyItem(i), UNCHANGED <<tree, item>>, InRun' = InRun
    PROVE  DeliveryMoves
<1>1. waiting_list' \in Seq(Items)
    BY NotifyItemType DEF LoopInv
<1>2. waiting_list \in Seq(Items)
    BY DEF LoopInv, TypeOK
<1>3. \A j : Has(waiting_list', j) <=> IsWaiting(j) \/ j = i
    BY <1>2, NotifyItemHas DEF IsWaiting
<1>4. PICK o \in Objects : o = item[i].object
    OBVIOUS
<1>5. Events' = Events \cup {o}
    BY <1>1, <1>3, <1>4, EventsHere
<1>6. UNCHANGED Subs /\ o \in Subs
    BY <1>4 DEF Subs
<1>7. Delivery!Raise(o)
    BY <1>5, <1>6 DEF Subs, Events, InRun, Delivery!Raise
<1> QED
    BY <1>7 DEF DeliveryMoves, Delivery!Next

\* furi_event_loop_link_notify raises the event of the subscription, or nothing.
LEMMA LinkMoves ==
    ASSUME LoopInv, NEW o \in Objects, NEW d \in Dirs, NotifyLink(o, d),
           UNCHANGED <<tree, item>>, InRun' = InRun
    PROVE  DeliveryMoves
<1>1. CASE link[o][d] # NULL /\ Announces(o, level[o], d)
    <2>1. link[o][d] = tree[o] /\ tree[o] # NULL
        BY <1>1 DEF LoopInv, ItemInv, ItemsLive, LinkedItems
    <2>2. tree[o] \in Items /\ item[tree[o]].object = o
        BY <2>1, Subscription DEF LoopInv
    <2>3. NotifyItem(tree[o])
        BY <1>1, <2>1 DEF NotifyLink
    <2> QED
        BY <2>1, <2>2, <2>3, RaiseMoves
<1>2. CASE ~(link[o][d] # NULL /\ Announces(o, level[o], d))
    BY <1>2, StutterMoves DEF NotifyLink
<1> QED
    BY <1>1, <1>2

\* Detaching an item withdraws the event of its subscription.
LEMMA DetachMoves ==
    ASSUME LoopInv, NEW o \in Objects, tree[o] # NULL, NEW isCurrent \in BOOLEAN,
           Detach(tree[o], isCurrent), InRun' = InRun
    PROVE  DeliveryMoves
<1>1. tree[o] \in Items /\ item[tree[o]].object = o
    BY Subscription DEF LoopInv
<1>2. /\ tree'[o] = NULL /\ \A p \in Objects : p # o => tree'[p] = tree[p]
      /\ \A j \in Items : j # tree[o] => item'[j] = item[j]
    BY <1>1 DEF Detach, LoopInv, TypeOK
<1>3. /\ waiting_list' \in Seq(Items)
      /\ \A j : Has(waiting_list', j) <=> IsWaiting(j) /\ j # tree[o]
    <2>1. waiting_list' = Unlink(waiting_list, tree[o])
        BY DEF Detach
    <2> QED
        BY <2>1, WaitingFacts, UnlinkHas, UnlinkType DEF IsWaiting
<1>4. \A j \in Items : IsWaiting(j) /\ item[j].object = o => j = tree[o]
    BY WaitingFacts
<1>5. \A x : x \in Events' <=> x \in Events /\ x # o
    <2>1. ASSUME NEW x, x \in Events'
          PROVE  x \in Events /\ x # o
        <3>1. PICK j \in Items : Has(waiting_list', j) /\ item'[j].object = x
            BY <1>3, <2>1, EventsHere
        <3> QED
            BY <1>2, <1>3, <1>4, <3>1, EventsHere
    <2>2. ASSUME NEW x, x \in Events, x # o
          PROVE  x \in Events'
        <3>1. PICK j \in Items : IsWaiting(j) /\ item[j].object = x
            BY <1>3, <2>2, EventsHere
        <3> QED
            BY <1>1, <1>2, <1>3, <2>2, <3>1, EventsHere
    <2> QED
        BY <2>1, <2>2
<1>6. Events' = Events \ {o}
    BY <1>5
<1>7. Subs' = Subs \ {o} /\ o \in Subs
    BY <1>2 DEF Subs
<1>8. Delivery!Unsubscribe(o)
    BY <1>6, <1>7 DEF Subs, Events, InRun, Delivery!Unsubscribe
<1> QED
    BY <1>8 DEF DeliveryMoves, Delivery!Next

\* Taking the first item of the list hands its event over.
LEMMA HandOverMoves ==
    ASSUME LoopInv, waiting_list # <<>>, waiting_list' = Tail(waiting_list),
           UNCHANGED <<tree, item>>, InRun, InRun'
    PROVE  DeliveryMoves
<1> DEFINE i == Head(waiting_list)
<1>1. /\ i \in Items /\ IsWaiting(i) /\ waiting_list' \in Seq(Items)
      /\ \A j : Has(waiting_list', j) <=> IsWaiting(j) /\ j # i
    BY WaitingFacts, TailElements DEF IsWaiting
<1> HIDE DEF i
<1>2. item[i].object \in Objects /\ tree[item[i].object] = i
    BY <1>1, WaitingFacts
<1>3. PICK o \in Objects : o = item[i].object
    BY <1>2
<1>4. \A j \in Items : IsWaiting(j) /\ item[j].object = o => j = i
    BY <1>2, <1>3, WaitingFacts
<1>5. \A x : x \in Events' <=> x \in Events /\ x # o
    <2>1. ASSUME NEW x, x \in Events'
          PROVE  x \in Events /\ x # o
        <3>1. PICK j \in Items : Has(waiting_list', j) /\ item'[j].object = x
            BY <1>1, <2>1, EventsHere
        <3> QED
            BY <1>1, <1>4, <3>1, EventsHere
    <2>2. ASSUME NEW x, x \in Events, x # o
          PROVE  x \in Events'
        <3>1. PICK j \in Items : IsWaiting(j) /\ item[j].object = x
            BY <1>1, <2>2, EventsHere
        <3> QED
            BY <1>1, <1>3, <2>2, <3>1, EventsHere
    <2> QED
        BY <2>1, <2>2
<1>6. Events' = Events \ {o} /\ o \in Events
    BY <1>1, <1>3, <1>5, EventsHere
<1>7. UNCHANGED Subs
    BY DEF Subs
<1>8. Delivery!HandOver(o)
    BY <1>6, <1>7 DEF Subs, Events, InRun, Delivery!HandOver
<1> QED
    BY <1>8 DEF DeliveryMoves, Delivery!Next

\* A new subscription may raise its event at once.
LEMMA SubscribeMoves ==
    ASSUME LoopInv, NEW o \in Objects, NEW d \in Dirs, NEW m \in Modes, Subscribe(o, d, m)
    PROVE  DeliveryMoves
<1>1. PICK i \in Items : SubscribeItem(o, d, m, i)
    BY DEF Subscribe
<1>2. /\ tree[o] = NULL /\ ~item[i].alloc /\ pc' = pc /\ i # NULL
      /\ tree'[o] = i /\ \A p \in Objects : p # o => tree'[p] = tree[p]
      /\ item'[i].object = o /\ \A j \in Items : j # i => item'[j] = item[j]
    BY <1>1, NullIsNothing DEF Subscribe, SubscribeItem, LoopInv, TypeOK, loopVars
<1>3. NotifyItem(i) \/ UNCHANGED waiting_list
    BY <1>1 DEF SubscribeItem
<1>4. waiting_list \in Seq(Items) /\ ~IsWaiting(i)
    BY <1>2, WaitingFacts
<1>5. /\ waiting_list' \in Seq(Items)
      /\ \A j : IsWaiting(j) => Has(waiting_list', j)
      /\ \A j : Has(waiting_list', j) => IsWaiting(j) \/ j = i
    <2>1. CASE NotifyItem(i)
        BY <1>4, <2>1, NotifyItemHas, NotifyItemType DEF IsWaiting, LoopInv
    <2>2. CASE UNCHANGED waiting_list
        BY <1>4, <2>2 DEF IsWaiting
    <2> QED
        BY <1>3, <2>1, <2>2
<1>6. \A x : x \in Events => x \in Events'
    <2> SUFFICES ASSUME NEW x, x \in Events PROVE x \in Events'
        OBVIOUS
    <2>1. PICK j \in Items : IsWaiting(j) /\ item[j].object = x
        BY <1>5, EventsHere
    <2> QED
        BY <1>2, <1>4, <1>5, <2>1, EventsHere
<1>7. \A x : x \in Events' => x \in Events \/ x = o
    <2> SUFFICES ASSUME NEW x, x \in Events' PROVE x \in Events \/ x = o
        OBVIOUS
    <2>1. PICK j \in Items : Has(waiting_list', j) /\ item'[j].object = x
        BY <1>5, EventsHere
    <2> QED
        BY <1>2, <1>5, <2>1, EventsHere
<1>8. Events' \in {Events, Events \cup {o}}
    BY <1>6, <1>7
<1>9. Subs' = Subs \cup {o} /\ o \notin Subs
    BY <1>2 DEF Subs
<1>10. Delivery!Subscribe(o)
    BY <1>2, <1>8, <1>9 DEF Subs, Events, InRun, Delivery!Subscribe
<1> QED
    BY <1>10 DEF DeliveryMoves, Delivery!Next

\* Every step of the loop and of the threads around it is a step of EventDelivery.
LEMMA DeliveryStep ==
    ASSUME LoopInv, [Next]_vars
    PROVE  DeliveryMoves
<1> USE DEF listVars, loopVars, deferVars
<1>1. CASE UNCHANGED vars
    BY <1>1, StutterMoves DEF vars, InRun
<1>2. ASSUME NEW t \in AllThreads, NEW o \in Objects, Put(t, o)
      PROVE  DeliveryMoves
    BY <1>2, StutterMoves DEF Put, InRun
<1>3. ASSUME NEW t \in AllThreads, NEW o \in Objects, Get(t, o)
      PROVE  DeliveryMoves
    BY <1>3, StutterMoves DEF Get, InRun
<1>4. ASSUME NEW t \in AllThreads, NEW o \in Objects, Reset(t, o)
      PROVE  DeliveryMoves
    BY <1>4, StutterMoves DEF Reset, InRun
<1>5. ASSUME NEW t \in AllThreads, NEW o \in Objects, EventFlagSet(t, o)
      PROVE  DeliveryMoves
    BY <1>5, LinkMoves DEF EventFlagSet, InRun, Dirs
<1>6. ASSUME NEW t \in AllThreads, NEW o \in Objects, EventFlagClear(t, o)
      PROVE  DeliveryMoves
    BY <1>6, LinkMoves DEF EventFlagClear, InRun, Dirs
<1>7. ASSUME NEW t \in AllThreads, SetThreadFlags(t)
      PROVE  DeliveryMoves
    BY <1>7, StutterMoves DEF SetThreadFlags, InRun
<1>8. ASSUME NEW t \in AllThreads, Stop(t)
      PROVE  DeliveryMoves
    BY <1>8, StutterMoves DEF Stop, InRun
<1>9. ASSUME NEW t \in AllThreads, LinkNotify(t)
      PROVE  DeliveryMoves
    BY <1>9, LinkMoves DEF LinkNotify, InRun
<1>10. ASSUME NEW o \in Objects, NEW d \in Dirs, NEW m \in Modes, Subscribe(o, d, m)
      PROVE  DeliveryMoves
    BY <1>10, SubscribeMoves
<1>11. ASSUME NEW o \in Objects, Unsubscribe(o)
      PROVE  DeliveryMoves
    BY <1>11, DetachMoves DEF Unsubscribe, IsCurrent, InRun
<1>12. CASE SubscribeThreadFlags
    BY <1>12, StutterMoves DEF SubscribeThreadFlags, InRun
<1>13. CASE UnsubscribeThreadFlags
    BY <1>13, StutterMoves DEF UnsubscribeThreadFlags, InRun
<1>14. CASE PendCallback
    BY <1>14, StutterMoves DEF PendCallback, InRun
<1>15. CASE TimerCommand
    BY <1>15, StutterMoves DEF TimerCommand, InRun
<1>16. CASE FreeLoop
    <2>1. waiting_list = <<>>
        BY <1>16, NothingWaits DEF FreeLoop, LoopInv
    <2> QED
        BY <1>16, <2>1, StutterMoves DEF FreeLoop, InRun
<1>17. CASE AllocLoop
    BY <1>17, StutterMoves DEF AllocLoop, InRun
<1>18. CASE Run
    BY <1>18, StartMoves DEF Run, InRun
<1>19. CASE TakeFlags
    BY <1>19, StutterMoves DEF TakeFlags, InRun
<1>20. CASE DispatchStop
    BY <1>20, StartMoves DEF DispatchStop, InRun
<1>21. CASE DispatchEvent
    <2>1. CASE waiting_list = <<>>
        BY <1>21, <2>1, StutterMoves DEF DispatchEvent, InRun
    <2>2. CASE waiting_list # <<>>
        BY <1>21, <2>2, HandOverMoves DEF DispatchEvent, InRun
    <2> QED
        BY <2>1, <2>2
<1>22. CASE DispatchTimer
    BY <1>22, StutterMoves DEF DispatchTimer, InRun
<1>23. CASE DispatchPending
    BY <1>23, StutterMoves DEF DispatchPending, InRun
<1>24. CASE DispatchThreadFlag
    BY <1>24, StutterMoves DEF DispatchThreadFlag, InRun
<1>25. CASE ProcessItem
    <2>1. /\ pc = "process" /\ cur \in Items /\ item[cur].object \in Objects
          /\ tree[item[cur].object] = cur /\ cur # NULL
        BY <1>25 DEF ProcessItem, LoopInv, Control, ItemInv, ItemsLive, CurrentItem, AllocatedItems
    <2>2. CASE item[cur].once
        <3>1. Detach(cur, FALSE) /\ InRun' = InRun
            BY <1>25, <2>1, <2>2 DEF ProcessItem, InRun
        <3> QED
            BY <2>1, <3>1, DetachMoves
    <2>3. CASE ~item[cur].once
        <3>1. UNCHANGED <<tree, waiting_list, item>> /\ pc' \in {"callback", "finish"}
            BY <1>25, <2>3 DEF ProcessItem
        <3> QED
            BY <2>1, <3>1, StutterMoves DEF InRun
    <2> QED
        BY <2>2, <2>3
<1>26. CASE CallbackReturn
    BY <1>26, StutterMoves DEF CallbackReturn, InRun
<1>27. CASE FinishItem
    <2>1. /\ cur \in Items /\ item[cur].alloc /\ UNCHANGED tree /\ InRun' = InRun
        BY <1>27 DEF FinishItem, LoopInv, Control, ItemInv, ItemsLive, CurrentItem, InRun
    <2>2. CASE item[cur].owner
        <3>1. item[cur].object \in Objects /\ tree[item[cur].object] = cur /\ cur # NULL
            BY <2>1, <2>2, NullIsNothing
               DEF LoopInv, ItemInv, ItemsLive, CurrentItem, AllocatedItems
        <3>2. UNCHANGED item /\ (NotifyItem(cur) \/ UNCHANGED waiting_list)
            BY <1>27, <2>2 DEF FinishItem
        <3> QED
            BY <2>1, <3>1, <3>2, RaiseMoves, StutterMoves
    <2>3. CASE ~item[cur].owner
        <3>1. /\ UNCHANGED waiting_list
              /\ \A j \in Items : j # cur => item'[j] = item[j]
            BY <1>27, <2>1, <2>3 DEF FinishItem, LoopInv, TypeOK
        <3>2. \A j \in Items : IsWaiting(j) => j # cur
            <4> SUFFICES ASSUME IsWaiting(cur) PROVE FALSE
                OBVIOUS
            <4>1. item[cur].object \in Objects /\ tree[item[cur].object] = cur /\ cur # NULL
                BY <2>1, WaitingFacts, NullIsNothing
            <4> QED
                BY <2>3, <4>1, Subscription DEF LoopInv
        <3>3. \A x : x \in Events' <=> x \in Events
            <4>1. waiting_list' \in Seq(Items)
                BY <3>1 DEF LoopInv, TypeOK
            <4>2. \A j : Has(waiting_list', j) <=> IsWaiting(j)
                BY <3>1 DEF IsWaiting
            <4> QED
                BY <3>1, <3>2, <4>1, <4>2, EventsHere
        <3>4. UNCHANGED Events /\ UNCHANGED Subs
            BY <2>1, <3>3 DEF Subs
        <3> QED
            BY <2>1, <3>4 DEF Subs, Events, InRun, DeliveryMoves, Delivery!vars
    <2> QED
        BY <2>2, <2>3
<1>28. CASE SyncFlags
    BY <1>28, StutterMoves DEF SyncFlags, InRun
<1>29. CASE RestoreFlags
    BY <1>29, StutterMoves DEF RestoreFlags, InRun
<1>30. CASE CallPending
    BY <1>30, StutterMoves DEF CallPending, InRun
<1>31. CASE PendingReturn
    BY <1>31, StutterMoves DEF PendingReturn, InRun
<1>32. CASE SimpleReturn
    BY <1>32, StutterMoves DEF SimpleReturn, InRun
<1>33. CASE TimeOut
    BY <1>33, StutterMoves DEF TimeOut, InRun
<1> QED
    BY <1>1, <1>2, <1>3, <1>4, <1>5, <1>6, <1>7, <1>8, <1>9, <1>10, <1>11, <1>12,
       <1>13, <1>14, <1>15, <1>16, <1>17, <1>18, <1>19, <1>20, <1>21, <1>22, <1>23,
       <1>24, <1>25, <1>26, <1>27, <1>28, <1>29, <1>30, <1>31, <1>32, <1>33
       DEF Next, ObjectUse, OwnerCall, LoopStep

\* THEOREM: but for its liveness, the loop implements EventDelivery: whatever the
\* threads do, each step raises, hands over, withdraws or subscribes at most one
\* event, an event is handed over only while the loop runs, and an unsubscribed object has none.
THEOREM DeliveryIsImplemented == Spec => Delivery!Init /\ [][Delivery!Next]_(Delivery!vars)
<1>1. Init => LoopInv /\ Delivery!Init
    BY LoopInit DEF Init, Delivery!Init
<1>2. LoopInv /\ [Next]_vars => LoopInv'
    BY LoopInvStep
<1>3. LoopInv /\ [Next]_vars => [Delivery!Next]_(Delivery!vars)
    BY DeliveryStep DEF DeliveryMoves
<1> QED
    BY <1>1, <1>2, <1>3, PTL DEF Spec

=============================================================================
