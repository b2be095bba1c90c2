-------------------------- MODULE EventLoopProofs --------------------------
(***************************************************************************)
(* Proofs about EventLoop, for any number of objects, items and threads.   *)
(***************************************************************************)
EXTENDS EventLoop, IntrusiveListProofs, TLAPS

-----------------------------------------------------------------------------
(* Types *)

\* The three helpers that touch the lists keep the types, whoever calls them.
LEMMA NotifyItemType ==
    ASSUME TypeOK, NEW i \in Items, NotifyItem(i)
    PROVE  waiting_list' \in Seq(Items) /\ notify' \in SUBSET Flags
BY DEF TypeOK, NotifyItem, Flags

\* furi_event_loop_link_notify keeps the waiting list and the notification typed.
LEMMA NotifyLinkType ==
    ASSUME TypeOK, NEW o \in Objects, NEW d \in Dirs, NotifyLink(o, d)
    PROVE  waiting_list' \in Seq(Items) /\ notify' \in SUBSET Flags
<1>1. CASE link[o][d] # NULL /\ Announces(o, level[o], d)
    <2>1. link[o][d] \in Items
        BY <1>1 DEF TypeOK
    <2> QED
        BY <1>1, <2>1, NotifyItemType DEF NotifyLink
<1>2. CASE ~(link[o][d] # NULL /\ Announces(o, level[o], d))
    BY <1>2 DEF NotifyLink, TypeOK
<1> QED
    BY <1>1, <1>2

\* furi_event_loop_unsubscribe keeps the item memory, the tree and the links typed.
LEMMA DetachType ==
    ASSUME TypeOK, NEW i \in Items, NEW isCurrent \in BOOLEAN, Detach(i, isCurrent)
    PROVE  /\ tree' \in [Objects -> Items \cup {NULL}]
           /\ link' \in [Objects -> [Dirs -> Items \cup {NULL}]]
           /\ waiting_list' \in Seq(Items)
           /\ item' \in [Items -> ItemState]
<1>1. tree' \in [Objects -> Items \cup {NULL}]
    BY DEF TypeOK, Detach
<1>2. link' \in [Objects -> [Dirs -> Items \cup {NULL}]]
    BY DEF TypeOK, Detach
<1>3. waiting_list' \in Seq(Items)
    BY UnlinkType DEF TypeOK, Detach
<1>4. item' \in [Items -> ItemState]
    BY DEF TypeOK, Detach, ItemState, FreedItem, Dirs
<1> QED
    BY <1>1, <1>2, <1>3, <1>4

\* Every primitive has room for at least one unit.
LEMMA CapacityNat == \A o \in Objects : Capacity[o] \in Nat /\ Capacity[o] >= 1
<1>1. Capacity \in [Objects -> Nat \ {0}]
    BY ObjectsAssumption DEF ObjectsAssumption
<1>2. ASSUME NEW o \in Objects
      PROVE  Capacity[o] \in Nat /\ Capacity[o] >= 1
    <2>1. Capacity[o] \in Nat \ {0}
        BY <1>1
    <2> QED
        BY <2>1
<1> QED
    BY <1>2

\* A loop just allocated (furi_event_loop_alloc) is well typed.
LEMMA TypeInit == Init => TypeOK
<1> SUFFICES ASSUME Init PROVE TypeOK
    OBVIOUS
<1>1. level \in [Objects -> Nat] /\ \A o \in Objects : level[o] <= Capacity[o]
    BY CapacityNat, ObjectsAssumption DEF ObjectsAssumption, Init
<1>2. item \in [Items -> ItemState]
    BY DEF Init, FreedItem, ItemState, Dirs
<1>3. /\ link \in [Objects -> [Dirs -> Items \cup {NULL}]]
      /\ tree \in [Objects -> Items \cup {NULL}]
      /\ op \in [AllThreads -> SUBSET (Objects \X Dirs)]
    BY DEF Init
<1>4. armed \in BOOLEAN /\ subscribed \in BOOLEAN /\ again \in BOOLEAN /\ due \in BOOLEAN
    BY Zenon DEF Init
<1> QED
    BY <1>1, <1>2, <1>3, <1>4 DEF Init, TypeOK, PCs

\* What the place of the owner says of its locals: the item in process and the callback
\* it is in are there, the notifications taken are at hand, and the loop was run.
Control ==
    /\ pc \in {"process", "callback", "finish"} => cur \in Items
    /\ pc = "pendcb" => pending_queue # <<>>
    /\ flags # {} => pc \in {"dispatch", "process", "callback", "finish", "sync", "restore",
                           "undefined"}
    /\ pc \notin {"user", "none", "undefined"} => runs > 0

\* Every step keeps the types.
LEMMA TypeStep == TypeOK /\ Control /\ [Next]_vars => TypeOK'
<1> SUFFICES ASSUME TypeOK, Control, [Next]_vars
             PROVE  TypeOK'
    OBVIOUS
<1> USE DEF TypeOK, Control, listVars, loopVars, deferVars, Called, PCs
<1>1. CASE UNCHANGED vars
    BY <1>1 DEF vars
<1>2. ASSUME NEW t \in AllThreads, NEW o \in Objects, Put(t, o)
      PROVE  TypeOK'
    <2>1. level' \in [Objects -> Nat] /\ \A p \in Objects : level'[p] <= Capacity[p]
        BY <1>2, CapacityNat DEF Put, Amounts
    <2>2. op' \in [AllThreads -> SUBSET (Objects \X Dirs)]
        BY <1>2 DEF Put, Dirs
    <2> QED
        BY <1>2, <2>1, <2>2 DEF Put
<1>3. ASSUME NEW t \in AllThreads, NEW o \in Objects, Get(t, o)
      PROVE  TypeOK'
    <2>1. PICK n \in Amounts(o, level[o]) :
             n <= level[o] /\ level' = [level EXCEPT ![o] = @ - n]
        BY <1>3 DEF Get
    <2>2. n \in Nat /\ level[o] \in Nat
        BY <2>1 DEF Amounts
    <2>3. level' \in [Objects -> Nat] /\ \A p \in Objects : level'[p] <= Capacity[p]
        BY <2>1, <2>2, CapacityNat
    <2>4. op' \in [AllThreads -> SUBSET (Objects \X Dirs)]
        BY <1>3 DEF Get, Dirs
    <2> QED
        BY <1>3, <2>3, <2>4 DEF Get
<1>4. ASSUME NEW t \in AllThreads, NEW o \in Objects, Reset(t, o)
      PROVE  TypeOK'
    <2>1. level' \in [Objects -> Nat] /\ \A p \in Objects : level'[p] <= Capacity[p]
        BY <1>4, CapacityNat DEF Reset
    <2>2. op' \in [AllThreads -> SUBSET (Objects \X Dirs)]
        BY <1>4 DEF Reset, Dirs
    <2> QED
        BY <1>4, <2>1, <2>2 DEF Reset
<1>5. ASSUME NEW t \in AllThreads, NEW o \in Objects, EventFlagSet(t, o)
      PROVE  TypeOK'
    <2>1. waiting_list' \in Seq(Items) /\ notify' \in SUBSET Flags
        BY <1>5, NotifyLinkType DEF EventFlagSet, Dirs
    <2>2. level' \in [Objects -> Nat] /\ \A p \in Objects : level'[p] <= Capacity[p]
        BY <1>5, CapacityNat DEF EventFlagSet
    <2> QED
        BY <1>5, <2>1, <2>2 DEF EventFlagSet
<1>6. ASSUME NEW t \in AllThreads, NEW o \in Objects, EventFlagClear(t, o)
      PROVE  TypeOK'
    <2>1. waiting_list' \in Seq(Items) /\ notify' \in SUBSET Flags
        BY <1>6, NotifyLinkType DEF EventFlagClear, Dirs
    <2>2. level' \in [Objects -> Nat] /\ \A p \in Objects : level'[p] <= Capacity[p]
        BY <1>6, CapacityNat DEF EventFlagClear
    <2> QED
        BY <1>6, <2>1, <2>2 DEF EventFlagClear
<1>7. ASSUME NEW t \in AllThreads, SetThreadFlags(t)
      PROVE  TypeOK'
    BY <1>7 DEF SetThreadFlags, Flags
<1>8. ASSUME NEW t \in AllThreads, Stop(t)
      PROVE  TypeOK'
    BY <1>8 DEF Stop, Flags
<1>9. ASSUME NEW t \in AllThreads, LinkNotify(t)
      PROVE  TypeOK'
    <2>1. waiting_list' \in Seq(Items) /\ notify' \in SUBSET Flags
        BY <1>9, NotifyLinkType DEF LinkNotify
    <2> QED
        BY <1>9, <2>1 DEF LinkNotify
<1>10. ASSUME NEW o \in Objects, NEW d \in Dirs, NEW m \in Modes, Subscribe(o, d, m)
      PROVE  TypeOK'
    <2>1. PICK i \in Items : SubscribeItem(o, d, m, i)
        BY <1>10 DEF Subscribe
    <2>2. waiting_list' \in Seq(Items) /\ notify' \in SUBSET Flags
        BY <2>1, NotifyItemType DEF SubscribeItem
    <2>3. item' \in [Items -> ItemState]
        BY <2>1, EventLoopAssumption DEF EventLoopAssumption, SubscribeItem, ItemState
    <2>4. /\ tree' \in [Objects -> Items \cup {NULL}]
          /\ link' \in [Objects -> [Dirs -> Items \cup {NULL}]]
        BY <2>1 DEF SubscribeItem
    <2> QED
        BY <1>10, <2>2, <2>3, <2>4 DEF Subscribe
<1>11. ASSUME NEW o \in Objects, Unsubscribe(o)
      PROVE  TypeOK'
    <2>1. tree[o] \in Items /\ IsCurrent(tree[o]) \in BOOLEAN
        BY <1>11 DEF Unsubscribe, IsCurrent
    <2> QED
        BY <1>11, <2>1, DetachType DEF Unsubscribe
<1>12. CASE SubscribeThreadFlags
    BY <1>12 DEF SubscribeThreadFlags
<1>13. CASE UnsubscribeThreadFlags
    <2>1. subscribed' \in BOOLEAN /\ due' \in BOOLEAN
        BY <1>13, Zenon DEF UnsubscribeThreadFlags
    <2> QED
        BY <1>13, <2>1 DEF UnsubscribeThreadFlags
<1>14. CASE PendCallback
    BY <1>14 DEF PendCallback, Flags, PendingEntry
<1>15. CASE TimerCommand
    BY <1>15 DEF TimerCommand, Flags
<1>16. CASE FreeLoop
    <2>1. armed' \in BOOLEAN
        BY <1>16, Zenon DEF FreeLoop
    <2> QED
        BY <1>16, <2>1 DEF FreeLoop
<1>17. CASE AllocLoop
    BY <1>17 DEF AllocLoop
<1>18. CASE Run
    BY <1>18 DEF Run
<1>19. CASE TakeFlags
    BY <1>19 DEF TakeFlags
<1>20. CASE DispatchStop
    BY <1>20 DEF DispatchStop
<1>21. CASE DispatchEvent
    <2>1. CASE waiting_list = <<>>
        BY <1>21, <2>1 DEF DispatchEvent
    <2>2. CASE waiting_list # <<>>
        <3>1. Head(waiting_list) \in Items /\ Tail(waiting_list) \in Seq(Items)
            BY <2>2
        <3> QED
            BY <1>21, <2>2, <3>1 DEF DispatchEvent
    <2> QED
        BY <2>1, <2>2
<1>22. CASE DispatchTimer
    <2>1. pending_queue' \in Seq(PendingEntry)
        <3>1. \A k \in 1..Len(pending_queue) : pending_queue[k] \in PendingEntry
            OBVIOUS
        <3>2. \A k \in 1..Len(pending_queue) :
                 [pending_queue[k] EXCEPT !.timers = 0] \in PendingEntry
            BY <3>1 DEF PendingEntry
        <3>3. Len(pending_queue) \in Nat
            OBVIOUS
        <3> QED
            BY <1>22, <3>2, <3>3 DEF DispatchTimer
    <2>2. armed' \in BOOLEAN
        BY <1>22 DEF DispatchTimer
    <2> QED
        BY <1>22, <2>1, <2>2 DEF DispatchTimer
<1>23. CASE DispatchPending
    BY <1>23 DEF DispatchPending
<1>24. CASE DispatchThreadFlag
    BY <1>24 DEF DispatchThreadFlag
<1>25. CASE ProcessItem
    <2>1. CASE item[cur].once
        BY <1>25, <2>1, DetachType DEF ProcessItem
    <2>2. CASE ~item[cur].once
        BY <1>25, <2>2 DEF ProcessItem
    <2> QED
        BY <2>1, <2>2
<1>26. CASE CallbackReturn
    BY <1>26 DEF CallbackReturn
<1>27. CASE FinishItem
    <2>1. CASE item[cur].owner /\ again
        BY <1>27, <2>1, NotifyItemType DEF FinishItem
    <2>2. CASE item[cur].owner /\ ~again
        BY <1>27, <2>2 DEF FinishItem
    <2>3. CASE ~item[cur].owner
        <3>1. item' \in [Items -> ItemState]
            <4>1. FreedItem \in ItemState
                BY DEF FreedItem, ItemState, Dirs
            <4>2. item' = [item EXCEPT ![cur] = FreedItem]
                BY <1>27, <2>3 DEF FinishItem
            <4> QED
                BY <4>1, <4>2
        <3> QED
            BY <1>27, <2>3, <3>1 DEF FinishItem
    <2> QED
        BY <2>1, <2>2, <2>3
<1>28. CASE SyncFlags
    BY <1>28 DEF SyncFlags, Flags
<1>29. CASE RestoreFlags
    BY <1>29 DEF RestoreFlags
<1>30. CASE CallPending
    BY <1>30 DEF CallPending
<1>31. CASE PendingReturn
    BY <1>31 DEF PendingReturn
<1>32. CASE SimpleReturn
    BY <1>32 DEF SimpleReturn
<1>33. CASE TimeOut
    BY <1>33 DEF TimeOut
<1> QED
    BY <1>1, <1>2, <1>3, <1>4, <1>5, <1>6, <1>7, <1>8, <1>9, <1>10, <1>11, <1>12,
       <1>13, <1>14, <1>15, <1>16, <1>17, <1>18, <1>19, <1>20, <1>21, <1>22, <1>23,
       <1>24, <1>25, <1>26, <1>27, <1>28, <1>29, <1>30, <1>31, <1>32, <1>33
       DEF Next, ObjectUse, OwnerCall, LoopStep

\* Every step keeps the owner's locals in order.
LEMMA ControlStep == TypeOK /\ Control /\ [Next]_vars => Control'
<1> SUFFICES ASSUME TypeOK, Control, [Next]_vars
             PROVE  Control'
    OBVIOUS
<1> USE DEF TypeOK, Control, listVars, loopVars, deferVars, Called, PCs
<1>1. CASE UNCHANGED vars
    BY <1>1 DEF vars
<1>2. ASSUME NEW t \in AllThreads, NEW o \in Objects, Put(t, o)
      PROVE  Control'
    BY <1>2 DEF Put
<1>3. ASSUME NEW t \in AllThreads, NEW o \in Objects, Get(t, o)
      PROVE  Control'
    BY <1>3 DEF Get
<1>4. ASSUME NEW t \in AllThreads, NEW o \in Objects, Reset(t, o)
      PROVE  Control'
    BY <1>4 DEF Reset
<1>5. ASSUME NEW t \in AllThreads, NEW o \in Objects, EventFlagSet(t, o)
      PROVE  Control'
    BY <1>5 DEF EventFlagSet
<1>6. ASSUME NEW t \in AllThreads, NEW o \in Objects, EventFlagClear(t, o)
      PROVE  Control'
    BY <1>6 DEF EventFlagClear
<1>7. ASSUME NEW t \in AllThreads, SetThreadFlags(t)
      PROVE  Control'
    BY <1>7 DEF SetThreadFlags
<1>8. ASSUME NEW t \in AllThreads, Stop(t)
      PROVE  Control'
    BY <1>8 DEF Stop
<1>9. ASSUME NEW t \in AllThreads, LinkNotify(t)
      PROVE  Control'
    BY <1>9 DEF LinkNotify
<1>10. ASSUME NEW o \in Objects, NEW d \in Dirs, NEW m \in Modes, Subscribe(o, d, m)
      PROVE  Control'
    BY <1>10 DEF Subscribe
<1>11. ASSUME NEW o \in Objects, Unsubscribe(o)
      PROVE  Control'
    BY <1>11 DEF Unsubscribe
<1>12. CASE SubscribeThreadFlags
    BY <1>12 DEF SubscribeThreadFlags
<1>13. CASE UnsubscribeThreadFlags
    BY <1>13 DEF UnsubscribeThreadFlags
<1>14. CASE PendCallback
    BY <1>14 DEF PendCallback, OwnerMay, UserCode
<1>15. CASE TimerCommand
    BY <1>15 DEF TimerCommand
<1>16. CASE FreeLoop
    BY <1>16 DEF FreeLoop
<1>17. CASE AllocLoop
    BY <1>17 DEF AllocLoop
<1>18. CASE Run
    BY <1>18 DEF Run
<1>19. CASE TakeFlags
    BY <1>19 DEF TakeFlags
<1>20. CASE DispatchStop
    BY <1>20 DEF DispatchStop
<1>21. CASE DispatchEvent
    BY <1>21 DEF DispatchEvent
<1>22. CASE DispatchTimer
    BY <1>22 DEF DispatchTimer
<1>23. CASE DispatchPending
    BY <1>23 DEF DispatchPending
<1>24. CASE DispatchThreadFlag
    BY <1>24 DEF DispatchThreadFlag
<1>25. CASE ProcessItem
    <2>1. pc' \in {"undefined", "callback", "finish"} /\ cur' = cur
        BY <1>25 DEF ProcessItem
    <2>2. pc = "process" /\ flags' = flags /\ runs' = runs
        BY <1>25 DEF ProcessItem
    <2>3. cur \in Items /\ runs > 0
        BY <2>2
    <2> QED
        BY <2>1, <2>2, <2>3
<1>26. CASE CallbackReturn
    BY <1>26 DEF CallbackReturn
<1>27. CASE FinishItem
    BY <1>27 DEF FinishItem
<1>28. CASE SyncFlags
    BY <1>28 DEF SyncFlags
<1>29. CASE RestoreFlags
    BY <1>29 DEF RestoreFlags, Flags
<1>30. CASE CallPending
    BY <1>30 DEF CallPending
<1>31. CASE PendingReturn
    BY <1>31 DEF PendingReturn
<1>32. CASE SimpleReturn
    BY <1>32 DEF SimpleReturn
<1>33. CASE TimeOut
    BY <1>33 DEF TimeOut
<1> QED
    BY <1>1, <1>2, <1>3, <1>4, <1>5, <1>6, <1>7, <1>8, <1>9, <1>10, <1>11, <1>12,
       <1>13, <1>14, <1>15, <1>16, <1>17, <1>18, <1>19, <1>20, <1>21, <1>22, <1>23,
       <1>24, <1>25, <1>26, <1>27, <1>28, <1>29, <1>30, <1>31, <1>32, <1>33
       DEF Next, ObjectUse, OwnerCall, LoopStep

\* Types and the program counter's facts hold together along every behaviour.
LEMMA TypeControl == Spec => [](TypeOK /\ Control)
<1>1. Init => TypeOK /\ Control
    BY TypeInit DEF Init, Control
<1>2. TypeOK /\ Control /\ [Next]_vars => (TypeOK /\ Control)'
    BY TypeStep, ControlStep
<1> QED
    BY <1>1, <1>2, PTL DEF Spec

\* THEOREM: every variable of the event loop keeps its type, levels stay within their
\* capacity and notifications within the five flags, for any number of objects, items
\* and threads.
THEOREM TypeCorrect == Spec => []TypeOK
BY TypeControl, PTL

-----------------------------------------------------------------------------
(* Items and their pointers *)

\* The null pointer is neither an item nor a primitive.
LEMMA NullIsNothing == NULL \notin Items /\ NULL \notin Objects
BY EventLoopAssumption DEF EventLoopAssumption

\* An allocated item is some object's.
AllocatedItems == \A i \in Items : item[i].alloc => item[i].object \in Objects

ItemInv == ItemsLive /\ AllocatedItems

\* The item of a subscribed object, and the state it is in.
LEMMA Subscription ==
    ASSUME TypeOK, ItemInv, NEW o \in Objects, tree[o] # NULL
    PROVE  /\ tree[o] \in Items
           /\ item[tree[o]].alloc /\ item[tree[o]].owner
           /\ item[tree[o]].object = o
           /\ item[tree[o]].dir \in Dirs
           /\ link[o][item[tree[o]].dir] = tree[o]
<1>1. tree[o] \in Items
    BY DEF TypeOK
<1>2. item[tree[o]].dir \in Dirs
    BY <1>1 DEF TypeOK, ItemState
<1> QED
    BY <1>1, <1>2 DEF ItemInv, ItemsLive, SubscribedItems

\* Appending an item that has its subscription keeps the waiting list in order.
LEMMA NotifyItemKeeps ==
    ASSUME TypeOK, WaitingItems, NEW i \in Items,
           item'[i].alloc, tree'[item'[i].object] = i,
           \A k \in 1..Len(waiting_list) :
              /\ item'[waiting_list[k]].alloc
              /\ tree'[item'[waiting_list[k]].object] = waiting_list[k],
           NotifyItem(i)
    PROVE  WaitingItems'
<1>1. CASE IsWaiting(i)
    BY <1>1 DEF NotifyItem, WaitingItems
<1>2. CASE ~IsWaiting(i)
    <2>1. /\ waiting_list \in Seq(Items)
          /\ waiting_list' = Append(waiting_list, i)
        BY <1>2 DEF NotifyItem, TypeOK
    <2>2. /\ Len(waiting_list') = Len(waiting_list) + 1
          /\ waiting_list'[Len(waiting_list) + 1] = i
          /\ \A k \in 1..Len(waiting_list) : waiting_list'[k] = waiting_list[k]
        BY <2>1
    <2>3. \A k \in 1..Len(waiting_list) : waiting_list[k] # i
        BY <1>2 DEF IsWaiting, Has
    <2>4. \A k, l \in 1..Len(waiting_list) : waiting_list[k] = waiting_list[l] => k = l
        BY DEF WaitingItems
    <2>5. \A k \in 1..Len(waiting_list') :
             k \in 1..Len(waiting_list) \/ k = Len(waiting_list) + 1
        BY <2>1, <2>2
    <2>6. \A k \in 1..Len(waiting_list') :
             /\ item'[waiting_list'[k]].alloc
             /\ tree'[item'[waiting_list'[k]].object] = waiting_list'[k]
        BY <2>2, <2>5
    <2>7. \A k, l \in 1..Len(waiting_list') : waiting_list'[k] = waiting_list'[l] => k = l
        BY <2>2, <2>3, <2>4, <2>5
    <2> QED
        BY <2>6, <2>7 DEF WaitingItems
<1> QED
    BY <1>1, <1>2

\* furi_event_loop_link_notify keeps ItemInv: the item it pushes is subscribed.
LEMMA NotifyLinkKeeps ==
    ASSUME TypeOK, ItemInv, NEW o \in Objects, NEW d \in Dirs, NotifyLink(o, d),
           UNCHANGED <<link, item, tree, pc, cur>>
    PROVE  ItemInv'
<1>1. WaitingItems'
    <2>1. CASE link[o][d] # NULL /\ Announces(o, level[o], d)
        <3>1. link[o][d] = tree[o] /\ tree[o] # NULL
            BY <2>1 DEF ItemInv, ItemsLive, LinkedItems
        <3>2. tree[o] \in Items /\ item[tree[o]].alloc /\ item[tree[o]].object = o
            BY <3>1, Subscription
        <3>3. NotifyItem(tree[o])
            BY <2>1, <3>1 DEF NotifyLink
        <3> QED
            BY <3>2, <3>3, NotifyItemKeeps DEF ItemInv, ItemsLive, WaitingItems
    <2>2. CASE ~(link[o][d] # NULL /\ Announces(o, level[o], d))
        BY <2>2 DEF NotifyLink, ItemInv, ItemsLive, WaitingItems
    <2> QED
        BY <2>1, <2>2
<1> QED
    BY <1>1 DEF ItemInv, ItemsLive, SubscribedItems, LinkedItems, CurrentItem, AllocatedItems

\* Cancelling a subscription takes away every pointer to its item.
LEMMA DetachKeeps ==
    ASSUME TypeOK, ItemInv, NEW o \in Objects, tree[o] # NULL,
           NEW isCurrent \in BOOLEAN, Detach(tree[o], isCurrent)
    PROVE  /\ SubscribedItems' /\ LinkedItems' /\ WaitingItems' /\ AllocatedItems'
           /\ \A j \in Items : item'[j].alloc =>
                 /\ j = tree[o] => isCurrent /\ ~item'[j].owner
                 /\ j # tree[o] => item'[j] = item[j]
                 /\ item'[j].owner => tree'[item'[j].object] = j
<1> DEFINE i == tree[o]
           x == item[i].dir
<1>1. /\ i \in Items /\ item[i].alloc /\ item[i].owner /\ item[i].object = o
      /\ x \in Dirs /\ link[o][x] = i
    BY Subscription
<1>2. /\ tree' = [tree EXCEPT ![o] = NULL]
      /\ link' = [link EXCEPT ![o][x] = NULL]
      /\ waiting_list' = Unlink(waiting_list, i)
      /\ item' = [item EXCEPT ![i] = IF isCurrent THEN [item[i] EXCEPT !.owner = FALSE]
                                     ELSE FreedItem]
    BY <1>1 DEF Detach, TypeOK
<1>3. tree'[o] = NULL /\ \A p \in Objects : p # o => tree'[p] = tree[p] /\ link'[p] = link[p]
    BY <1>2 DEF TypeOK
<1>4. \A d \in Dirs : link'[o][d] = NULL
    <2> SUFFICES ASSUME NEW d \in Dirs PROVE link'[o][d] = NULL
        OBVIOUS
    <2>1. CASE d = x
        BY <1>1, <1>2, <2>1 DEF TypeOK
    <2>2. CASE d # x
        <3>1. link[o][d] = NULL
            BY <2>2 DEF ItemInv, ItemsLive, LinkedItems
        <3> QED
            BY <1>1, <1>2, <2>2, <3>1 DEF TypeOK
    <2> QED
        BY <2>1, <2>2
<1>5. \A j \in Items : j # i => item'[j] = item[j]
    BY <1>2 DEF TypeOK
<1>6. \A p \in Objects : p # o /\ tree[p] # NULL =>
         tree[p] # i /\ tree[p] \in Items
    BY <1>1, Subscription
<1>7. SubscribedItems'
    <2> SUFFICES ASSUME NEW p \in Objects, tree'[p] # NULL
                 PROVE  /\ item'[tree'[p]].alloc /\ item'[tree'[p]].owner
                        /\ item'[tree'[p]].object = p
                        /\ link'[p][item'[tree'[p]].dir] = tree'[p]
        BY DEF SubscribedItems
    <2>1. p # o /\ tree'[p] = tree[p] /\ link'[p] = link[p]
        BY <1>3
    <2>2. item'[tree[p]] = item[tree[p]]
        BY <1>5, <1>6, <2>1
    <2> QED
        BY <2>1, <2>2, Subscription
<1>8. LinkedItems'
    <2> SUFFICES ASSUME NEW p \in Objects, NEW d \in Dirs, link'[p][d] # NULL
                 PROVE  link'[p][d] = tree'[p] /\ item'[tree'[p]].dir = d
        BY DEF LinkedItems
    <2>1. p # o
        BY <1>4
    <2>2. tree'[p] = tree[p] /\ link'[p] = link[p]
        BY <1>3, <2>1
    <2>3. link[p][d] = tree[p] /\ item[tree[p]].dir = d
        BY <2>2 DEF ItemInv, ItemsLive, LinkedItems
    <2>4. item'[tree[p]] = item[tree[p]]
        BY <1>5, <1>6, <2>1, <2>2, <2>3
    <2> QED
        BY <2>2, <2>3, <2>4
<1>9. WaitingItems'
    <2>1. waiting_list \in Seq(Items) /\ NoDuplicates(waiting_list)
        BY DEF TypeOK, NoDuplicates, ItemInv, ItemsLive, WaitingItems
    <2>2. /\ NoDuplicates(waiting_list')
          /\ \A k \in 1..Len(waiting_list') :
                /\ waiting_list'[k] # i
                /\ \E l \in 1..Len(waiting_list) : waiting_list'[k] = waiting_list[l]
        BY <1>2, <2>1, UnlinkElements
    <2>3. ASSUME NEW k \in 1..Len(waiting_list')
          PROVE  /\ item'[waiting_list'[k]].alloc
                 /\ tree'[item'[waiting_list'[k]].object] = waiting_list'[k]
        <3>1. PICK l \in 1..Len(waiting_list) : waiting_list'[k] = waiting_list[l]
            BY <2>2
        <3> DEFINE j == waiting_list[l]
        <3>2. j \in Items /\ j # i
            BY <2>1, <2>2, <3>1
        <3>3. item[j].alloc /\ tree[item[j].object] = j
            BY DEF ItemInv, ItemsLive, WaitingItems
        <3>4. item[j].object \in Objects /\ item[j].object # o
            BY <3>2, <3>3 DEF ItemInv, AllocatedItems
        <3> QED
            BY <1>3, <1>5, <3>1, <3>2, <3>3, <3>4
    <2> QED
        BY <2>2, <2>3 DEF NoDuplicates, WaitingItems
<1>10. item'[i] = IF isCurrent THEN [item[i] EXCEPT !.owner = FALSE] ELSE FreedItem
    BY <1>1, <1>2 DEF TypeOK
<1>11. item'[i].alloc => isCurrent /\ ~item'[i].owner /\ item'[i].object = o
    BY <1>1, <1>10 DEF TypeOK, FreedItem, ItemState
<1>12. AllocatedItems'
    BY <1>5, <1>11 DEF ItemInv, AllocatedItems
<1>13. ASSUME NEW j \in Items, item'[j].alloc, item'[j].owner
       PROVE  tree'[item'[j].object] = j
    <2>1. j # i /\ item'[j] = item[j]
        BY <1>5, <1>11, <1>13
    <2>2. tree[item[j].object] = j /\ item[j].object \in Objects
        BY <1>13, <2>1 DEF ItemInv, ItemsLive, CurrentItem, AllocatedItems
    <2>3. item[j].object # o
        BY <2>1, <2>2
    <2> QED
        BY <1>3, <2>1, <2>2, <2>3
<1> QED
    BY <1>5, <1>7, <1>8, <1>9, <1>11, <1>12, <1>13

\* A step that touches no list keeps the items in order if it leaves the item in process
\* where it is or takes it a step further.
LEMMA ItemFrame ==
    ASSUME ItemInv, UNCHANGED <<listVars, cur>>,
           \/ UNCHANGED pc
           \/ /\ pc \notin {"process", "callback", "finish"}
              /\ pc' \notin {"process", "callback", "finish"}
           \/ pc = "process" /\ pc' \in {"callback", "finish"}
           \/ pc = "callback" /\ pc' = "finish"
    PROVE  ItemInv'
<1> USE DEF listVars
<1>1. SubscribedItems' /\ LinkedItems' /\ AllocatedItems'
    BY DEF ItemInv, ItemsLive, SubscribedItems, LinkedItems, AllocatedItems
<1>2. WaitingItems'
    BY DEF ItemInv, ItemsLive, WaitingItems
<1>3. CurrentItem'
    BY DEF ItemInv, ItemsLive, CurrentItem
<1> QED
    BY <1>1, <1>2, <1>3 DEF ItemInv, ItemsLive

\* A new subscription takes an item nothing points to.
LEMMA SubscribeKeeps ==
    ASSUME TypeOK, ItemInv, Control,
           NEW o \in Objects, NEW d \in Dirs, NEW m \in Modes, Subscribe(o, d, m)
    PROVE  ItemInv'
<1>1. PICK i \in Items : SubscribeItem(o, d, m, i)
    BY DEF Subscribe
<1>2. /\ tree[o] = NULL /\ ~item[i].alloc /\ pc \notin {"process", "finish"}
      /\ pc' = pc /\ cur' = cur
    BY <1>1 DEF Subscribe, SubscribeItem, OwnerMay, UserCode, loopVars
<1>3. /\ tree'[o] = i /\ \A p \in Objects : p # o => tree'[p] = tree[p] /\ link'[p] = link[p]
      /\ link'[o][d] = i /\ \A c \in Dirs : c # d => link'[o][c] = link[o][c]
    BY <1>1 DEF SubscribeItem, TypeOK
<1>4. /\ item'[i].alloc /\ item'[i].owner /\ item'[i].object = o /\ item'[i].dir = d
      /\ \A j \in Items : j # i => item'[j] = item[j]
    BY <1>1 DEF SubscribeItem, TypeOK
<1>5. \A p \in Objects : tree[p] # NULL => tree[p] # i /\ tree[p] \in Items
    BY <1>2, Subscription
<1>6. \A c \in Dirs : link[o][c] = NULL
    BY <1>2 DEF ItemInv, ItemsLive, LinkedItems
<1>7. SubscribedItems'
    <2> SUFFICES ASSUME NEW p \in Objects, tree'[p] # NULL
                 PROVE  /\ item'[tree'[p]].alloc /\ item'[tree'[p]].owner
                        /\ item'[tree'[p]].object = p
                        /\ link'[p][item'[tree'[p]].dir] = tree'[p]
        BY DEF SubscribedItems
    <2>1. CASE p = o
        BY <1>3, <1>4, <2>1
    <2>2. CASE p # o
        BY <1>3, <1>4, <1>5, <2>2, Subscription
    <2> QED
        BY <2>1, <2>2
<1>8. LinkedItems'
    <2> SUFFICES ASSUME NEW p \in Objects, NEW c \in Dirs, link'[p][c] # NULL
                 PROVE  link'[p][c] = tree'[p] /\ item'[tree'[p]].dir = c
        BY DEF LinkedItems
    <2>1. CASE p = o
        BY <1>3, <1>4, <1>6, <2>1
    <2>2. CASE p # o
        BY <1>3, <1>4, <1>5, <2>2 DEF ItemInv, ItemsLive, LinkedItems
    <2> QED
        BY <2>1, <2>2
<1>9. \A k \in 1..Len(waiting_list) :
         /\ item'[waiting_list[k]].alloc
         /\ tree'[item'[waiting_list[k]].object] = waiting_list[k]
    <2> SUFFICES ASSUME NEW k \in 1..Len(waiting_list)
                 PROVE  /\ item'[waiting_list[k]].alloc
                        /\ tree'[item'[waiting_list[k]].object] = waiting_list[k]
        OBVIOUS
    <2> DEFINE j == waiting_list[k]
    <2>1. j \in Items
        BY DEF TypeOK
    <2>2. item[j].alloc /\ tree[item[j].object] = j
        BY DEF ItemInv, ItemsLive, WaitingItems
    <2>3. item[j].object \in Objects
        BY <2>1, <2>2 DEF ItemInv, AllocatedItems
    <2>4. j # i /\ item[j].object # o
        BY <1>2, <2>1, <2>2, NullIsNothing
    <2> QED
        BY <1>3, <1>4, <2>1, <2>2, <2>3, <2>4
<1>10. WaitingItems'
    <2>1. CASE NotifyItem(i)
        BY <1>3, <1>4, <1>9, <2>1, NotifyItemKeeps DEF ItemInv, ItemsLive
    <2>2. CASE UNCHANGED waiting_list
        BY <1>9, <2>2 DEF ItemInv, ItemsLive, WaitingItems
    <2> QED
        BY <1>1, <2>1, <2>2 DEF SubscribeItem
<1>11. AllocatedItems'
    BY <1>4 DEF ItemInv, AllocatedItems
<1>12. pc' = "callback" => cur' # NULL /\ item'[cur'].alloc
    <2> SUFFICES ASSUME pc = "callback" PROVE cur # NULL /\ item'[cur].alloc
        BY <1>2
    <2>1. cur \in Items /\ item[cur].alloc
        BY DEF Control, ItemInv, ItemsLive, CurrentItem
    <2> QED
        BY <1>2, <1>4, <2>1, NullIsNothing
<1>13. \A j \in Items : item'[j].alloc /\ ~item'[j].owner =>
          j = cur' /\ pc' \in {"callback", "finish"}
    BY <1>2, <1>4 DEF ItemInv, ItemsLive, CurrentItem
<1>14. ASSUME NEW j \in Items, item'[j].alloc, item'[j].owner
       PROVE  tree'[item'[j].object] = j
    <2>1. CASE j = i
        BY <1>3, <1>4, <2>1
    <2>2. CASE j # i
        <3>1. item'[j] = item[j] /\ tree[item[j].object] = j /\ item[j].object \in Objects
            BY <1>4, <1>14, <2>2 DEF ItemInv, ItemsLive, CurrentItem, AllocatedItems
        <3>2. item[j].object # o
            BY <1>2, <3>1, NullIsNothing
        <3> QED
            BY <1>3, <3>1, <3>2
    <2> QED
        BY <2>1, <2>2
<1>15. CurrentItem'
    BY <1>2, <1>12, <1>13, <1>14 DEF CurrentItem
<1> QED
    BY <1>7, <1>8, <1>10, <1>11, <1>15 DEF ItemInv, ItemsLive

\* Nothing is subscribed, waiting or allocated when the loop is allocated.
LEMMA ItemInit == Init => ItemInv
BY DEF Init, ItemInv, ItemsLive, SubscribedItems, LinkedItems, WaitingItems, CurrentItem,
       AllocatedItems, FreedItem

\* Every step keeps the items and the pointers to them in order.
LEMMA ItemStep == TypeOK /\ Control /\ ItemInv /\ [Next]_vars => ItemInv'
<1> SUFFICES ASSUME TypeOK, Control, ItemInv, [Next]_vars
             PROVE  ItemInv'
    OBVIOUS
<1>1. CASE UNCHANGED vars
    BY <1>1, ItemFrame DEF vars, listVars
<1>2. ASSUME NEW t \in AllThreads, NEW o \in Objects, Put(t, o)
      PROVE  ItemInv'
    BY <1>2, ItemFrame DEF Put, listVars, loopVars
<1>3. ASSUME NEW t \in AllThreads, NEW o \in Objects, Get(t, o)
      PROVE  ItemInv'
    BY <1>3, ItemFrame DEF Get, listVars, loopVars
<1>4. ASSUME NEW t \in AllThreads, NEW o \in Objects, Reset(t, o)
      PROVE  ItemInv'
    BY <1>4, ItemFrame DEF Reset, listVars, loopVars
<1>5. ASSUME NEW t \in AllThreads, NEW o \in Objects, EventFlagSet(t, o)
      PROVE  ItemInv'
    BY <1>5, NotifyLinkKeeps DEF EventFlagSet, Dirs, loopVars
<1>6. ASSUME NEW t \in AllThreads, NEW o \in Objects, EventFlagClear(t, o)
      PROVE  ItemInv'
    BY <1>6, NotifyLinkKeeps DEF EventFlagClear, Dirs, loopVars
<1>7. ASSUME NEW t \in AllThreads, SetThreadFlags(t)
      PROVE  ItemInv'
    BY <1>7, ItemFrame DEF SetThreadFlags, listVars, loopVars
<1>8. ASSUME NEW t \in AllThreads, Stop(t)
      PROVE  ItemInv'
    BY <1>8, ItemFrame DEF Stop, listVars, loopVars
<1>9. ASSUME NEW t \in AllThreads, LinkNotify(t)
      PROVE  ItemInv'
    BY <1>9, NotifyLinkKeeps DEF LinkNotify, loopVars
<1>10. ASSUME NEW o \in Objects, NEW d \in Dirs, NEW m \in Modes, Subscribe(o, d, m)
      PROVE  ItemInv'
    BY <1>10, SubscribeKeeps
<1>11. ASSUME NEW o \in Objects, Unsubscribe(o)
      PROVE  ItemInv'
    <2>1. tree[o] # NULL /\ IsCurrent(tree[o]) \in BOOLEAN /\ Detach(tree[o], IsCurrent(tree[o]))
        BY <1>11 DEF Unsubscribe, IsCurrent
    <2>2. /\ SubscribedItems' /\ LinkedItems' /\ WaitingItems' /\ AllocatedItems'
          /\ \A j \in Items : item'[j].alloc =>
                /\ j = tree[o] => IsCurrent(tree[o]) /\ ~item'[j].owner
                /\ j # tree[o] => item'[j] = item[j]
                /\ item'[j].owner => tree'[item'[j].object] = j
        BY <2>1, DetachKeeps
    <2>3. pc' = pc /\ cur' = cur /\ pc \notin {"process", "finish"}
        BY <1>11 DEF Unsubscribe, OwnerMay, UserCode, loopVars
    <2>4. \A j \in Items : item'[j].alloc /\ ~item'[j].owner =>
             j = cur' /\ pc' \in {"callback", "finish"}
        BY <2>2, <2>3 DEF IsCurrent, ItemInv, ItemsLive, CurrentItem
    <2>5. pc' = "callback" => cur' # NULL /\ item'[cur'].alloc
        <3> SUFFICES ASSUME pc = "callback" PROVE cur # NULL /\ item'[cur].alloc
            BY <2>3
        <3>1. cur \in Items /\ cur # NULL /\ item[cur].alloc
            BY DEF Control, ItemInv, ItemsLive, CurrentItem
        <3>2. CASE cur = tree[o]
            <4>1. IsCurrent(tree[o]) /\ item[cur].object = o
                BY <2>1, <3>2, Subscription DEF IsCurrent
            <4>2. item' = [item EXCEPT ![cur].owner = FALSE]
                BY <2>1, <3>2, <4>1 DEF Detach
            <4> QED
                BY <3>1, <4>2 DEF TypeOK, ItemState
        <3>3. CASE cur # tree[o]
            BY <2>1, <3>1, <3>3 DEF Detach, TypeOK
        <3> QED
            BY <3>2, <3>3
    <2>6. CurrentItem'
        BY <2>2, <2>3, <2>4, <2>5 DEF CurrentItem
    <2> QED
        BY <2>2, <2>6 DEF ItemInv, ItemsLive
<1>12. CASE SubscribeThreadFlags
    BY <1>12, ItemFrame DEF SubscribeThreadFlags, listVars, loopVars
<1>13. CASE UnsubscribeThreadFlags
    BY <1>13, ItemFrame DEF UnsubscribeThreadFlags, listVars, loopVars
<1>14. CASE PendCallback
    BY <1>14, ItemFrame DEF PendCallback, listVars, loopVars
<1>15. CASE TimerCommand
    BY <1>15, ItemFrame DEF TimerCommand, listVars, loopVars
<1>16. CASE FreeLoop
    BY <1>16, ItemFrame DEF FreeLoop, listVars, loopVars
<1>17. CASE AllocLoop
    BY <1>17, ItemFrame DEF AllocLoop, listVars, loopVars
<1>18. CASE Run
    BY <1>18, ItemFrame DEF Run, listVars, loopVars
<1>19. CASE TakeFlags
    BY <1>19, ItemFrame DEF TakeFlags, listVars, loopVars
<1>20. CASE DispatchStop
    BY <1>20, ItemFrame DEF DispatchStop, listVars, loopVars
<1>21. CASE DispatchEvent
    <2>1. CASE waiting_list = <<>>
        BY <1>21, <2>1, ItemFrame DEF DispatchEvent, listVars
    <2>2. CASE waiting_list # <<>>
        <3>1. /\ cur' = Head(waiting_list) /\ waiting_list' = Tail(waiting_list)
              /\ pc = "dispatch" /\ pc' = "process" /\ UNCHANGED <<link, item, tree>>
            BY <1>21, <2>2 DEF DispatchEvent
        <3>2. SubscribedItems' /\ LinkedItems' /\ AllocatedItems'
            BY <3>1 DEF ItemInv, ItemsLive, SubscribedItems, LinkedItems, AllocatedItems
        <3>3. /\ Len(waiting_list) \in Nat \ {0} /\ Len(waiting_list') = Len(waiting_list) - 1
              /\ \A k \in 1..Len(waiting_list') : waiting_list'[k] = waiting_list[k + 1]
              /\ cur' = waiting_list[1] /\ cur' \in Items
            BY <2>2, <3>1 DEF TypeOK
        <3>4. WaitingItems'
            BY <3>1, <3>3 DEF ItemInv, ItemsLive, WaitingItems
        <3>5. cur' # NULL /\ item[cur'].alloc /\ tree[item[cur'].object] = cur'
            BY <3>3, NullIsNothing DEF ItemInv, ItemsLive, WaitingItems
        <3>6. CurrentItem'
            BY <3>1, <3>5 DEF ItemInv, ItemsLive, CurrentItem
        <3> QED
            BY <3>2, <3>4, <3>6 DEF ItemInv, ItemsLive
    <2> QED
        BY <2>1, <2>2
<1>22. CASE DispatchTimer
    BY <1>22, ItemFrame DEF DispatchTimer, listVars, loopVars
<1>23. CASE DispatchPending
    BY <1>23, ItemFrame DEF DispatchPending, listVars, loopVars
<1>24. CASE DispatchThreadFlag
    BY <1>24, ItemFrame DEF DispatchThreadFlag, listVars, loopVars
<1>25. CASE ProcessItem
    <2>1. CASE item[cur].once
        <3>1. /\ cur \in Items /\ item[cur].alloc /\ tree[item[cur].object] = cur
              /\ item[cur].object \in Objects
            BY <1>25 DEF ProcessItem, Control, ItemInv, ItemsLive, CurrentItem, AllocatedItems
        <3> DEFINE o == item[cur].object
        <3>2. Detach(tree[o], FALSE) /\ tree[o] # NULL
            BY <1>25, <2>1, <3>1, NullIsNothing DEF ProcessItem
        <3>3. /\ SubscribedItems' /\ LinkedItems' /\ WaitingItems' /\ AllocatedItems'
              /\ \A j \in Items : item'[j].alloc =>
                    /\ j # cur /\ item'[j] = item[j]
                    /\ item'[j].owner => tree'[item'[j].object] = j
            BY <3>1, <3>2, DetachKeeps
        <3>4. pc = "process" /\ pc' = "undefined" /\ cur' = cur
            BY <1>25, <2>1 DEF ProcessItem
        <3>5. CurrentItem'
            BY <3>3, <3>4 DEF ItemInv, ItemsLive, CurrentItem
        <3> QED
            BY <3>3, <3>5 DEF ItemInv, ItemsLive
    <2>2. CASE ~item[cur].once
        <3>1. pc = "process" /\ pc' \in {"callback", "finish"} /\ UNCHANGED <<listVars, cur>>
            BY <1>25, <2>2 DEF ProcessItem
        <3> QED
            BY <3>1, ItemFrame
    <2> QED
        BY <2>1, <2>2
<1>26. CASE CallbackReturn
    BY <1>26, ItemFrame DEF CallbackReturn, listVars, loopVars
<1>27. CASE FinishItem
    <2>1. /\ cur \in Items /\ item[cur].alloc /\ pc = "finish"
          /\ pc' = "sync" /\ cur' = NULL /\ UNCHANGED <<link, tree>>
        BY <1>27 DEF FinishItem, Control, ItemInv, ItemsLive, CurrentItem
    <2>2. CASE item[cur].owner
        <3>1. UNCHANGED item
            BY <1>27, <2>2 DEF FinishItem
        <3>2. SubscribedItems' /\ LinkedItems' /\ AllocatedItems'
            BY <2>1, <3>1 DEF ItemInv, ItemsLive, SubscribedItems, LinkedItems, AllocatedItems
        <3>3. tree[item[cur].object] = cur
            BY <2>1, <2>2 DEF ItemInv, ItemsLive, CurrentItem
        <3>4. WaitingItems'
            <4>1. CASE again
                <5>1. NotifyItem(cur)
                    BY <1>27, <2>2, <4>1 DEF FinishItem
                <5> QED
                    BY <2>1, <3>1, <3>3, <5>1, NotifyItemKeeps DEF ItemInv, ItemsLive, WaitingItems
            <4>2. CASE ~again
                BY <1>27, <2>1, <2>2, <3>1, <4>2 DEF FinishItem, ItemInv, ItemsLive, WaitingItems
            <4> QED
                BY <4>1, <4>2
        <3>5. CurrentItem'
            BY <2>1, <2>2, <3>1 DEF ItemInv, ItemsLive, CurrentItem
        <3> QED
            BY <3>2, <3>4, <3>5 DEF ItemInv, ItemsLive
    <2>3. CASE ~item[cur].owner
        <3>1. item' = [item EXCEPT ![cur] = FreedItem] /\ UNCHANGED waiting_list
            BY <1>27, <2>3 DEF FinishItem
        <3>2. ~item'[cur].alloc /\ \A j \in Items : j # cur => item'[j] = item[j]
            BY <2>1, <3>1 DEF TypeOK, FreedItem
        <3>3. \A p \in Objects : tree[p] # NULL => tree[p] \in Items /\ tree[p] # cur
            BY <2>3, Subscription
        <3>4. SubscribedItems'
            BY <2>1, <3>2, <3>3 DEF ItemInv, ItemsLive, SubscribedItems
        <3>5. LinkedItems'
            BY <2>1, <3>2, <3>3 DEF ItemInv, ItemsLive, LinkedItems
        <3>6. \A k \in 1..Len(waiting_list) : waiting_list[k] \in Items /\ waiting_list[k] # cur
            <4> SUFFICES ASSUME NEW k \in 1..Len(waiting_list)
                         PROVE  waiting_list[k] \in Items /\ waiting_list[k] # cur
                OBVIOUS
            <4> DEFINE j == waiting_list[k]
            <4>1. j \in Items
                BY DEF TypeOK
            <4>2. item[j].alloc /\ tree[item[j].object] = j
                BY DEF ItemInv, ItemsLive, WaitingItems
            <4>3. item[j].object \in Objects
                BY <4>1, <4>2 DEF ItemInv, AllocatedItems
            <4> QED
                BY <3>3, <4>1, <4>2, <4>3, NullIsNothing
        <3>7. WaitingItems'
            BY <2>1, <3>1, <3>2, <3>6 DEF ItemInv, ItemsLive, WaitingItems
        <3>8. AllocatedItems'
            BY <3>2 DEF ItemInv, AllocatedItems
        <3>9. CurrentItem'
            BY <2>1, <3>2 DEF ItemInv, ItemsLive, CurrentItem
        <3> QED
            BY <3>4, <3>5, <3>7, <3>8, <3>9 DEF ItemInv, ItemsLive
    <2> QED
        BY <2>2, <2>3
<1>28. CASE SyncFlags
    BY <1>28, ItemFrame DEF SyncFlags, listVars, loopVars
<1>29. CASE RestoreFlags
    BY <1>29, ItemFrame DEF RestoreFlags, listVars, loopVars
<1>30. CASE CallPending
    BY <1>30, ItemFrame DEF CallPending, listVars, loopVars
<1>31. CASE PendingReturn
    BY <1>31, ItemFrame DEF PendingReturn, listVars, loopVars
<1>32. CASE SimpleReturn
    BY <1>32, ItemFrame DEF SimpleReturn, listVars, loopVars
<1>33. CASE TimeOut
    BY <1>33, ItemFrame DEF TimeOut, listVars, loopVars
<1> QED
    BY <1>1, <1>2, <1>3, <1>4, <1>5, <1>6, <1>7, <1>8, <1>9, <1>10, <1>11, <1>12,
       <1>13, <1>14, <1>15, <1>16, <1>17, <1>18, <1>19, <1>20, <1>21, <1>22, <1>23,
       <1>24, <1>25, <1>26, <1>27, <1>28, <1>29, <1>30, <1>31, <1>32, <1>33
       DEF Next, ObjectUse, OwnerCall, LoopStep

\* THEOREM: no pointer to an item outlives the item, and no item outlives its last
\* pointer, for any number of objects, items and threads and any interleaving of their
\* notifications with subscriptions cancelled inside and outside of callbacks.
THEOREM ItemsStayLive == Spec => []ItemsLive
<1>1. Init => TypeOK /\ Control /\ ItemInv
    BY TypeInit, ItemInit DEF Init, Control
<1>2. TypeOK /\ Control /\ ItemInv /\ [Next]_vars => (TypeOK /\ Control /\ ItemInv)'
    BY TypeStep, ControlStep, ItemStep
<1>3. ItemInv => ItemsLive
    BY DEF ItemInv
<1> QED
    BY <1>1, <1>2, <1>3, PTL DEF Spec

-----------------------------------------------------------------------------
(* Wake-ups *)

\* A loop that is not allocated has nothing queued.
FreeIsEmpty ==
    pc = "none" => /\ timer_queue = 0
                   /\ pending_queue = <<>>
                   /\ \A o \in Objects : tree[o] = NULL

\* Without a subscription nothing waits.
LEMMA NothingWaits ==
    ASSUME TypeOK, ItemInv, \A o \in Objects : tree[o] = NULL
    PROVE  waiting_list = <<>>
<1> SUFFICES ASSUME waiting_list # <<>> PROVE FALSE
    OBVIOUS
<1>1. waiting_list \in Seq(Items) /\ 1 \in 1..Len(waiting_list)
    BY DEF TypeOK
<1>2. waiting_list[1] \in Items
    BY <1>1
<1>3. item[waiting_list[1]].alloc /\ tree[item[waiting_list[1]].object] = waiting_list[1]
    BY <1>1 DEF ItemInv, ItemsLive, WaitingItems
<1>4. item[waiting_list[1]].object \in Objects
    BY <1>2, <1>3 DEF ItemInv, AllocatedItems
<1> QED
    BY <1>2, <1>3, <1>4, NullIsNothing

\* Every step keeps an unallocated loop empty.
LEMMA FreeStep == TypeOK /\ ItemInv /\ FreeIsEmpty /\ [Next]_vars => FreeIsEmpty'
<1> SUFFICES ASSUME TypeOK, ItemInv, FreeIsEmpty, [Next]_vars
             PROVE  FreeIsEmpty'
    OBVIOUS
<1> USE DEF FreeIsEmpty, listVars, loopVars, deferVars
<1>1. CASE UNCHANGED vars
    BY <1>1 DEF vars
<1>2. ASSUME NEW t \in AllThreads, NEW o \in Objects, Put(t, o)
      PROVE  FreeIsEmpty'
    BY <1>2 DEF Put
<1>3. ASSUME NEW t \in AllThreads, NEW o \in Objects, Get(t, o)
      PROVE  FreeIsEmpty'
    BY <1>3 DEF Get
<1>4. ASSUME NEW t \in AllThreads, NEW o \in Objects, Reset(t, o)
      PROVE  FreeIsEmpty'
    BY <1>4 DEF Reset
<1>5. ASSUME NEW t \in AllThreads, NEW o \in Objects, EventFlagSet(t, o)
      PROVE  FreeIsEmpty'
    BY <1>5 DEF EventFlagSet
<1>6. ASSUME NEW t \in AllThreads, NEW o \in Objects, EventFlagClear(t, o)
      PROVE  FreeIsEmpty'
    BY <1>6 DEF EventFlagClear
<1>7. ASSUME NEW t \in AllThreads, SetThreadFlags(t)
      PROVE  FreeIsEmpty'
    BY <1>7 DEF SetThreadFlags
<1>8. ASSUME NEW t \in AllThreads, Stop(t)
      PROVE  FreeIsEmpty'
    BY <1>8 DEF Stop
<1>9. ASSUME NEW t \in AllThreads, LinkNotify(t)
      PROVE  FreeIsEmpty'
    BY <1>9 DEF LinkNotify
<1>10. ASSUME NEW o \in Objects, NEW d \in Dirs, NEW m \in Modes, Subscribe(o, d, m)
      PROVE  FreeIsEmpty'
    BY <1>10 DEF Subscribe, OwnerMay, UserCode
<1>11. ASSUME NEW o \in Objects, Unsubscribe(o)
      PROVE  FreeIsEmpty'
    BY <1>11 DEF Unsubscribe, OwnerMay, UserCode
<1>12. CASE SubscribeThreadFlags
    BY <1>12 DEF SubscribeThreadFlags
<1>13. CASE UnsubscribeThreadFlags
    BY <1>13 DEF UnsubscribeThreadFlags
<1>14. CASE PendCallback
    BY <1>14 DEF PendCallback, OwnerMay, UserCode
<1>15. CASE TimerCommand
    BY <1>15 DEF TimerCommand, OwnerMay, UserCode
<1>16. CASE FreeLoop
    BY <1>16 DEF FreeLoop
<1>17. CASE AllocLoop
    BY <1>17 DEF AllocLoop
<1>18. CASE Run
    BY <1>18 DEF Run
<1>19. CASE TakeFlags
    BY <1>19 DEF TakeFlags
<1>20. CASE DispatchStop
    BY <1>20 DEF DispatchStop
<1>21. CASE DispatchEvent
    BY <1>21 DEF DispatchEvent
<1>22. CASE DispatchTimer
    BY <1>22 DEF DispatchTimer
<1>23. CASE DispatchPending
    BY <1>23 DEF DispatchPending
<1>24. CASE DispatchThreadFlag
    BY <1>24 DEF DispatchThreadFlag
<1>25. CASE ProcessItem
    <2>1. pc' \in {"undefined", "callback", "finish"}
        BY <1>25 DEF ProcessItem
    <2> QED
        BY <2>1
<1>26. CASE CallbackReturn
    BY <1>26 DEF CallbackReturn
<1>27. CASE FinishItem
    BY <1>27 DEF FinishItem
<1>28. CASE SyncFlags
    BY <1>28 DEF SyncFlags
<1>29. CASE RestoreFlags
    BY <1>29 DEF RestoreFlags
<1>30. CASE CallPending
    BY <1>30 DEF CallPending
<1>31. CASE PendingReturn
    BY <1>31 DEF PendingReturn
<1>32. CASE SimpleReturn
    BY <1>32 DEF SimpleReturn
<1>33. CASE TimeOut
    BY <1>33 DEF TimeOut
<1> QED
    BY <1>1, <1>2, <1>3, <1>4, <1>5, <1>6, <1>7, <1>8, <1>9, <1>10, <1>11, <1>12,
       <1>13, <1>14, <1>15, <1>16, <1>17, <1>18, <1>19, <1>20, <1>21, <1>22, <1>23,
       <1>24, <1>25, <1>26, <1>27, <1>28, <1>29, <1>30, <1>31, <1>32, <1>33
       DEF Next, ObjectUse, OwnerCall, LoopStep

\* Every step keeps the wake-ups: of the branches of the loop, the one taken deals with
\* its own flag, and restores the others or is taken only without them.
LEMMA WakeupStep ==
    TypeOK /\ Control /\ ItemInv /\ FreeIsEmpty /\ NoLostWakeup /\ [Next]_vars => NoLostWakeup'
<1> SUFFICES ASSUME TypeOK, Control, ItemInv, FreeIsEmpty, NoLostWakeup, [Next]_vars
             PROVE  NoLostWakeup'
    OBVIOUS
<1> USE DEF Control, FreeIsEmpty, NoLostWakeup, NotStopped, EventWakeup, TimerWakeup,
            PendingWakeup, listVars, loopVars, deferVars
<1>0. runs \in Nat /\ timer_queue \in Nat
    BY DEF TypeOK
<1>1. CASE UNCHANGED vars
    BY <1>1 DEF vars
<1>2. ASSUME NEW t \in AllThreads, NEW o \in Objects, Put(t, o)
      PROVE  NoLostWakeup'
    BY <1>0, <1>2 DEF Put
<1>3. ASSUME NEW t \in AllThreads, NEW o \in Objects, Get(t, o)
      PROVE  NoLostWakeup'
    BY <1>0, <1>3 DEF Get
<1>4. ASSUME NEW t \in AllThreads, NEW o \in Objects, Reset(t, o)
      PROVE  NoLostWakeup'
    BY <1>0, <1>4 DEF Reset
<1>5. ASSUME NEW t \in AllThreads, NEW o \in Objects, EventFlagSet(t, o)
      PROVE  NoLostWakeup'
    BY <1>0, <1>5 DEF EventFlagSet, NotifyLink, NotifyItem
<1>6. ASSUME NEW t \in AllThreads, NEW o \in Objects, EventFlagClear(t, o)
      PROVE  NoLostWakeup'
    BY <1>0, <1>6 DEF EventFlagClear, NotifyLink, NotifyItem
<1>7. ASSUME NEW t \in AllThreads, SetThreadFlags(t)
      PROVE  NoLostWakeup'
    BY <1>0, <1>7 DEF SetThreadFlags
<1>8. ASSUME NEW t \in AllThreads, Stop(t)
      PROVE  NoLostWakeup'
    BY <1>0, <1>8 DEF Stop
<1>9. ASSUME NEW t \in AllThreads, LinkNotify(t)
      PROVE  NoLostWakeup'
    BY <1>0, <1>9 DEF LinkNotify, NotifyLink, NotifyItem
<1>10. ASSUME NEW o \in Objects, NEW d \in Dirs, NEW m \in Modes, Subscribe(o, d, m)
      PROVE  NoLostWakeup'
    <2>1. PICK i \in Items : SubscribeItem(o, d, m, i)
        BY <1>0, <1>10 DEF Subscribe
    <2>2. \/ UNCHANGED <<waiting_list, notify>>
          \/ "Event" \in notify' /\ notify \subseteq notify'
        BY <2>1 DEF SubscribeItem, NotifyItem
    <2> QED
        BY <1>0, <1>10, <2>2 DEF Subscribe, OwnerMay, UserCode
<1>11. ASSUME NEW o \in Objects, Unsubscribe(o)
      PROVE  NoLostWakeup'
    <2>1. waiting_list' = Unlink(waiting_list, tree[o]) /\ tree' = [tree EXCEPT ![item[tree[o]].object] = NULL]
        BY <1>0, <1>11 DEF Unsubscribe, Detach
    <2>2. waiting_list = <<>> => waiting_list' = <<>>
        BY <2>1 DEF Unlink, Has
    <2> QED
        BY <1>0, <1>11, <2>2 DEF Unsubscribe, OwnerMay, UserCode
<1>12. CASE SubscribeThreadFlags
    BY <1>0, <1>12 DEF SubscribeThreadFlags
<1>13. CASE UnsubscribeThreadFlags
    BY <1>0, <1>13 DEF UnsubscribeThreadFlags
<1>14. CASE PendCallback
    BY <1>0, <1>14 DEF PendCallback, OwnerMay, UserCode
<1>15. CASE TimerCommand
    BY <1>0, <1>15 DEF TimerCommand, OwnerMay, UserCode
<1>16. CASE FreeLoop
    <2>1. waiting_list = <<>>
        BY <1>0, <1>16, NothingWaits DEF FreeLoop
    <2> QED
        BY <1>0, <1>16, <2>1 DEF FreeLoop
<1>17. CASE AllocLoop
    <2>1. waiting_list = <<>>
        BY <1>0, <1>17, NothingWaits DEF AllocLoop
    <2> QED
        BY <1>0, <1>17, <2>1 DEF AllocLoop
<1>18. CASE Run
    BY <1>0, <1>18 DEF Run
<1>19. CASE TakeFlags
    BY <1>0, <1>19 DEF TakeFlags
<1>20. CASE DispatchStop
    BY <1>0, <1>20 DEF DispatchStop, FirstFlag, Flags
<1>21. CASE DispatchEvent
    BY <1>0, <1>21 DEF DispatchEvent, FirstFlag, Flags
<1>22. CASE DispatchTimer
    <2>1. pending_queue = <<>> => pending_queue' = <<>>
        BY <1>0, <1>22 DEF DispatchTimer
    <2> QED
        BY <1>0, <1>22, <2>1 DEF DispatchTimer, FirstFlag, Flags
<1>23. CASE DispatchPending
    BY <1>0, <1>23 DEF DispatchPending, FirstFlag, Flags
<1>24. CASE DispatchThreadFlag
    BY <1>0, <1>24 DEF DispatchThreadFlag, FirstFlag, Flags
<1>25. CASE ProcessItem
    <2>1. pc = "process" /\ pc' \in {"undefined", "callback", "finish"}
        BY <1>0, <1>25 DEF ProcessItem
    <2> QED
        BY <1>0, <1>25, <2>1 DEF ProcessItem
<1>26. CASE CallbackReturn
    BY <1>0, <1>26 DEF CallbackReturn
<1>27. CASE FinishItem
    <2>1. pc = "finish" /\ pc' = "sync" /\ notify \subseteq notify'
        BY <1>0, <1>27 DEF FinishItem, NotifyItem
    <2> QED
        BY <1>0, <1>27, <2>1 DEF FinishItem
<1>28. CASE SyncFlags
    BY <1>0, <1>28 DEF SyncFlags
<1>29. CASE RestoreFlags
    BY <1>0, <1>29 DEF RestoreFlags
<1>30. CASE CallPending
    BY <1>0, <1>30 DEF CallPending
<1>31. CASE PendingReturn
    BY <1>0, <1>31 DEF PendingReturn
<1>32. CASE SimpleReturn
    BY <1>0, <1>32 DEF SimpleReturn
<1>33. CASE TimeOut
    BY <1>0, <1>33 DEF TimeOut
<1> QED
    BY <1>1, <1>2, <1>3, <1>4, <1>5, <1>6, <1>7, <1>8, <1>9, <1>10, <1>11, <1>12,
       <1>13, <1>14, <1>15, <1>16, <1>17, <1>18, <1>19, <1>20, <1>21, <1>22, <1>23,
       <1>24, <1>25, <1>26, <1>27, <1>28, <1>29, <1>30, <1>31, <1>32, <1>33
       DEF Next, ObjectUse, OwnerCall, LoopStep

\* THEOREM: until the loop is stopped, no event, timer request or pended callback is
\* queued without a notification, for any number of objects, items and threads: neither
\* the branches that take one flag at a time nor callbacks that queue more lose one.
THEOREM NoWakeupLost == Spec => []NoLostWakeup
<1>1. Init => TypeOK /\ Control /\ ItemInv /\ FreeIsEmpty /\ NoLostWakeup
    BY TypeInit, ItemInit DEF Init, Control, FreeIsEmpty, NoLostWakeup, EventWakeup,
       TimerWakeup, PendingWakeup
<1>2. TypeOK /\ Control /\ ItemInv /\ FreeIsEmpty /\ NoLostWakeup /\ [Next]_vars
        => (TypeOK /\ Control /\ ItemInv /\ FreeIsEmpty /\ NoLostWakeup)'
    BY TypeStep, ControlStep, ItemStep, FreeStep, WakeupStep
<1> QED
    BY <1>1, <1>2, PTL DEF Spec

-----------------------------------------------------------------------------
(* Freed items *)

NoOnceItem == pc # "undefined" /\ \A i \in Items : item[i].alloc => ~item[i].once

\* Without a Once subscription, every step keeps it so.
LEMMA NoOnceStep ==
    ASSUME \A m \in Modes : ~m.once,
           TypeOK, Control, ItemInv, NoOnceItem, [Next]_vars
    PROVE  NoOnceItem'
<1> USE DEF NoOnceItem, listVars, loopVars
<1>1. CASE UNCHANGED vars
    BY <1>1 DEF vars
<1>2. ASSUME NEW t \in AllThreads, NEW o \in Objects, Put(t, o)
      PROVE  NoOnceItem'
    BY <1>2 DEF Put
<1>3. ASSUME NEW t \in AllThreads, NEW o \in Objects, Get(t, o)
      PROVE  NoOnceItem'
    BY <1>3 DEF Get
<1>4. ASSUME NEW t \in AllThreads, NEW o \in Objects, Reset(t, o)
      PROVE  NoOnceItem'
    BY <1>4 DEF Reset
<1>5. ASSUME NEW t \in AllThreads, NEW o \in Objects, EventFlagSet(t, o)
      PROVE  NoOnceItem'
    BY <1>5 DEF EventFlagSet
<1>6. ASSUME NEW t \in AllThreads, NEW o \in Objects, EventFlagClear(t, o)
      PROVE  NoOnceItem'
    BY <1>6 DEF EventFlagClear
<1>7. ASSUME NEW t \in AllThreads, SetThreadFlags(t)
      PROVE  NoOnceItem'
    BY <1>7 DEF SetThreadFlags
<1>8. ASSUME NEW t \in AllThreads, Stop(t)
      PROVE  NoOnceItem'
    BY <1>8 DEF Stop
<1>9. ASSUME NEW t \in AllThreads, LinkNotify(t)
      PROVE  NoOnceItem'
    BY <1>9 DEF LinkNotify
<1>10. ASSUME NEW o \in Objects, NEW d \in Dirs, NEW m \in Modes, Subscribe(o, d, m)
      PROVE  NoOnceItem'
    <2>1. PICK i \in Items : SubscribeItem(o, d, m, i)
        BY <1>10 DEF Subscribe
    <2>2. item' = [item EXCEPT ![i] = [alloc |-> TRUE, owner |-> TRUE, object |-> o,
                                       dir |-> d, edge |-> m.edge, once |-> m.once]]
        BY <2>1 DEF SubscribeItem
    <2>3. ~item'[i].once /\ \A j \in Items : j # i => item'[j] = item[j]
        BY <2>2 DEF TypeOK
    <2>4. pc' = pc
        BY <1>10 DEF Subscribe
    <2> QED
        BY <2>3, <2>4
<1>11. ASSUME NEW o \in Objects, Unsubscribe(o)
      PROVE  NoOnceItem'
    <2>1. tree[o] \in Items /\ Detach(tree[o], IsCurrent(tree[o])) /\ pc' = pc
        BY <1>11, Subscription DEF Unsubscribe
    <2>2. \A j \in Items : item'[j].once => item[j].once
        BY <2>1 DEF Detach, TypeOK, FreedItem, ItemState
    <2>3. \A j \in Items : item'[j].alloc => item[j].alloc
        BY <2>1, Subscription, <1>11 DEF Detach, TypeOK, FreedItem, ItemState, Unsubscribe
    <2> QED
        BY <2>1, <2>2, <2>3
<1>12. CASE SubscribeThreadFlags
    BY <1>12 DEF SubscribeThreadFlags
<1>13. CASE UnsubscribeThreadFlags
    BY <1>13 DEF UnsubscribeThreadFlags
<1>14. CASE PendCallback
    BY <1>14 DEF PendCallback
<1>15. CASE TimerCommand
    BY <1>15 DEF TimerCommand
<1>16. CASE FreeLoop
    <2>1. waiting_list = <<>>
        BY <1>16, NothingWaits DEF FreeLoop
    <2> QED
        BY <1>16, <2>1 DEF FreeLoop
<1>17. CASE AllocLoop
    BY <1>17 DEF AllocLoop
<1>18. CASE Run
    BY <1>18 DEF Run
<1>19. CASE TakeFlags
    BY <1>19 DEF TakeFlags
<1>20. CASE DispatchStop
    BY <1>20 DEF DispatchStop
<1>21. CASE DispatchEvent
    BY <1>21 DEF DispatchEvent
<1>22. CASE DispatchTimer
    BY <1>22 DEF DispatchTimer
<1>23. CASE DispatchPending
    BY <1>23 DEF DispatchPending
<1>24. CASE DispatchThreadFlag
    BY <1>24 DEF DispatchThreadFlag
<1>25. CASE ProcessItem
    <2>1. cur \in Items /\ item[cur].alloc
        BY <1>25 DEF ProcessItem, Control, ItemInv, ItemsLive, CurrentItem
    <2>2. ~item[cur].once
        BY <2>1
    <2>3. pc' \in {"callback", "finish"} /\ UNCHANGED item
        BY <1>25, <2>2 DEF ProcessItem
    <2> QED
        BY <2>3
<1>26. CASE CallbackReturn
    BY <1>26 DEF CallbackReturn
<1>27. CASE FinishItem
    <2>1. \A j \in Items : item'[j] = item[j] \/ ~item'[j].alloc
        BY <1>27 DEF FinishItem, TypeOK, FreedItem
    <2>2. pc' = "sync"
        BY <1>27 DEF FinishItem
    <2> QED
        BY <2>1, <2>2
<1>28. CASE SyncFlags
    BY <1>28 DEF SyncFlags
<1>29. CASE RestoreFlags
    BY <1>29 DEF RestoreFlags
<1>30. CASE CallPending
    BY <1>30 DEF CallPending
<1>31. CASE PendingReturn
    BY <1>31 DEF PendingReturn
<1>32. CASE SimpleReturn
    BY <1>32 DEF SimpleReturn
<1>33. CASE TimeOut
    BY <1>33 DEF TimeOut
<1> QED
    BY <1>1, <1>2, <1>3, <1>4, <1>5, <1>6, <1>7, <1>8, <1>9, <1>10, <1>11, <1>12,
       <1>13, <1>14, <1>15, <1>16, <1>17, <1>18, <1>19, <1>20, <1>21, <1>22, <1>23,
       <1>24, <1>25, <1>26, <1>27, <1>28, <1>29, <1>30, <1>31, <1>32, <1>33
       DEF Next, ObjectUse, OwnerCall, LoopStep

\* THEOREM: the flag FuriEventLoopEventFlagOnce is the only way to a freed item: if no
\* subscriber asks for it, no callback is ever looked up in freed memory.
THEOREM OnlyOnceUsesFreedItems ==
    ASSUME \A m \in Modes : ~m.once
    PROVE  Spec => []ItemInUseIsAllocated
<1>1. Init => TypeOK /\ Control /\ ItemInv /\ NoOnceItem
    BY TypeInit, ItemInit DEF Init, Control, NoOnceItem, FreedItem
<1>2. TypeOK /\ Control /\ ItemInv /\ NoOnceItem /\ [Next]_vars
        => (TypeOK /\ Control /\ ItemInv /\ NoOnceItem)'
    BY TypeStep, ControlStep, ItemStep, NoOnceStep
<1>3. NoOnceItem => ItemInUseIsAllocated
    BY DEF NoOnceItem, ItemInUseIsAllocated
<1> QED
    BY <1>1, <1>2, <1>3, PTL DEF Spec
=============================================================================
