---------------------------- MODULE EventDelivery ----------------------------
(***************************************************************************)
(* What an event loop promises to its subscribers, with no queues, flags   *)
(* or callbacks: an event raised for a subscription is handed over exactly *)
(* once, a cancelled subscription hands nothing over, and while the loop   *)
(* keeps running no raised event waits for ever.                           *)
(***************************************************************************)
CONSTANT Objects

VARIABLES
    subs,         \* objects that are subscribed
    raised,       \* subscribed objects with an event not handed over yet
    running       \* the loop is inside furi_event_loop_run

vars == <<subs, raised, running>>

Init == subs = {} /\ raised = {} /\ running = FALSE

\* A level that is already high is raised by the subscription itself.
Subscribe(o) ==
    /\ o \notin subs
    /\ subs' = subs \cup {o}
    /\ raised' \in {raised, raised \cup {o}}
    /\ UNCHANGED running

Unsubscribe(o) ==
    /\ o \in subs
    /\ subs' = subs \ {o}
    /\ raised' = raised \ {o}
    /\ UNCHANGED running

Raise(o) ==
    /\ o \in subs
    /\ raised' = raised \cup {o}
    /\ UNCHANGED <<subs, running>>

HandOver(o) ==
    /\ running
    /\ o \in raised
    /\ raised' = raised \ {o}
    /\ UNCHANGED <<subs, running>>

StartOrStop ==
    /\ running' = ~running
    /\ UNCHANGED <<subs, raised>>

Next ==
    \/ \E o \in Objects : Subscribe(o) \/ Unsubscribe(o) \/ Raise(o) \/ HandOver(o)
    \/ StartOrStop

Spec == Init /\ [][Next]_vars /\ \A o \in Objects : WF_vars(HandOver(o))
=============================================================================
