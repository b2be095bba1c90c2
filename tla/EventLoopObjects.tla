-------------------------- MODULE EventLoopObjects --------------------------
(***************************************************************************)
(* The synchronization primitives a FuriEventLoop can be subscribed to, as *)
(* far as the loop sees them: a level between zero and a capacity, and the *)
(* contract (get_level) that says whether an In or an Out event is due.    *)
(*                                                                         *)
(*   "queue"  FuriMessageQueue and FuriSemaphore: the level is the number  *)
(*            of messages (of free tokens)                                 *)
(*   "mutex"  FuriMutex: level 1 is "no owner", level 0 is "owned"         *)
(*   "stream" FuriStreamBuffer: the level counts bytes                     *)
(*   "flag"   FuriEventFlag: the level is the number of bits that are set  *)
(***************************************************************************)
EXTENDS Integers

CONSTANTS
    Objects,      \* the primitives of the instance
    Kind,         \* [Objects -> Kinds]
    Capacity,     \* [Objects -> Nat \ {0}]
    Trigger       \* [Objects -> Nat \ {0}], xTriggerLevelBytes of a stream

In  == "In"       \* FuriEventLoopEventIn
Out == "Out"      \* FuriEventLoopEventOut
Dirs == {In, Out}

Kinds == {"queue", "mutex", "stream", "flag"}

ASSUME ObjectsAssumption ==
    /\ Kind \in [Objects -> Kinds]
    /\ Capacity \in [Objects -> Nat \ {0}]
    /\ Trigger \in [Objects -> Nat \ {0}]
    /\ \A o \in Objects : Kind[o] = "mutex" => Capacity[o] = 1

(***************************************************************************)
(* get_level of the object's contract: is an event of direction d due when *)
(* the level of o is n?  A mutex answers "not owned" for both directions.  *)
(***************************************************************************)
GetLevel(o, n, d) ==
    IF d = In \/ Kind[o] = "mutex" THEN n > 0 ELSE n < Capacity[o]

(***************************************************************************)
(* Whether a finished call that moved o in direction d reaches             *)
(* furi_event_loop_link_notify.  Only a stream buffer holds back: its In   *)
(* event is announced when the bytes now available reach the trigger.      *)
(***************************************************************************)
Announces(o, n, d) == Kind[o] = "stream" /\ d = In => n >= Trigger[o]

\* How many units one call may move: a byte count for a stream, one otherwise.
Amounts(o, most) == IF Kind[o] = "stream" THEN 1..most ELSE {1}
=============================================================================
