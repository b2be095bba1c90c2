----------------------------- MODULE MCEventLoop -----------------------------
(***************************************************************************)
(* Instances of EventLoop for TLC.                                         *)
(***************************************************************************)
EXTENDS EventLoop, TLC

CONSTANTS o1, o2, i1, i2, i3

\* Kinds and sizes of the primitives, by configuration
QueueAndMutex == o1 :> "queue" @@ o2 :> "mutex"
StreamAndFlag == o1 :> "stream" @@ o2 :> "flag"
OneQueue == o1 :> "queue"
TwoOne == o1 :> 2 @@ o2 :> 1
OneOne == o1 :> 1 @@ o2 :> 1
One == o1 :> 1

Level == [edge |-> FALSE, once |-> FALSE]
Edge == [edge |-> TRUE, once |-> FALSE]
OnceEdge == [edge |-> TRUE, once |-> TRUE]
LevelModes == {Level}
BothModes == {Level, Edge}
OnceModes == {OnceEdge}

\* Item addresses are interchangeable.
ItemSymmetry == Permutations(Items)
=============================================================================
