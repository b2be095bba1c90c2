------------------------------- MODULE Threads -------------------------------
(***************************************************************************)
(* The life of a FuriThread (furi/core/thread.c).  A thread that ends      *)
(* hands itself to the init thread, which scrubs it: it deletes the task,  *)
(* sets the state to Stopped and then calls the state callback it reads    *)
(* from the thread.  Whoever joins the thread waits for the state and may  *)
(* free it.  Loader.tla conjoins these operators with the steps of the     *)
(* threads it is about.                                                    *)
(***************************************************************************)
EXTENDS Naturals, Sequences

CONSTANTS
    Threads,          \* the threads that come and go
    NoThread,         \* nothing is being scrubbed
    ScrubQueueSize    \* length of furi_thread_scrub_message_queue

ASSUME ThreadsAssumption ==
    /\ NoThread \notin Threads
    /\ ScrubQueueSize \in Nat \ {0}

VARIABLES
    threadState,    \* FuriThread.state, or Freed when there is no such thread
    scrubQueue,     \* the threads that wait to be scrubbed
    scrubbed        \* the thread whose callback the init thread is at

threadVars == <<threadState, scrubQueue, scrubbed>>

ThreadStates == {"Freed", "Stopped", "Starting", "Running", "Stopping"}

ThreadsTypeOK ==
    /\ threadState \in [Threads -> ThreadStates]
    /\ scrubQueue \in Seq(Threads) /\ Len(scrubQueue) <= ScrubQueueSize
    /\ scrubbed \in Threads \union {NoThread}

ThreadsInit ==
    /\ threadState = [t \in Threads |-> "Freed"]
    /\ scrubQueue = <<>>
    /\ scrubbed = NoThread

ThreadGoes(t, from, to) ==
    /\ threadState[t] = from
    /\ threadState' = [threadState EXCEPT ![t] = to]

\* furi_thread_alloc_ex and furi_thread_start, called one after the other.
ThreadStarts(t) ==
    /\ ThreadGoes(t, "Freed", "Starting")
    /\ UNCHANGED <<scrubQueue, scrubbed>>

\* furi_thread_body up to the callback ...
ThreadBegins(t) ==
    /\ ThreadGoes(t, "Starting", "Running")
    /\ UNCHANGED <<scrubQueue, scrubbed>>

\* ... and when the callback has returned.
ThreadEnds(t) ==
    /\ ThreadGoes(t, "Running", "Stopping")
    /\ UNCHANGED <<scrubQueue, scrubbed>>

ThreadQueues(t) ==
    /\ threadState[t] = "Stopping"
    /\ t \notin {scrubQueue[i] : i \in DOMAIN scrubQueue}
    /\ Len(scrubQueue) < ScrubQueueSize
    /\ scrubQueue' = Append(scrubQueue, t)
    /\ UNCHANGED <<threadState, scrubbed>>

\* One turn of furi_thread_scrub: the state first ...
ScrubTakes ==
    /\ scrubbed = NoThread
    /\ scrubQueue # <<>>
    /\ scrubbed' = Head(scrubQueue)
    /\ scrubQueue' = Tail(scrubQueue)
    /\ threadState' = [threadState EXCEPT ![Head(scrubQueue)] = "Stopped"]

\* ... and then the callback: the caller adds what it does.
ScrubCalls(t) ==
    /\ scrubbed = t
    /\ scrubbed' = NoThread
    /\ UNCHANGED <<threadState, scrubQueue>>

\* furi_thread_join returns and the thread is freed.
ThreadJoined(t) ==
    /\ ThreadGoes(t, "Stopped", "Freed")
    /\ UNCHANGED <<scrubQueue, scrubbed>>

=============================================================================
