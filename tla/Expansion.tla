------------------------------ MODULE Expansion ------------------------------
(***************************************************************************)
(* Expansion modules (applications/services/expansion/expansion.c and the  *)
(* thread of expansion_worker.c) composed with the serial control thread   *)
(* (SerialControl).  The control thread takes messages posted by callers   *)
(* of the API, by the card-mount event of the storage, by the detection    *)
(* callback and by the worker; it starts one worker per detected module    *)
(* and stops it.  The worker holds the serial port while it talks to the   *)
(* module; what they say is left out, here the worker only ends, asked to  *)
(* by the Stop flag or by itself.                                          *)
(***************************************************************************)
EXTENDS SerialControl

CONSTANTS
    Callers,        \* threads that call the API of expansion.h
    Boot,           \* the one that starts the system: it only enables
    QueueSize,      \* EXPANSION_CONTROL_QUEUE_SIZE
    MaxPulses,      \* bound: falling edges of the receive pins
    MaxMounts,      \* bound: card mounts
    MaxCalls        \* bound: uses of the API by a caller

ASSUME ExpansionAssumption ==
    /\ Boot \in Callers
    /\ Clients = Callers \union {"control", "worker"}
    /\ {"control", "worker"} \intersect Callers = {}
    /\ QueueSize \in Nat \ {0}
    /\ MaxPulses \in Nat /\ MaxMounts \in Nat /\ MaxCalls \in Nat

VARIABLES
    queue,      \* messages for the control thread
    state,      \* Expansion.state
    serial,     \* Expansion.serial_id
    control,    \* where the control thread is, and the message it handles
    worker,     \* the worker thread
    rxBuf,      \* the worker's rx_buf is allocated
    caller,     \* where each caller is, and the port it uses
    unlocked,   \* the callers whose api_lock the control thread has unlocked
    posting,    \* the thread of the storage is posting a card mount
    budget,     \* what the environment may still do
    crashed     \* a furi_check failed and the system is down

controlVars == <<state, serial, control>>
workerVars == <<worker, rxBuf>>
callerVars == <<caller, unlocked>>
environmentVars == <<posting, budget, crashed>>
vars == <<serialVars, queue, controlVars, workerVars, callerVars, environmentVars>>

Ports == Serials \union {None}
Message(type, s, c) == [type |-> type, id |-> s, who |-> c]
NoMessage == Message("none", None, None)

Messages ==
    [type : {"Enable", "Disable", "SetListenSerial", "ReloadSettings",
             "ModuleConnected", "ModuleDisconnected"},
     id : Ports, who : Callers \union {None}]

TypeOK ==
    /\ SerialTypeOK
    /\ queue \in Seq(Messages) /\ Len(queue) <= QueueSize
    /\ state \in {"Disabled", "Enabled", "Running"}
    /\ serial \in Serials
    /\ control \in [at : {"get", "loading", "dropping", "joining", "installing"},
                    msg : Messages \union {NoMessage}]
    /\ worker \in [at : {"none", "starting", "acquiring", "talking", "releasing",
                         "reporting", "ended"},
                   id : Ports, stop : BOOLEAN, why : {"Unknown", "User"}]
    /\ rxBuf \in BOOLEAN
    /\ caller \in [Callers ->
          [at : {"idle", "disabling", "disabled", "acquiring", "holding", "releasing",
                 "released", "calling", "logging"},
           id : Ports, calls : 0 .. MaxCalls]]
    /\ unlocked \subseteq Callers
    /\ posting \in BOOLEAN
    /\ budget \in [pulses : 0 .. MaxPulses, mounts : 0 .. MaxMounts]
    /\ crashed \in BOOLEAN

NoWorker == [at |-> "none", id |-> None, stop |-> FALSE, why |-> "Unknown"]

\* expansion_alloc leaves zeroes: Disabled, and some port.
Init ==
    /\ SerialInit
    /\ queue = <<>>
    /\ state = "Disabled"
    /\ serial \in Serials
    /\ control = [at |-> "get", msg |-> NoMessage]
    /\ worker = NoWorker
    /\ rxBuf = FALSE
    /\ caller = [c \in Callers |-> [at |-> "idle", id |-> None, calls |-> MaxCalls]]
    /\ unlocked = {}
    /\ posting = FALSE
    /\ budget = [pulses |-> MaxPulses, mounts |-> MaxMounts]
    /\ crashed = FALSE

----------------------------------------------------------------------------
(* The control thread.  A handler runs in steps, cut where it waits for    *)
(* the serial control thread or joins the worker.                          *)

Post(m) ==
    /\ Len(queue) < QueueSize
    /\ queue' = Append(queue, m)

ControlGoes(place, m) == control' = [at |-> place, msg |-> m]

Finish(m) ==
    /\ ControlGoes("get", NoMessage)
    /\ unlocked' = unlocked \union ({m.who} \ {None})
    /\ UNCHANGED serialQueue

\* Install the detection callback on a port.
Listen(s, m) ==
    /\ SerialPost("Listen", s, "control")
    /\ ControlGoes("installing", m)
    /\ UNCHANGED unlocked

\* Remove it from the port in use.
Drop(m) ==
    /\ SerialPost("Ignore", serial, "control")
    /\ ControlGoes("dropping", m)
    /\ UNCHANGED unlocked

Join(m) ==
    /\ ControlGoes("joining", m)
    /\ UNCHANGED <<serialQueue, unlocked>>

\* Fault: the new port is not stored.
ListenUnstored(s, m) ==
    /\ state' = "Enabled"
    /\ UNCHANGED serial
    /\ Listen(s, m)

ListenOn(s, m) ==
    /\ state' = "Enabled"
    /\ serial' = s
    /\ Listen(s, m)

\* Fault: the worker is joined without being asked to stop.
AwaitPresentUse(m) ==
    /\ IF state = "Running" THEN Join(m) ELSE Drop(m)
    /\ UNCHANGED <<state, serial, workerVars>>

\* A worker is asked to stop and joined; a mere detection is dropped.
EndPresentUse(m) ==
    /\ IF state = "Running"
       THEN worker' = [worker EXCEPT !.stop = TRUE] /\ Join(m)
       ELSE Drop(m) /\ UNCHANGED worker
    /\ UNCHANGED <<state, serial, rxBuf>>

Return(m) == Finish(m) /\ UNCHANGED <<state, serial, workerVars>>

\* expansion_settings_load asks the thread of the storage.
NeedsSettings(m) ==
    m.type = "ReloadSettings" \/ (m.type = "Enable" /\ state = "Disabled")

HandleEnable(m) ==
    /\ m.type = "Enable"
    /\ IF state # "Disabled" \/ m.id = None
       THEN Return(m)
       ELSE ListenOn(m.id, m) /\ UNCHANGED workerVars

HandleDisable(m) ==
    /\ m.type = "Disable"
    /\ IF state = "Disabled" THEN Return(m) ELSE EndPresentUse(m)

\* Fault: the callback of the previous port is left in place.
SetListenSerialOnTop(m) ==
    /\ m.type = "SetListenSerial"
    /\ \/ /\ state # "Disabled" /\ serial = m.id
          /\ Return(m)
       \/ /\ state = "Running" /\ serial # m.id
          /\ EndPresentUse(m)
       \/ /\ state = "Disabled" \/ (state = "Enabled" /\ serial # m.id)
          /\ ListenOn(m.id, m)
          /\ UNCHANGED workerVars

HandleSetListenSerial(m) ==
    /\ m.type = "SetListenSerial"
    /\ \/ /\ state # "Disabled" /\ serial = m.id
          /\ Return(m)
       \/ /\ state # "Disabled" /\ serial # m.id
          /\ EndPresentUse(m)
       \/ /\ state = "Disabled"
          /\ ListenOn(m.id, m)
          /\ UNCHANGED workerVars

HandleModuleConnected(m) ==
    /\ m.type = "ModuleConnected"
    /\ IF state # "Enabled"
       THEN Return(m)
       ELSE Drop(m) /\ UNCHANGED <<state, serial, workerVars>>

\* expansion_worker_free: the buffer goes first, then the thread is joined.
HandleModuleDisconnected(m) ==
    /\ m.type = "ModuleDisconnected"
    /\ IF state # "Running"
       THEN Return(m)
       ELSE /\ state' = "Enabled"
            /\ rxBuf' = FALSE
            /\ Join(m)
            /\ UNCHANGED <<serial, worker>>

Handle(m) ==
    \/ HandleEnable(m)
    \/ HandleDisable(m)
    \/ HandleSetListenSerial(m)
    \/ HandleModuleConnected(m)
    \/ HandleModuleDisconnected(m)

ControlGets ==
    /\ control.at = "get"
    /\ queue # <<>>
    /\ queue' = Tail(queue)
    /\ LET m == Head(queue) IN
          IF NeedsSettings(m)
          THEN /\ ControlGoes("loading", m)
               /\ UNCHANGED <<serialQueue, state, serial, workerVars, unlocked>>
          ELSE Handle(m)
    /\ UNCHANGED <<portVars, answer, caller, environmentVars>>

\* Fault: reload_settings takes "none" for a port.
ReloadUnchecked(m, s) ==
    Message(IF m.type = "Enable" THEN "Enable" ELSE "SetListenSerial", s, m.who)

\* The settings name a port or none; reload_settings then acts as one of two
\* other handlers.
Resolved(m, s) ==
    Message(IF m.type = "Enable" THEN "Enable"
            ELSE IF s = None THEN "Disable" ELSE "SetListenSerial", s, m.who)

ControlLoads ==
    /\ control.at = "loading"
    /\ ~posting
    /\ \E s \in Ports : Handle(Resolved(control.msg, s))
    /\ UNCHANGED <<portVars, answer, queue, caller, environmentVars>>

\* The present use is over: the rest of disable and of set_listen_serial.
UseEnded(m) ==
    \/ /\ m.type = "Disable"
       /\ state' = "Disabled"
       /\ Finish(m)
       /\ UNCHANGED serial
    \/ /\ m.type = "SetListenSerial"
       /\ ListenOn(m.id, m)

\* expansion_worker_alloc and expansion_worker_start.
StartWorker(m) ==
    /\ m.type = "ModuleConnected"
    /\ state' = "Running"
    /\ worker' = [NoWorker EXCEPT !.at = "starting", !.id = serial]
    /\ rxBuf' = TRUE
    /\ Finish(m)
    /\ UNCHANGED serial

ControlDropped ==
    /\ control.at = "dropping"
    /\ SerialReturns("control", "done")
    /\ \/ UseEnded(control.msg) /\ UNCHANGED workerVars
       \/ StartWorker(control.msg)
    /\ UNCHANGED <<portVars, queue, caller, environmentVars>>

\* Fault: detection is not resumed after a disconnection.
ControlJoinedDeaf ==
    /\ control.at = "joining"
    /\ worker.at = "ended"
    /\ worker' = NoWorker
    /\ rxBuf' = FALSE
    /\ \/ UseEnded(control.msg)
       \/ /\ control.msg.type = "ModuleDisconnected"
          /\ Finish(control.msg)
          /\ UNCHANGED <<state, serial>>
    /\ UNCHANGED <<portVars, answer, queue, caller, environmentVars>>

\* furi_thread_join returns, and the rest of the worker is freed.
ControlJoined ==
    /\ control.at = "joining"
    /\ worker.at = "ended"
    /\ worker' = NoWorker
    /\ rxBuf' = FALSE
    /\ \/ UseEnded(control.msg)
       \/ /\ control.msg.type = "ModuleDisconnected"
          /\ Listen(serial, control.msg)
          /\ UNCHANGED <<state, serial>>
    /\ UNCHANGED <<portVars, answer, queue, caller, environmentVars>>

ControlInstalled ==
    /\ control.at = "installing"
    /\ SerialReturns("control", "done")
    /\ Finish(control.msg)
    /\ UNCHANGED <<portVars, queue, state, serial, workerVars, caller, environmentVars>>

ControlStep == ControlGets \/ ControlLoads \/ ControlDropped \/ ControlJoined \/ ControlInstalled

----------------------------------------------------------------------------
(* The serial control thread.                                              *)

ServeCall ==
    /\ SerialServes
    /\ UNCHANGED <<queue, controlVars, workerVars, callerVars, environmentVars>>

FailCheck ==
    /\ serialQueue # <<>>
    /\ ~CallbackCheck(Head(serialQueue))
    /\ crashed' = TRUE
    /\ UNCHANGED <<serialVars, queue, controlVars, workerVars, callerVars, posting, budget>>

\* expansion_detect_callback does not wait for room.
Detect ==
    /\ SerialTakesIrq
    /\ queue' = IF listening # None /\ Len(queue) < QueueSize
                THEN Append(queue, Message("ModuleConnected", None, None))
                ELSE queue
    /\ UNCHANGED <<controlVars, workerVars, callerVars, environmentVars>>

Pulse(s) ==
    /\ budget.pulses > 0
    /\ PinFalls(s)
    /\ budget' = [budget EXCEPT !.pulses = @ - 1]
    /\ UNCHANGED <<queue, controlVars, workerVars, callerVars, posting, crashed>>

----------------------------------------------------------------------------
(* The worker thread.                                                      *)

WorkerGoes(from, to) ==
    /\ worker.at = from
    /\ worker' = [worker EXCEPT !.at = to]

WorkerOnly == UNCHANGED <<portVars, controlVars, rxBuf, callerVars, posting, budget>>

WorkerAcquires ==
    /\ WorkerGoes("starting", "acquiring")
    /\ SerialPost("Acquire", worker.id, "worker")
    /\ WorkerOnly /\ UNCHANGED <<answer, queue, crashed>>

\* furi_check(instance->serial_handle)
WorkerAcquired ==
    /\ worker.at = "acquiring"
    /\ \/ /\ SerialReturns("worker", "done")
          /\ WorkerGoes("acquiring", "talking")
          /\ UNCHANGED crashed
       \/ /\ SerialReturns("worker", "NULL")
          /\ crashed' = TRUE
          /\ UNCHANGED worker
    /\ WorkerOnly /\ UNCHANGED <<serialQueue, queue>>

WorkerReleases(why) ==
    /\ worker.at = "talking"
    /\ worker' = [worker EXCEPT !.at = "releasing", !.why = why]
    /\ SerialPost("Release", worker.id, "worker")
    /\ WorkerOnly /\ UNCHANGED <<answer, queue, crashed>>

\* The Stop flag is seen while the worker waits for data.
WorkerStops == worker.stop /\ WorkerReleases("User")

\* Timeout, error or a frame out of place, with the Stop flag set or not.
LinkBreaks == WorkerReleases("Unknown")

WorkerReleased ==
    /\ SerialReturns("worker", "done")
    /\ WorkerGoes("releasing", IF worker.why = "User" THEN "ended" ELSE "reporting")
    /\ WorkerOnly /\ UNCHANGED <<serialQueue, queue, crashed>>

WorkerReports ==
    /\ WorkerGoes("reporting", "ended")
    /\ Post(Message("ModuleDisconnected", None, None))
    /\ WorkerOnly /\ UNCHANGED <<serialQueue, answer, crashed>>

WorkerProceeds == WorkerAcquires \/ WorkerAcquired \/ WorkerReleased \/ WorkerReports

----------------------------------------------------------------------------
(* The callers.  An application that wants a serial port disables the      *)
(* expansion, acquires the port, releases it and enables the expansion,    *)
(* as expansion.h asks (gpio_app.c, js_serial.c); the settings choose a    *)
(* port or none (expansion_settings_app.c), logging takes one too.         *)

CallerGoes(c, from, to) ==
    /\ caller[c].at = from
    /\ caller' = [caller EXCEPT ![c].at = to]

CallerOnly == UNCHANGED <<portVars, controlVars, workerVars, environmentVars>>

Uses(c) == caller' = [caller EXCEPT ![c].calls = @ - 1, ![c].at = "calling", ![c].id = None]

CallEnable(c) ==
    /\ \/ caller[c].at = "idle" /\ c = Boot /\ caller[c].calls > 0 /\ Uses(c)
       \/ CallerGoes(c, "released", "calling")
    /\ Post(Message("Enable", None, c))
    /\ CallerOnly /\ UNCHANGED <<serialQueue, answer, unlocked>>

ChoosePort(c, s) ==
    /\ caller[c].at = "idle" /\ c # Boot /\ caller[c].calls > 0
    /\ Uses(c)
    /\ Post(IF s = None THEN Message("Disable", None, c) ELSE Message("SetListenSerial", s, c))
    /\ CallerOnly /\ UNCHANGED <<serialQueue, answer, unlocked>>

CallDisable(c, s) ==
    /\ caller[c].at = "idle" /\ c # Boot /\ caller[c].calls > 0
    /\ caller' = [caller EXCEPT ![c] = [at |-> "disabling", id |-> s, calls |-> @.calls - 1]]
    /\ Post(Message("Disable", None, c))
    /\ CallerOnly /\ UNCHANGED <<serialQueue, answer, unlocked>>

Returned(c) ==
    /\ c \in unlocked
    /\ unlocked' = unlocked \ {c}
    /\ \/ CallerGoes(c, "calling", "idle")
       \/ CallerGoes(c, "disabling", "disabled")
    /\ CallerOnly /\ UNCHANGED <<serialQueue, answer, queue>>

CallSerial(c) ==
    /\ \/ /\ CallerGoes(c, "disabled", "acquiring")
          /\ SerialPost("Acquire", caller[c].id, c)
       \/ /\ CallerGoes(c, "holding", "releasing")
          /\ SerialPost("Release", caller[c].id, c)
    /\ CallerOnly /\ UNCHANGED <<answer, unlocked, queue>>

\* The applications check the handle they get.
SerialAnswered(c) ==
    /\ \/ /\ SerialReturns(c, "done")
          /\ \/ CallerGoes(c, "acquiring", "holding")
             \/ CallerGoes(c, "releasing", "released")
             \/ CallerGoes(c, "logging", "idle")
          /\ UNCHANGED crashed
       \/ /\ SerialReturns(c, "NULL")
          /\ crashed' = TRUE
          /\ UNCHANGED caller
    /\ UNCHANGED <<portVars, serialQueue, queue, controlVars, workerVars, unlocked, posting, budget>>

SetLogging(c, s) ==
    /\ caller[c].at = "idle" /\ c # Boot /\ caller[c].calls > 0
    /\ caller' = [caller EXCEPT ![c].at = "logging", ![c].calls = @ - 1]
    /\ SerialPost("Logging", s, c)
    /\ CallerOnly /\ UNCHANGED <<answer, unlocked, queue>>

\* A card is mounted: expansion_storage_callback runs in the thread of the
\* storage, which serves nobody until there is room for its message.
CardMount ==
    /\ budget.mounts > 0
    /\ ~posting
    /\ posting' = TRUE
    /\ budget' = [budget EXCEPT !.mounts = @ - 1]
    /\ UNCHANGED <<serialVars, queue, controlVars, workerVars, callerVars, crashed>>

MountPosted ==
    /\ posting
    /\ posting' = FALSE
    /\ Post(Message("ReloadSettings", None, None))
    /\ UNCHANGED <<serialVars, controlVars, workerVars, callerVars, budget, crashed>>

CallerProceeds(c) ==
    CallEnable(c) \/ Returned(c) \/ CallSerial(c) \/ SerialAnswered(c)

----------------------------------------------------------------------------
Next ==
    /\ ~crashed
    /\ \/ ControlStep
       \/ ServeCall
       \/ FailCheck
       \/ Detect
       \/ WorkerProceeds
       \/ WorkerStops
       \/ LinkBreaks
       \/ CardMount
       \/ MountPosted
       \/ \E s \in Serials : Pulse(s)
       \/ \E c \in Callers :
             \/ CallerProceeds(c)
             \/ \E s \in Ports : ChoosePort(c, s) \/ SetLogging(c, s)
             \/ \E s \in Serials : CallDisable(c, s)

Spec == Init /\ [][Next]_vars

\* Every thread runs when it can: none of them is kept off the processor for
\* ever.  A worker that has the Stop flag set ends: it finds the flag when it
\* waits for data (expansion_worker.c:78-116), which it does in the end because
\* it reads the buffer faster than the port fills it.  Nothing is assumed of
\* the module: it may go on talking for ever.
Running(A) == ~crashed /\ A
Fairness ==
    /\ WF_vars(Running(ControlStep))
    /\ WF_vars(Running(ServeCall \/ Detect \/ FailCheck))
    /\ WF_vars(Running(MountPosted))
    /\ WF_vars(Running(WorkerProceeds))
    /\ WF_vars(Running(WorkerStops))
    /\ \A c \in Callers : WF_vars(Running(Returned(c) \/ SerialAnswered(c)))

FairSpec == Spec /\ Fairness

----------------------------------------------------------------------------
(* Properties.                                                             *)

\* What the control thread believes and what the serial control does agree
\* whenever it waits for a message: detection is installed on serial_id when
\* Enabled and nowhere otherwise, and a worker exists exactly when Running
\* (expansion.c:83-193, over furi_hal_serial_control.c:190).
StateAgrees ==
    control.at = "get" =>
        /\ listening = IF state = "Enabled" THEN serial ELSE None
        /\ worker.at # "none" <=> state = "Running"

\* The checks of the set-callback handler never fail, whatever the order of
\* messages (furi_hal_serial_control.c:199-204).
ChecksHold == serialQueue # <<>> => CallbackCheck(Head(serialQueue))

\* The log never writes to a port that somebody acquired, and comes back to
\* its port when the port is released (furi_hal_serial_control.c:121-188).
LogYieldsPort ==
    logSerial = IF logId # None /\ ~inUse[logId] THEN logId ELSE None

\* A port in use belongs to the one thread that acquired it and has not yet
\* given it back (furi_hal_serial_control.c:121-160).
HeldBy(s) ==
    {c \in Callers : caller[c].id = s /\ \/ caller[c].at = "holding"
                                         \/ caller[c].at = "acquiring" /\ answer[c] = "done"
                                         \/ caller[c].at = "releasing" /\ answer[c] # "done"}
        \union (IF worker.id = s /\ \/ worker.at = "talking"
                                    \/ worker.at = "acquiring" /\ answer["worker"] = "done"
                                    \/ worker.at = "releasing" /\ answer["worker"] # "done"
                THEN {"worker"} ELSE {})
OneHolder ==
    \A s \in Serials :
        /\ inUse[s] <=> HeldBy(s) # {}
        /\ \A c, d \in HeldBy(s) : c = d

\* The late report of a worker that is no more makes the control thread join the
\* worker that has taken its place, which nobody told to stop (expansion.c:185-190).
JoinsUnasked ==
    /\ control.at = "joining" /\ control.msg.type = "ModuleDisconnected"
    /\ ~worker.stop /\ worker.at \in {"starting", "acquiring", "talking"}

\* Every call of expansion.h returns (api_lock of expansion.c:274-310), also while a
\* module talks without end: the worker it keeps busy is told to stop.  The one
\* exception is that the control thread is left joining a worker nobody told to
\* stop, whose module keeps it busy for ever.
Waiting(c) == caller[c].at \in {"calling", "disabling"}
CallsReturn ==
    ~<>[]JoinsUnasked => \A c \in Callers : Waiting(c) ~> (~Waiting(c) \/ crashed)

\* A worker that ends by itself is replaced by detection: the control thread
\* listens again, unless it was told otherwise (expansion.c:181-193).
DetectsAgain ==
    worker.at = "reporting" ~> (listening # None \/ state = "Disabled" \/ crashed)

\* The serial callback and the worker use rx_buf until the port is released: the
\* buffer is there until then.  The worker "will not" report its end when it is
\* stopped (expansion_worker.h:72-73), so no message of an earlier worker frees it.
RxBufferLives ==
    worker.at \in {"starting", "acquiring", "talking", "releasing"} => rxBuf
=============================================================================
