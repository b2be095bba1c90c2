---------------------------- MODULE SerialControl ----------------------------
(***************************************************************************)
(* The serial control thread (targets/f7/furi_hal/                         *)
(* furi_hal_serial_control.c): the owner of the serial ports.  Threads     *)
(* acquire and release a port, configure logging and install the           *)
(* expansion callback by posting a message and waiting for the answer;     *)
(* the interrupt of a receive pin posts a message nobody waits for.        *)
(* Expansion.tla conjoins these operators with the steps of the threads    *)
(* that call them, and adds what the expansion callback does.              *)
(***************************************************************************)
EXTENDS Naturals, Sequences

CONSTANTS
    Serials,           \* the serial ports
    None,              \* no port
    Clients,           \* the threads that call the serial control
    SerialQueueSize    \* length of the queue of the serial control thread

ASSUME SerialAssumption ==
    /\ None \notin Serials
    /\ SerialQueueSize \in Nat \ {0}

VARIABLES
    inUse,          \* handles[s].in_use
    logId,          \* log_config_serial_id
    logSerial,      \* log_serial
    listening,      \* expansion_serial, with expansion_cb installed
    irqArmed,       \* the receive pin is an interrupt and the receiver is off
    serialQueue,    \* the messages the thread has not taken yet
    answer          \* what the api_lock of each caller brings back

portVars == <<inUse, logId, logSerial, listening, irqArmed>>
serialVars == <<portVars, serialQueue, answer>>

Answers == {"none", "done", "NULL"}

SerialMessages ==
    [type : {"Acquire", "Release", "Listen", "Ignore"}, id : Serials, who : Clients]
        \union [type : {"Logging"}, id : Serials \union {None}, who : Clients]
        \union [type : {"Irq"}]

SerialTypeOK ==
    /\ inUse \in [Serials -> BOOLEAN]
    /\ logId \in Serials \union {None}
    /\ logSerial \in Serials \union {None}
    /\ listening \in Serials \union {None}
    /\ irqArmed \in [Serials -> BOOLEAN]
    /\ serialQueue \in Seq(SerialMessages)
    /\ answer \in [Clients -> Answers]

SerialInit ==
    /\ inUse = [s \in Serials |-> FALSE]
    /\ logId = None
    /\ logSerial = None
    /\ listening = None
    /\ irqArmed = [s \in Serials |-> FALSE]
    /\ serialQueue = <<>>
    /\ answer = [c \in Clients |-> "none"]

----------------------------------------------------------------------------
(* What the callers do.  Every call posts its message, waiting for room,   *)
(* and waits for the answer.                                               *)

SerialPost(type, s, c) ==
    /\ Len(serialQueue) < SerialQueueSize
    /\ serialQueue' = Append(serialQueue, [type |-> type, id |-> s, who |-> c])

SerialReturns(c, result) ==
    /\ answer[c] = result
    /\ answer' = [answer EXCEPT ![c] = "none"]

----------------------------------------------------------------------------
(* The handlers.                                                           *)

\* furi_hal_serial_control_log_set_handle: detection is switched off around
\* the reconfiguration and is on again at its end, whatever it was before.
LogSetHandle(s) ==
    /\ logSerial' = s
    /\ irqArmed' = IF listening = None
                   THEN irqArmed
                   ELSE [irqArmed EXCEPT ![listening] = TRUE]

SwitchDetection(s, on) ==
    /\ irqArmed' = IF listening = s THEN [irqArmed EXCEPT ![s] = on] ELSE irqArmed
    /\ UNCHANGED logSerial

\* Fault: a port already in use is handed out again.
AcquireUnchecked(m) ==
    /\ m.type = "Acquire"
    /\ answer' = [answer EXCEPT ![m.who] = "done"]
    /\ inUse' = [inUse EXCEPT ![m.id] = TRUE]
    /\ IF logId = m.id THEN LogSetHandle(None) ELSE SwitchDetection(m.id, FALSE)
    /\ UNCHANGED <<logId, listening>>

HandleAcquire(m) ==
    /\ m.type = "Acquire"
    /\ IF inUse[m.id]
       THEN /\ answer' = [answer EXCEPT ![m.who] = "NULL"]
            /\ UNCHANGED <<inUse, logSerial, irqArmed>>
       ELSE /\ answer' = [answer EXCEPT ![m.who] = "done"]
            /\ inUse' = [inUse EXCEPT ![m.id] = TRUE]
            /\ IF logId = m.id THEN LogSetHandle(None) ELSE SwitchDetection(m.id, FALSE)
    /\ UNCHANGED <<logId, listening>>

HandleRelease(m) ==
    /\ m.type = "Release"
    /\ inUse' = [inUse EXCEPT ![m.id] = FALSE]
    /\ IF logId = m.id THEN LogSetHandle(m.id) ELSE SwitchDetection(m.id, TRUE)
    /\ answer' = [answer EXCEPT ![m.who] = "done"]
    /\ UNCHANGED <<logId, listening>>

\* Fault: a port in use is taken for the log.
LoggingOnBusyPort(m) ==
    /\ m.type = "Logging"
    /\ logId' = m.id
    /\ LogSetHandle(m.id)
    /\ answer' = [answer EXCEPT ![m.who] = "done"]
    /\ UNCHANGED <<inUse, listening>>

HandleLogging(m) ==
    /\ m.type = "Logging"
    /\ logId' = m.id
    /\ LogSetHandle(IF m.id # None /\ ~inUse[m.id] THEN m.id ELSE None)
    /\ answer' = [answer EXCEPT ![m.who] = "done"]
    /\ UNCHANGED <<inUse, listening>>

\* The furi_check of furi_hal_serial_control_handler_expansion_set_callback.
CallbackCheck(m) ==
    CASE m.type = "Listen" -> listening = None
      [] m.type = "Ignore" -> listening = m.id
      [] OTHER -> TRUE

HandleSetCallback(m) ==
    /\ m.type \in {"Listen", "Ignore"}
    /\ CallbackCheck(m)
    /\ listening' = IF m.type = "Listen" THEN m.id ELSE None
    /\ irqArmed' = [irqArmed EXCEPT ![m.id] = (m.type = "Listen")]
    /\ answer' = [answer EXCEPT ![m.who] = "done"]
    /\ UNCHANGED <<inUse, logId, logSerial>>

\* One turn of furi_hal_serial_control_thread for a message somebody waits for.
SerialServes ==
    /\ serialQueue # <<>>
    /\ LET m == Head(serialQueue) IN
           \/ HandleAcquire(m)
           \/ HandleRelease(m)
           \/ HandleLogging(m)
           \/ HandleSetCallback(m)
    /\ serialQueue' = Tail(serialQueue)

\* ... and for an interrupt: the caller adds the expansion callback.
SerialTakesIrq ==
    /\ serialQueue # <<>>
    /\ Head(serialQueue).type = "Irq"
    /\ serialQueue' = Tail(serialQueue)
    /\ UNCHANGED <<portVars, answer>>

\* A falling edge on a receive pin; without room the message is dropped.
PinFalls(s) ==
    /\ irqArmed[s]
    /\ Len(serialQueue) < SerialQueueSize
    /\ serialQueue' = Append(serialQueue, [type |-> "Irq"])
    /\ UNCHANGED <<portVars, answer>>

=============================================================================
