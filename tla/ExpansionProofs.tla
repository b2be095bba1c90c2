-------------------------- MODULE ExpansionProofs --------------------------
(***************************************************************************)
(* Proofs about Expansion and SerialControl, for any number of ports and   *)
(* callers, any queue sizes and any bound on what the environment does.    *)
(***************************************************************************)
EXTENDS Expansion, TLAPS

-----------------------------------------------------------------------------
(* Queues *)

\* What holds of all elements of a queue holds of its first and of the rest.
LEMMA QueueTail ==
    ASSUME NEW S, NEW q \in Seq(S), q # <<>>
    PROVE  /\ Head(q) = q[1] /\ Head(q) \in S
           /\ Tail(q) \in Seq(S) /\ Len(Tail(q)) = Len(q) - 1
           /\ 1 \in 1..Len(q)
           /\ \A i \in 1..Len(Tail(q)) : i + 1 \in 2..Len(q) /\ Tail(q)[i] = q[i + 1]
OBVIOUS

\* What holds of all elements of a queue and of a new one holds of all again.
LEMMA QueueAppend ==
    ASSUME NEW S, NEW q \in Seq(S), NEW m \in S
    PROVE  /\ Append(q, m) \in Seq(S) /\ Len(Append(q, m)) = Len(q) + 1
           /\ \A i \in 1..Len(Append(q, m)) :
                 \/ i \in 1..Len(q) /\ Append(q, m)[i] = q[i]
                 \/ i = Len(q) + 1 /\ Append(q, m)[i] = m
OBVIOUS

-----------------------------------------------------------------------------
(* Types *)

\* A request to listen on a port names one: reload_settings and the callers of
\* expansion_set_listen_serial see to that.  So does a worker, and a caller that is
\* about to use a port or uses one.
NamesPort(m) == m.type = "SetListenSerial" => m.id \in Serials
WorkerNamesPort == worker.at # "none" => worker.id \in Serials
CallerNamesPort ==
    \A c \in Callers :
        caller[c].at \in {"disabling", "disabled", "acquiring", "holding", "releasing"}
            => caller[c].id \in Serials
PortsNamed ==
    /\ \A i \in 1..Len(queue) : NamesPort(queue[i])
    /\ NamesPort(control.msg)
    /\ WorkerNamesPort
    /\ CallerNamesPort

\* The types, with what they need to be kept.
Typed == TypeOK /\ PortsNamed

\* The serial control is typed, and the control thread and the worker, which are no
\* callers, are threads that call it.
LEMMA SerialTyped ==
    ASSUME Typed
    PROVE  /\ SerialTypeOK
           /\ "control" \in Clients /\ "worker" \in Clients
           /\ Callers \subseteq Clients
           /\ "control" \notin Callers /\ "worker" \notin Callers
BY ExpansionAssumption DEF ExpansionAssumption, Typed, TypeOK

\* A call of the serial control keeps its queue typed.
LEMMA PostTyped ==
    ASSUME SerialTypeOK, NEW c \in Clients, NEW s,
           NEW type \in {"Acquire", "Release", "Listen", "Ignore", "Logging"},
           s \in Serials \/ (type = "Logging" /\ s = None),
           SerialPost(type, s, c)
    PROVE  serialQueue' \in Seq(SerialMessages)
<1>1. [type |-> type, id |-> s, who |-> c] \in SerialMessages
    BY DEF SerialMessages
<1> QED
    BY <1>1 DEF SerialPost, SerialTypeOK

\* The return of a call keeps the answers typed.
LEMMA ReturnTyped ==
    ASSUME SerialTypeOK, NEW c, NEW r, SerialReturns(c, r)
    PROVE  answer' \in [Clients -> Answers]
BY DEF SerialReturns, SerialTypeOK, Answers

\* Every handler of the serial control thread keeps the types.
LEMMA ServesTyped ==
    ASSUME SerialTypeOK, SerialServes
    PROVE  SerialTypeOK'
<1> DEFINE m == Head(serialQueue)
<1>1. m \in SerialMessages /\ serialQueue' \in Seq(SerialMessages)
    BY QueueTail DEF SerialTypeOK, SerialServes
<1>2. CASE HandleAcquire(m)
    BY <1>1, <1>2 DEF HandleAcquire, SerialTypeOK, SerialMessages, Answers, LogSetHandle, SwitchDetection
<1>3. CASE HandleRelease(m)
    BY <1>1, <1>3 DEF HandleRelease, SerialTypeOK, SerialMessages, Answers, LogSetHandle, SwitchDetection
<1>4. CASE HandleLogging(m)
    BY <1>1, <1>4 DEF HandleLogging, SerialTypeOK, SerialMessages, Answers, LogSetHandle
<1>5. CASE HandleSetCallback(m)
    BY <1>1, <1>5 DEF HandleSetCallback, SerialTypeOK, SerialMessages, Answers
<1> QED
    BY <1>2, <1>3, <1>4, <1>5 DEF SerialServes

\* What a handler of the control thread may change, with its types.
ControlTyped ==
    /\ control \in [at : {"get", "loading", "dropping", "joining", "installing"},
                    msg : Messages \union {NoMessage}]
    /\ NamesPort(control.msg)
    /\ serialQueue \in Seq(SerialMessages)
    /\ state \in {"Disabled", "Enabled", "Running"} /\ serial \in Serials
    /\ worker \in [at : {"none", "starting", "acquiring", "talking", "releasing",
                         "reporting", "ended"},
                   id : Ports, stop : BOOLEAN, why : {"Unknown", "User"}]
    /\ WorkerNamesPort
    /\ rxBuf \in BOOLEAN
    /\ unlocked \subseteq Callers

\* The end of a handler unlocks its caller and keeps the types.
LEMMA FinishTyped ==
    ASSUME Typed, NEW m \in Messages \union {NoMessage}, Finish(m)
    PROVE  /\ control' \in [at : {"get"}, msg : {NoMessage}]
           /\ NamesPort(control'.msg)
           /\ serialQueue' \in Seq(SerialMessages)
           /\ unlocked' \subseteq Callers
BY DEF Finish, ControlGoes, Typed, TypeOK, SerialTypeOK, Messages, NoMessage, Message, Ports,
       NamesPort

\* Each call of the serial control by the control thread keeps the types.
LEMMA WaitTyped ==
    ASSUME Typed, NEW m \in Messages \union {NoMessage}, NamesPort(m), NEW s \in Serials,
           Listen(s, m) \/ Drop(m) \/ Join(m)
    PROVE  /\ control' \in [at : {"dropping", "joining", "installing"},
                            msg : Messages \union {NoMessage}]
           /\ NamesPort(control'.msg)
           /\ serialQueue' \in Seq(SerialMessages)
           /\ unlocked' \subseteq Callers
<1> USE SerialTyped DEF ControlGoes, Typed, TypeOK
<1>1. CASE Listen(s, m)
    BY <1>1, PostTyped DEF Listen
<1>2. CASE Drop(m)
    BY <1>2, PostTyped DEF Drop
<1>3. CASE Join(m)
    BY <1>3 DEF Join, SerialTypeOK
<1> QED
    BY <1>1, <1>2, <1>3

\* A handler of the control thread keeps the types, up to where it waits.
LEMMA HandleTyped ==
    ASSUME Typed, NEW m \in Messages \union {NoMessage}, NamesPort(m), Handle(m)
    PROVE  ControlTyped'
<1> USE DEF ControlTyped, workerVars, PortsNamed, WorkerNamesPort
<1>1. Return(m) => ControlTyped'
    BY FinishTyped DEF Return, Typed, TypeOK
<1>2. ASSUME NEW s \in Serials, ListenOn(s, m), UNCHANGED workerVars
      PROVE  ControlTyped'
    BY <1>2, WaitTyped DEF ListenOn, Typed, TypeOK
<1>3. EndPresentUse(m) => ControlTyped'
    <2>1. ASSUME EndPresentUse(m)
          PROVE  /\ worker' \in [at : {"none", "starting", "acquiring", "talking", "releasing",
                                     "reporting", "ended"},
                                id : Ports, stop : BOOLEAN, why : {"Unknown", "User"}]
                 /\ WorkerNamesPort'
        BY <2>1 DEF EndPresentUse, Typed, TypeOK
    <2>2. ASSUME EndPresentUse(m)
          PROVE  Drop(m) \/ Join(m)
        BY <2>2 DEF EndPresentUse
    <2> QED
        BY <2>1, <2>2, WaitTyped DEF EndPresentUse, Typed, TypeOK
<1>4. CASE HandleEnable(m)
    <2>1. m.id \in Serials \/ m.id = None
        BY <1>4 DEF HandleEnable, Messages, Ports, NoMessage, Message
    <2> QED
        BY <1>4, <1>1, <1>2, <2>1 DEF HandleEnable
<1>5. CASE HandleDisable(m)
    BY <1>5, <1>1, <1>3 DEF HandleDisable
<1>6. CASE HandleSetListenSerial(m)
    BY <1>6, <1>1, <1>2, <1>3 DEF HandleSetListenSerial, NamesPort
<1>7. CASE HandleModuleConnected(m)
    BY <1>7, <1>1, WaitTyped DEF HandleModuleConnected, Typed, TypeOK
<1>8. CASE HandleModuleDisconnected(m)
    BY <1>8, <1>1, WaitTyped DEF HandleModuleDisconnected, Typed, TypeOK
<1> QED
    BY <1>4, <1>5, <1>6, <1>7, <1>8 DEF Handle

\* The settings resolve a message into one that names a port where it has to.
LEMMA ResolvedTyped ==
    ASSUME NEW m \in Messages \union {NoMessage}, NEW s \in Ports
    PROVE  Resolved(m, s) \in Messages /\ NamesPort(Resolved(m, s))
BY DEF Resolved, Messages, NoMessage, Message, Ports, NamesPort

\* A message posted to the control thread keeps its queue typed.
LEMMA QueueTyped ==
    ASSUME Typed, NEW m \in Messages, NamesPort(m), Post(m)
    PROVE  /\ queue' \in Seq(Messages) /\ Len(queue') <= QueueSize
           /\ \A i \in 1..Len(queue') : NamesPort(queue'[i])
<1>1. queue \in Seq(Messages) /\ queue' = Append(queue, m) /\ Len(queue) < QueueSize
    BY DEF Post, Typed, TypeOK
<1>2. QueueSize \in Nat
    BY ExpansionAssumption DEF ExpansionAssumption
<1> QED
    BY <1>1, <1>2, QueueAppend DEF Typed, PortsNamed

\* The system starts well typed (expansion_alloc).
LEMMA TypedInit == Init => Typed
<1> SUFFICES ASSUME Init PROVE Typed
    OBVIOUS
<1>1. SerialTypeOK
    BY DEF Init, SerialInit, SerialTypeOK, Answers
<1>2. /\ caller \in [Callers ->
            [at : {"idle", "disabling", "disabled", "acquiring", "holding", "releasing",
                   "released", "calling", "logging"},
             id : Ports, calls : 0 .. MaxCalls]]
      /\ budget \in [pulses : 0 .. MaxPulses, mounts : 0 .. MaxMounts]
      /\ QueueSize \in Nat
    BY ExpansionAssumption DEF ExpansionAssumption, Init, Ports
<1>3. /\ queue \in Seq(Messages) /\ Len(queue) <= QueueSize
      /\ \A i \in 1..Len(queue) : NamesPort(queue[i])
    BY <1>2, ExpansionAssumption DEF ExpansionAssumption, Init
<1>4. /\ control \in [at : {"get"}, msg : {NoMessage}] /\ NamesPort(control.msg)
      /\ WorkerNamesPort /\ CallerNamesPort
    BY DEF Init, NoMessage, Message, NoWorker, NamesPort, WorkerNamesPort, CallerNamesPort
<1>5. worker \in [at : {"none"}, id : Ports, stop : BOOLEAN, why : {"Unknown", "User"}]
    BY DEF Init, NoWorker, Ports
<1>6. rxBuf \in BOOLEAN /\ posting \in BOOLEAN /\ crashed \in BOOLEAN
    BY Zenon DEF Init
<1>7. state = "Disabled" /\ serial \in Serials /\ unlocked = {}
    BY DEF Init
<1> QED
    BY <1>1, <1>2, <1>3, <1>4, <1>5, <1>6, <1>7 DEF Typed, TypeOK, PortsNamed

\* Every step keeps the types.
LEMMA TypedStep == Typed /\ [Next]_vars => Typed'
<1> SUFFICES ASSUME Typed, [Next]_vars
             PROVE  Typed'
    OBVIOUS
<1> USE SerialTyped
<1> USE DEF serialVars, portVars, controlVars, workerVars, callerVars, environmentVars,
            WorkerNamesPort, CallerNamesPort
<1> DEFINE Places == {"idle", "disabling", "disabled", "acquiring", "holding", "releasing",
                      "released", "calling", "logging"}
           CallerTyped == /\ caller \in [Callers -> [at : Places, id : Ports, calls : 0 .. MaxCalls]]
                          /\ CallerNamesPort
           WorkerTyped == /\ worker \in [at : {"none", "starting", "acquiring", "talking",
                                           "releasing", "reporting", "ended"},
                                     id : Ports, stop : BOOLEAN, why : {"Unknown", "User"}]
                          /\ WorkerNamesPort
           QueuesTyped == /\ queue \in Seq(Messages) /\ Len(queue) <= QueueSize
                          /\ \A i \in 1..Len(queue) : NamesPort(queue[i])
<1>a. CallerTyped /\ WorkerTyped /\ QueuesTyped
    BY DEF Typed, TypeOK, PortsNamed
<1>1. CASE UNCHANGED vars
    BY <1>1 DEF vars, Typed, TypeOK, PortsNamed, SerialTypeOK
<1>2. CASE ControlGets
    <2>1. /\ Head(queue) \in Messages /\ NamesPort(Head(queue))
          /\ queue' \in Seq(Messages) /\ Len(queue') <= QueueSize
          /\ \A i \in 1..Len(queue') : NamesPort(queue'[i])
        BY <1>2, <1>a, QueueTail, ExpansionAssumption DEF ControlGets, ExpansionAssumption
    <2>2. ControlTyped'
        <3>1. CASE NeedsSettings(Head(queue))
            BY <1>2, <2>1, <3>1 DEF ControlGets, ControlTyped, ControlGoes, Typed, TypeOK,
                                   SerialTypeOK, PortsNamed
        <3>2. CASE ~NeedsSettings(Head(queue))
            BY <1>2, <2>1, <3>2, HandleTyped DEF ControlGets
        <3> QED
            BY <3>1, <3>2
    <2> QED
        BY <1>2, <2>1, <2>2 DEF ControlGets, ControlTyped, Typed, TypeOK, PortsNamed,
                                SerialTypeOK
<1>3. CASE ControlLoads
    <2>1. ControlTyped'
        BY <1>3, ResolvedTyped, HandleTyped DEF ControlLoads, Typed, TypeOK
    <2> QED
        BY <1>3, <2>1 DEF ControlLoads, ControlTyped, Typed, TypeOK, PortsNamed, SerialTypeOK
<1>4. ASSUME UseEnded(control.msg),
             UNCHANGED <<worker, rxBuf>> \/ (WorkerTyped' /\ rxBuf' \in BOOLEAN)
      PROVE  ControlTyped'
    <2>1. control.msg \in Messages \union {NoMessage} /\ NamesPort(control.msg)
        BY DEF Typed, TypeOK, PortsNamed
    <2> QED
        BY <1>4, <2>1, FinishTyped, WaitTyped
           DEF UseEnded, ListenOn, ControlTyped, Typed, TypeOK, NamesPort, PortsNamed
<1>5. CASE ControlDropped
    <2>1. answer' \in [Clients -> Answers]
        BY <1>5, ReturnTyped DEF ControlDropped
    <2>2. CASE UseEnded(control.msg) /\ UNCHANGED workerVars
        BY <1>4, <1>5, <2>1, <2>2
           DEF ControlDropped, ControlTyped, Typed, TypeOK, PortsNamed, SerialTypeOK
    <2>3. CASE StartWorker(control.msg)
        <3>1. ControlTyped'
            BY <2>3, FinishTyped DEF StartWorker, NoWorker, ControlTyped, Typed, TypeOK, Ports
        <3> QED
            BY <1>5, <2>1, <3>1
               DEF ControlDropped, ControlTyped, Typed, TypeOK, PortsNamed, SerialTypeOK
    <2> QED
        BY <1>5, <2>2, <2>3 DEF ControlDropped
<1>6. CASE ControlJoined
    <2>1. WorkerTyped' /\ rxBuf' \in BOOLEAN
        BY <1>6 DEF ControlJoined, NoWorker, Ports
    <2>2. ControlTyped'
        <3>1. CASE UseEnded(control.msg)
            BY <1>4, <2>1, <3>1
        <3>2. CASE Listen(serial, control.msg) /\ UNCHANGED <<state, serial>>
            BY <2>1, <3>2, WaitTyped DEF ControlTyped, Typed, TypeOK, PortsNamed
        <3> QED
            BY <1>6, <3>1, <3>2 DEF ControlJoined
    <2> QED
        BY <1>6, <2>2 DEF ControlJoined, ControlTyped, Typed, TypeOK, PortsNamed, SerialTypeOK
<1>7. CASE ControlInstalled
    <2>1. answer' \in [Clients -> Answers]
        BY <1>7, ReturnTyped DEF ControlInstalled
    <2>2. /\ control' \in [at : {"get"}, msg : {NoMessage}] /\ NamesPort(control'.msg)
          /\ serialQueue' \in Seq(SerialMessages) /\ unlocked' \subseteq Callers
        BY <1>7, FinishTyped DEF ControlInstalled, Typed, TypeOK
    <2>3. SerialTypeOK'
        BY <1>7, <2>1, <2>2 DEF ControlInstalled, portVars, Typed, TypeOK, SerialTypeOK
    <2>4. control' \in [at : {"get", "loading", "dropping", "joining", "installing"},
                        msg : Messages \union {NoMessage}]
        BY <2>2
    <2>5. UNCHANGED <<queue, state, serial, worker, rxBuf, caller, posting, budget, crashed>>
        BY <1>7 DEF ControlInstalled
    <2>6. TypeOK'
        BY <2>2, <2>3, <2>4, <2>5 DEF Typed, TypeOK
    <2>7. PortsNamed'
        BY <2>2, <2>5 DEF Typed, PortsNamed
    <2> QED
        BY <2>6, <2>7 DEF Typed
<1>8. CASE ServeCall
    BY <1>8, ServesTyped DEF ServeCall, Typed, TypeOK, PortsNamed
<1>9. CASE FailCheck
    BY <1>9 DEF FailCheck, Typed, TypeOK, PortsNamed, SerialTypeOK
<1>10. CASE Detect
    <2>1. serialQueue' \in Seq(SerialMessages)
        BY <1>10, QueueTail DEF Detect, SerialTakesIrq, SerialTypeOK
    <2>2. QueuesTyped'
        <3>1. CASE queue' = queue
            BY <1>a, <3>1
        <3>2. CASE queue' # queue
            <4>1. Post(Message("ModuleConnected", None, None))
                BY <1>10, <3>2 DEF Detect, Post
            <4>2. Message("ModuleConnected", None, None) \in Messages
                BY DEF Messages, Message, Ports
            <4> QED
                BY <4>1, <4>2, QueueTyped DEF NamesPort, Message
        <3> QED
            BY <3>1, <3>2
    <2> QED
        BY <1>10, <2>1, <2>2 DEF Detect, SerialTakesIrq, Typed, TypeOK, PortsNamed, SerialTypeOK
<1>11. ASSUME NEW s \in Serials, Pulse(s)
       PROVE  Typed'
    <2>1. serialQueue' \in Seq(SerialMessages)
        BY <1>11 DEF Pulse, PinFalls, SerialTypeOK, SerialMessages
    <2>2. budget.pulses - 1 \in 0 .. MaxPulses
        BY <1>11, ExpansionAssumption DEF Pulse, ExpansionAssumption, Typed, TypeOK
    <2>3. budget' \in [pulses : 0 .. MaxPulses, mounts : 0 .. MaxMounts]
        BY <1>11, <2>2 DEF Pulse, Typed, TypeOK
    <2> QED
        BY <1>11, <2>1, <2>3 DEF Pulse, PinFalls, Typed, TypeOK, PortsNamed, SerialTypeOK
<1>12. CASE WorkerAcquires
    <2>1. worker.id \in Serials
        BY <1>12, <1>a DEF WorkerAcquires, WorkerGoes
    <2> QED
        BY <1>12, <2>1, PostTyped DEF WorkerAcquires, WorkerGoes, WorkerOnly, Typed, TypeOK,
                                      PortsNamed, SerialTypeOK
<1>13. CASE WorkerAcquired
    <2>1. answer' \in [Clients -> Answers] /\ crashed' \in BOOLEAN
        BY <1>13, ReturnTyped DEF WorkerAcquired, Typed, TypeOK
    <2>2. WorkerTyped'
        BY <1>13, <1>a DEF WorkerAcquired, WorkerGoes
    <2> QED
        BY <1>13, <2>1, <2>2 DEF WorkerAcquired, WorkerOnly, Typed, TypeOK, PortsNamed,
                                 SerialTypeOK
<1>14. ASSUME NEW why \in {"Unknown", "User"}, WorkerReleases(why)
       PROVE  Typed'
    <2>1. worker.id \in Serials
        BY <1>14, <1>a DEF WorkerReleases
    <2>2. WorkerTyped'
        BY <1>14, <1>a DEF WorkerReleases
    <2> QED
        BY <1>14, <2>1, <2>2, PostTyped DEF WorkerReleases, WorkerOnly, Typed, TypeOK,
                                            PortsNamed, SerialTypeOK
<1>15. CASE WorkerReleased
    <2>1. answer' \in [Clients -> Answers]
        BY <1>15, ReturnTyped DEF WorkerReleased
    <2>2. WorkerTyped'
        BY <1>15, <1>a DEF WorkerReleased, WorkerGoes
    <2> QED
        BY <1>15, <2>1, <2>2 DEF WorkerReleased, WorkerOnly, Typed, TypeOK, PortsNamed,
                                 SerialTypeOK
<1>16. CASE WorkerReports
    <2>1. Message("ModuleDisconnected", None, None) \in Messages
        BY DEF Messages, Message, Ports
    <2>2. QueuesTyped'
        BY <1>16, <2>1, QueueTyped DEF WorkerReports, NamesPort, Message
    <2>3. WorkerTyped'
        BY <1>16, <1>a DEF WorkerReports, WorkerGoes
    <2> QED
        BY <1>16, <2>2, <2>3 DEF WorkerReports, WorkerOnly, Typed, TypeOK, PortsNamed,
                                 SerialTypeOK
<1>17. ASSUME NEW c \in Callers, Uses(c), caller[c].calls > 0
       PROVE  CallerTyped'
    <2>1. caller[c].calls - 1 \in 0 .. MaxCalls
        BY <1>17, <1>a, ExpansionAssumption DEF ExpansionAssumption
    <2>2. caller'[c].at = "calling" /\ caller'[c] \in [at : Places, id : Ports, calls : 0 .. MaxCalls]
        <3> DEFINE place == [caller[c] EXCEPT !.calls = @ - 1, !.at = "calling", !.id = None]
        <3>1. caller[c] \in [at : Places, id : Ports, calls : 0 .. MaxCalls]
            BY <1>17, <1>a
        <3>2. place \in [at : Places, id : Ports, calls : 0 .. MaxCalls] /\ place.at = "calling"
            BY <2>1, <3>1 DEF Ports
        <3>3. caller'[c] = place
            BY <1>17, <1>a DEF Uses
        <3> QED
            BY <3>2, <3>3
    <2>3. \A d \in Callers : d # c => caller'[d] = caller[d]
        BY <1>17, <1>a DEF Uses
    <2>4. caller' \in [Callers -> [at : Places, id : Ports, calls : 0 .. MaxCalls]]
        BY <1>17, <1>a, <2>2, <2>3 DEF Uses
    <2> QED
        BY <1>a, <2>2, <2>3, <2>4
<1>18. ASSUME NEW c \in Callers, NEW from, NEW to \in Places, CallerGoes(c, from, to),
              to \in {"disabling", "disabled", "acquiring", "holding", "releasing"}
                 => from \in {"disabling", "disabled", "acquiring", "holding", "releasing"}
       PROVE  CallerTyped'
    BY <1>18, <1>a DEF CallerGoes
<1>19. ASSUME NEW c \in Callers, CallEnable(c)
       PROVE  Typed'
    <2>1. CallerTyped'
        BY <1>17, <1>18, <1>19 DEF CallEnable
    <2>2. Message("Enable", None, c) \in Messages
        BY DEF Messages, Message, Ports
    <2>3. QueuesTyped'
        BY <1>19, <2>2, QueueTyped DEF CallEnable, NamesPort, Message
    <2> QED
        BY <1>19, <2>1, <2>3 DEF CallEnable, CallerOnly, Typed, TypeOK, PortsNamed,
                                 SerialTypeOK
<1>20. ASSUME NEW c \in Callers, NEW s \in Ports, ChoosePort(c, s)
       PROVE  Typed'
    <2>1. CallerTyped'
        BY <1>17, <1>20 DEF ChoosePort
    <2>2. /\ Message("Disable", None, c) \in Messages
          /\ s # None => Message("SetListenSerial", s, c) \in Messages /\ s \in Serials
        BY DEF Messages, Message, Ports
    <2>3. QueuesTyped'
        BY <1>20, <2>2, QueueTyped DEF ChoosePort, NamesPort, Message
    <2> QED
        BY <1>20, <2>1, <2>3 DEF ChoosePort, CallerOnly, Typed, TypeOK, PortsNamed,
                                 SerialTypeOK
<1>21. ASSUME NEW c \in Callers, NEW s \in Serials, CallDisable(c, s)
       PROVE  Typed'
    <2>1. caller[c].calls - 1 \in 0 .. MaxCalls
        BY <1>21, <1>a, ExpansionAssumption DEF CallDisable, ExpansionAssumption
    <2>2. CallerTyped'
        BY <1>21, <1>a, <2>1 DEF CallDisable, Ports
    <2>3. Message("Disable", None, c) \in Messages
        BY DEF Messages, Message, Ports
    <2>4. QueuesTyped'
        BY <1>21, <2>3, QueueTyped DEF CallDisable, NamesPort, Message
    <2> QED
        BY <1>21, <2>2, <2>4 DEF CallDisable, CallerOnly, Typed, TypeOK, PortsNamed,
                                 SerialTypeOK
<1>22. ASSUME NEW c \in Callers, Returned(c)
       PROVE  Typed'
    <2>1. CallerTyped'
        BY <1>18, <1>22 DEF Returned
    <2> QED
        BY <1>22, <2>1 DEF Returned, CallerOnly, Typed, TypeOK, PortsNamed, SerialTypeOK
<1>23. ASSUME NEW c \in Callers, CallSerial(c)
       PROVE  Typed'
    <2>1. CallerTyped'
        BY <1>18, <1>23 DEF CallSerial
    <2>2. caller[c].id \in Serials
        BY <1>23, <1>a DEF CallSerial, CallerGoes
    <2>3. serialQueue' \in Seq(SerialMessages)
        BY <1>23, <2>2, PostTyped DEF CallSerial
    <2> QED
        BY <1>23, <2>1, <2>3 DEF CallSerial, CallerOnly, Typed, TypeOK, PortsNamed, SerialTypeOK
<1>24. ASSUME NEW c \in Callers, SerialAnswered(c)
       PROVE  Typed'
    <2>1. CallerTyped'
        BY <1>18, <1>24, <1>a DEF SerialAnswered
    <2>2. answer' \in [Clients -> Answers] /\ crashed' \in BOOLEAN
        BY <1>24, ReturnTyped DEF SerialAnswered, Typed, TypeOK
    <2> QED
        BY <1>24, <2>1, <2>2 DEF SerialAnswered, Typed, TypeOK, PortsNamed, SerialTypeOK
<1>25. ASSUME NEW c \in Callers, NEW s \in Ports, SetLogging(c, s)
       PROVE  Typed'
    <2>1. caller[c].calls - 1 \in 0 .. MaxCalls
        BY <1>25, <1>a, ExpansionAssumption DEF SetLogging, ExpansionAssumption
    <2>2. CallerTyped'
        BY <1>25, <1>a, <2>1 DEF SetLogging
    <2>3. serialQueue' \in Seq(SerialMessages)
        BY <1>25, PostTyped DEF SetLogging, Ports
    <2> QED
        BY <1>25, <2>2, <2>3 DEF SetLogging, CallerOnly, Typed, TypeOK, PortsNamed, SerialTypeOK
<1>26. CASE CardMount
    <2>1. budget.mounts - 1 \in 0 .. MaxMounts
        BY <1>26, ExpansionAssumption DEF CardMount, ExpansionAssumption, Typed, TypeOK
    <2>2. budget' \in [pulses : 0 .. MaxPulses, mounts : 0 .. MaxMounts]
        BY <1>26, <2>1 DEF CardMount, Typed, TypeOK
    <2> QED
        BY <1>26, <2>2 DEF CardMount, Typed, TypeOK, PortsNamed, SerialTypeOK
<1>27. CASE MountPosted
    <2>1. Message("ReloadSettings", None, None) \in Messages
        BY DEF Messages, Message, Ports
    <2>2. QueuesTyped'
        BY <1>27, <2>1, QueueTyped DEF MountPosted, NamesPort, Message
    <2>3. posting' \in BOOLEAN /\ budget' = budget
        BY <1>27 DEF MountPosted
    <2>4. SerialTypeOK' /\ CallerTyped' /\ WorkerTyped'
        BY <1>27, <1>a DEF MountPosted, SerialTypeOK
    <2> QED
        BY <1>27, <2>2, <2>3, <2>4 DEF MountPosted, Typed, TypeOK, PortsNamed
<1> QED
    BY <1>1, <1>2, <1>3, <1>5, <1>6, <1>7, <1>8, <1>9, <1>10, <1>11, <1>12, <1>13, <1>14,
       <1>15, <1>16, <1>19, <1>20, <1>21, <1>22, <1>23, <1>24, <1>25, <1>26, <1>27
       DEF Next, ControlStep, WorkerProceeds, WorkerStops, LinkBreaks, CallerProceeds

-----------------------------------------------------------------------------
(* Calls of the serial control *)

\* Who is inside a call of the serial control.
Waits(c) ==
    \/ c = "control" /\ control.at \in {"dropping", "installing"}
    \/ c = "worker" /\ worker.at \in {"acquiring", "releasing"}
    \/ c \in Callers /\ caller[c].at \in {"acquiring", "releasing", "logging"}

\* The message is the one its sender is waiting for.
Asks(m) ==
    \/ /\ m.who = "control" /\ m.id = serial
       /\ \/ m.type = "Listen" /\ control.at = "installing"
          \/ m.type = "Ignore" /\ control.at = "dropping"
    \/ /\ m.who = "worker" /\ m.id = worker.id
       /\ \/ m.type = "Acquire" /\ worker.at = "acquiring"
          \/ m.type = "Release" /\ worker.at = "releasing"
    \/ /\ m.who \in Callers
       /\ \/ m.type = "Acquire" /\ caller[m.who].at = "acquiring" /\ m.id = caller[m.who].id
          \/ m.type = "Release" /\ caller[m.who].at = "releasing" /\ m.id = caller[m.who].id
          \/ m.type = "Logging" /\ caller[m.who].at = "logging"

\* Every message but an interrupt belongs to a call that has no answer yet, a thread has
\* one call at a time, and an answer belongs to a thread inside a call.
Called(i) == i \in 1..Len(serialQueue) /\ serialQueue[i].type # "Irq"
Calls ==
    /\ \A i \in 1..Len(serialQueue) :
          Called(i) => Asks(serialQueue[i]) /\ answer[serialQueue[i].who] = "none"
    /\ \A i, j \in 1..Len(serialQueue) :
          Called(i) /\ Called(j) /\ serialQueue[i].who = serialQueue[j].who => i = j
    /\ \A c \in Clients : answer[c] # "none" => Waits(c)

\* What the place of the control thread says of the detection callback and the worker.
ControlInv ==
    /\ control.at \in {"get", "loading"} =>
          /\ listening = IF state = "Enabled" THEN serial ELSE None
          /\ worker.at # "none" <=> state = "Running"
    /\ control.at = "dropping" =>
          /\ state = "Enabled" /\ worker.at = "none"
          /\ listening = IF answer["control"] = "none" THEN serial ELSE None
    /\ control.at = "joining" =>
          /\ listening = None /\ worker.at # "none"
          /\ state = IF control.msg.type = "ModuleDisconnected" THEN "Enabled" ELSE "Running"
    /\ control.at = "installing" =>
          /\ state = "Enabled" /\ worker.at = "none"
          /\ listening = IF answer["control"] = "none" THEN None ELSE serial

\* No message of the thread is in the queue.
NothingAsked(c) == \A i \in 1..Len(serialQueue) : Called(i) => serialQueue[i].who # c

\* A message stands in the queue only while its sender waits, so a thread outside a
\* call has none there, and no answer is kept for it.
LEMMA NoCall ==
    ASSUME Typed, Calls, NEW c \in Clients, ~Waits(c)
    PROVE  answer[c] = "none" /\ NothingAsked(c)
BY DEF Calls, Asks, Waits, NothingAsked

\* A thread that ends a call has no message left in the queue.
LEMMA CallEnds ==
    ASSUME Typed, Calls, NEW c \in Clients, NEW r, r # "none", SerialReturns(c, r)
    PROVE  /\ Waits(c) /\ NothingAsked(c)
           /\ answer'[c] = "none" /\ \A d \in Clients \ {c} : answer'[d] = answer[d]
BY SerialTyped DEF Calls, SerialReturns, SerialTypeOK, NothingAsked

\* A step of one thread keeps the calls in order, if it leaves the other threads and
\* their answers alone, and if the thread has no message in the queue but one it may
\* post now.
LEMMA OneThreadSteps ==
    ASSUME Typed, Calls, NEW c \in Clients, NothingAsked(c),
           \A d \in Clients \ {c} : answer'[d] = answer[d],
           answer'[c] = "none",
           \A d \in Clients \ {c} : Waits(d) => Waits(d)',
           \A m \in SerialMessages : m.type # "Irq" /\ m.who # c /\ Asks(m) => Asks(m)',
           \/ UNCHANGED serialQueue
           \/ \E type, s : /\ SerialPost(type, s, c)
                           /\ Asks([type |-> type, id |-> s, who |-> c])'
    PROVE  Calls'
<1> USE DEF NothingAsked
<1>1. serialQueue \in Seq(SerialMessages)
    BY SerialTyped DEF SerialTypeOK
<1>2. \A i \in 1..Len(serialQueue) : Called(i) => serialQueue[i].who \in Clients
    BY <1>1 DEF Called, SerialMessages
<1>3. CASE UNCHANGED serialQueue
    BY <1>1, <1>2, <1>3 DEF Calls, Called
<1>4. ASSUME NEW type, NEW s, SerialPost(type, s, c),
             Asks([type |-> type, id |-> s, who |-> c])'
      PROVE  Calls'
    <2> DEFINE new == [type |-> type, id |-> s, who |-> c]
    <2>1. serialQueue' = Append(serialQueue, new)
        BY <1>4 DEF SerialPost
    <2>2. serialQueue \in Seq(SerialMessages \union {new})
        BY <1>1
    <2>3. Len(serialQueue') = Len(serialQueue) + 1 /\ Len(serialQueue) \in Nat
        BY <2>1, <2>2
    <2>4. \A i \in 1..Len(serialQueue') :
             \/ i \in 1..Len(serialQueue) /\ serialQueue'[i] = serialQueue[i]
             \/ i = Len(serialQueue) + 1 /\ serialQueue'[i] = new
        BY <2>1, <2>2, QueueAppend
    <2>5. \A i \in 1..Len(serialQueue) : serialQueue[i] \in SerialMessages
        BY <1>1
    <2> QED
        BY <1>2, <1>4, <2>3, <2>4, <2>5 DEF Calls, Called
<1> QED
    BY <1>3, <1>4

\* A handler of the serial control thread answers the first message, and no other.
LEMMA Serving ==
    ASSUME Typed, Calls, SerialServes
    PROVE  /\ Head(serialQueue) = serialQueue[1] /\ Head(serialQueue) \in SerialMessages
           /\ Called(1) /\ Head(serialQueue).who \in Clients
           /\ Asks(Head(serialQueue)) /\ answer[Head(serialQueue).who] = "none"
           /\ \E r \in {"done", "NULL"} :
                 answer' = [answer EXCEPT ![Head(serialQueue).who] = r]
<1>1. serialQueue \in Seq(SerialMessages) /\ serialQueue # <<>>
    BY SerialTyped DEF SerialTypeOK, SerialServes
<1>2. /\ Head(serialQueue) = serialQueue[1] /\ Head(serialQueue) \in SerialMessages
      /\ 1 \in 1..Len(serialQueue)
    BY <1>1, QueueTail
<1>3. Head(serialQueue).type # "Irq"
    BY DEF SerialServes, HandleAcquire, HandleRelease, HandleLogging, HandleSetCallback
<1>4. Called(1) /\ Head(serialQueue).who \in Clients
    BY <1>2, <1>3 DEF Called, SerialMessages
<1>5. Asks(Head(serialQueue)) /\ answer[Head(serialQueue).who] = "none"
    BY <1>2, <1>4 DEF Calls
<1>6. \E r \in {"done", "NULL"} : answer' = [answer EXCEPT ![Head(serialQueue).who] = r]
    BY DEF SerialServes, HandleAcquire, HandleRelease, HandleLogging, HandleSetCallback
<1> QED
    BY <1>2, <1>4, <1>5, <1>6

\* An answered message leaves the calls in order.
LEMMA CallServed ==
    ASSUME Typed, Calls, ServeCall
    PROVE  Calls'
<1>1. serialQueue \in Seq(SerialMessages) /\ serialQueue # <<>> /\ SerialServes
    BY SerialTyped DEF SerialTypeOK, ServeCall, SerialServes
<1>2. serialQueue' = Tail(serialQueue)
    BY <1>1 DEF SerialServes
<1>3. /\ Len(serialQueue') = Len(serialQueue) - 1
      /\ \A i \in 1..Len(serialQueue') :
            /\ i + 1 \in 2..Len(serialQueue) /\ serialQueue'[i] = serialQueue[i + 1]
            /\ serialQueue[i + 1] \in SerialMessages
    BY <1>1, <1>2, QueueTail
<1> DEFINE w == Head(serialQueue).who
<1>4. /\ w \in Clients /\ Called(1) /\ serialQueue[1].who = w /\ Waits(w)
      /\ \A d \in Clients \ {w} : answer'[d] = answer[d]
    BY <1>1, Serving, SerialTyped DEF SerialTypeOK, Asks, Waits
<1>5. /\ \A c : Waits(c)' <=> Waits(c)
      /\ \A m : Asks(m)' <=> Asks(m)
    BY DEF ServeCall, Waits, Asks, controlVars, workerVars, callerVars
<1>6. \A i \in 1..Len(serialQueue') : Called(i)' => Called(i + 1)
    BY <1>1, <1>3 DEF Called
<1>7. \A i \in 1..Len(serialQueue') :
         Called(i)' => serialQueue'[i].who # w /\ serialQueue'[i].who \in Clients
    BY <1>1, <1>3, <1>4, <1>6 DEF Calls, Called, SerialMessages
<1>8. \A i \in 1..Len(serialQueue') :
         Called(i)' => Asks(serialQueue[i])' /\ answer'[serialQueue'[i].who] = "none"
    <2>1. UNCHANGED <<serial, control, worker, caller>>
        BY DEF ServeCall, controlVars, workerVars, callerVars
    <2>2. ASSUME NEW i \in 1..Len(serialQueue'), Called(i)'
          PROVE  Asks(serialQueue[i + 1]) /\ answer[serialQueue[i + 1].who] = "none"
        BY <1>1, <1>3, <1>6, <2>2 DEF Calls
    <2> QED
        BY <1>3, <1>4, <1>7, <2>1, <2>2 DEF Asks
<1>9. \A i, j \in 1..Len(serialQueue') :
         Called(i)' /\ Called(j)' /\ serialQueue'[i].who = serialQueue'[j].who => i = j
    BY <1>1, <1>3, <1>6 DEF Calls
<1>10. \A c \in Clients : answer'[c] # "none" => Waits(c)'
    BY <1>4, <1>5 DEF Calls
<1> QED
    BY <1>8, <1>9, <1>10 DEF Calls

\* An interrupt does not disturb the calls, whether it is posted or taken.
LEMMA InterruptCalls ==
    ASSUME Typed, Calls, UNCHANGED <<answer, controlVars, workerVars, callerVars>>,
           SerialTakesIrq \/ \E s \in Serials : PinFalls(s)
    PROVE  Calls'
<1>1. serialQueue \in Seq(SerialMessages)
    BY SerialTyped DEF SerialTypeOK
<1>2. /\ \A c : Waits(c)' <=> Waits(c)
      /\ \A m : Asks(m)' <=> Asks(m)
    BY DEF Waits, Asks, controlVars, workerVars, callerVars
<1>3. CASE SerialTakesIrq
    <2>1. serialQueue' = Tail(serialQueue) /\ serialQueue # <<>>
        BY <1>3 DEF SerialTakesIrq
    <2>2. \A i \in 1..Len(serialQueue') :
             i + 1 \in 1..Len(serialQueue) /\ serialQueue'[i] = serialQueue[i + 1]
        BY <1>1, <2>1, QueueTail
    <2>3. \A i \in 1..Len(serialQueue') : Called(i)' => Called(i + 1)
        BY <1>1, <2>2 DEF Called
    <2> QED
        BY <1>1, <1>2, <2>2, <2>3 DEF Calls
<1>4. ASSUME NEW s \in Serials, PinFalls(s)
      PROVE  Calls'
    <2>1. serialQueue' = Append(serialQueue, [type |-> "Irq"])
        BY <1>4 DEF PinFalls
    <2>2. [type |-> "Irq"] \in SerialMessages
        BY DEF SerialMessages
    <2>3. \A i \in 1..Len(serialQueue') :
             Called(i)' => Called(i) /\ serialQueue'[i] = serialQueue[i]
        BY <1>1, <2>1, <2>2, QueueAppend DEF Called
    <2> QED
        BY <1>2, <2>3 DEF Calls, Called
<1> QED
    BY <1>3, <1>4

\* A handler of the control thread returns, begins to listen, drops the detection that
\* is installed, or stops the worker that runs.
LEMMA HandleOutcome ==
    ASSUME Typed, NEW m \in Messages \union {NoMessage}, NamesPort(m), Handle(m)
    PROVE  \/ control'.at = "get" /\ UNCHANGED <<serialQueue, state, serial, worker>>
           \/ /\ state = "Disabled" /\ state' = "Enabled" /\ control'.at = "installing"
              /\ SerialPost("Listen", serial', "control") /\ UNCHANGED worker
           \/ /\ state = "Enabled" /\ control'.at = "dropping"
              /\ SerialPost("Ignore", serial, "control") /\ UNCHANGED <<state, serial, worker>>
           \/ /\ state = "Running" /\ control' = [at |-> "joining", msg |-> m]
              /\ state' = IF m.type = "ModuleDisconnected" THEN "Enabled" ELSE "Running"
              /\ UNCHANGED <<serialQueue, serial>>
              /\ worker' \in {worker, [worker EXCEPT !.stop = TRUE]}
<1> USE DEF ControlGoes, Finish, Join, Drop, Listen, ListenOn, Return, workerVars
<1>1. state \in {"Disabled", "Enabled", "Running"}
    BY DEF Typed, TypeOK
<1>2. CASE HandleEnable(m)
    BY <1>1, <1>2 DEF HandleEnable
<1>3. CASE HandleDisable(m)
    BY <1>1, <1>3 DEF HandleDisable, EndPresentUse
<1>4. CASE HandleSetListenSerial(m)
    BY <1>1, <1>4 DEF HandleSetListenSerial, EndPresentUse
<1>5. CASE HandleModuleConnected(m)
    BY <1>1, <1>5 DEF HandleModuleConnected
<1>6. CASE HandleModuleDisconnected(m)
    BY <1>1, <1>6 DEF HandleModuleDisconnected
<1> QED
    BY <1>2, <1>3, <1>4, <1>5, <1>6 DEF Handle

\* The control thread takes a message, or has the settings for the one it took.
LEMMA ControlHandles ==
    ASSUME Typed, (ControlGets /\ ~NeedsSettings(Head(queue))) \/ ControlLoads
    PROVE  /\ control.at \in {"get", "loading"}
           /\ UNCHANGED <<portVars, answer, caller>>
           /\ \E m \in Messages : NamesPort(m) /\ Handle(m)
<1>1. CASE ControlGets /\ ~NeedsSettings(Head(queue))
    BY <1>1, QueueTail DEF ControlGets, Typed, TypeOK, PortsNamed
<1>2. CASE ControlLoads
    <2>1. control.msg \in Messages \union {NoMessage}
        BY DEF Typed, TypeOK
    <2> QED
        BY <1>2, <2>1, ResolvedTyped DEF ControlLoads
<1> QED
    BY <1>1, <1>2

\* Every step keeps the calls in order.
LEMMA CallsStep == Typed /\ Calls /\ ControlInv /\ [Next]_vars => Calls'
<1> SUFFICES ASSUME Typed, Calls, ControlInv, [Next]_vars
             PROVE  Calls'
    OBVIOUS
<1> USE SerialTyped
<1> USE DEF serialVars, portVars, controlVars, workerVars, callerVars, environmentVars
<1>a. serialQueue \in Seq(SerialMessages) /\ answer \in [Clients -> Answers]
    BY DEF SerialTypeOK
<1>b. /\ control.at \in {"get", "loading", "dropping", "joining", "installing"}
      /\ \A c \in Callers : c \in Clients
    BY DEF Typed, TypeOK
<1>c. ASSUME UNCHANGED <<serialQueue, answer, serial>>,
             \A c \in Clients : Waits(c) => Waits(c)',
             \A m \in SerialMessages : m.type # "Irq" /\ Asks(m) => Asks(m)'
      PROVE  Calls'
    BY <1>c, <1>a DEF Calls, Called
<1>1. CASE UNCHANGED vars
    BY <1>1, <1>c DEF vars, Waits, Asks
<1>2. CASE ControlGets /\ NeedsSettings(Head(queue))
    BY <1>2, <1>c DEF ControlGets, ControlGoes, Waits, Asks
<1>3. CASE (ControlGets /\ ~NeedsSettings(Head(queue))) \/ ControlLoads
    <2>1. /\ ~Waits("control") /\ UNCHANGED <<answer, caller>>
          /\ \E m \in Messages : NamesPort(m) /\ Handle(m)
        BY <1>3, ControlHandles DEF Waits
    <2>2. answer'["control"] = "none" /\ NothingAsked("control")
        BY <2>1, NoCall
    <2>3. worker'.at = worker.at /\ worker'.id = worker.id
        BY <2>1, HandleOutcome DEF Typed, TypeOK
    <2>4. /\ \A d \in Clients \ {"control"} : Waits(d) => Waits(d)'
          /\ \A m \in SerialMessages : m.type # "Irq" /\ m.who # "control" /\ Asks(m) => Asks(m)'
        BY <2>1, <2>3 DEF Waits, Asks
    <2>5. \/ UNCHANGED serialQueue
          \/ SerialPost("Listen", serial', "control") /\ control'.at = "installing"
          \/ SerialPost("Ignore", serial', "control") /\ control'.at = "dropping"
        BY <2>1, HandleOutcome
    <2>6. CASE UNCHANGED serialQueue
        BY <2>1, <2>2, <2>4, <2>6, OneThreadSteps
    <2>7. ASSUME NEW type \in {"Listen", "Ignore"}, SerialPost(type, serial', "control"),
                 control'.at = IF type = "Listen" THEN "installing" ELSE "dropping"
          PROVE  Calls'
        <3>1. Asks([type |-> type, id |-> serial, who |-> "control"])'
            BY <2>7 DEF Asks
        <3> QED
            BY <2>1, <2>2, <2>4, <2>7, <3>1, OneThreadSteps
    <2> QED
        BY <2>5, <2>6, <2>7
<1>4. ASSUME UseEnded(control.msg)
      PROVE  \/ UNCHANGED <<serialQueue, serial>>
             \/ SerialPost("Listen", serial', "control") /\ control'.at = "installing"
    BY <1>4 DEF UseEnded, Finish, ListenOn, Listen, ControlGoes
<1>5. CASE ControlDropped
    <2>1. /\ NothingAsked("control") /\ UNCHANGED caller
          /\ answer'["control"] = "none"
          /\ \A d \in Clients \ {"control"} : answer'[d] = answer[d]
        BY <1>5, CallEnds DEF ControlDropped
    <2>2. /\ worker.at = "none"
          /\ \/ UNCHANGED <<serialQueue, worker>>
             \/ UNCHANGED serialQueue /\ worker'.at = "starting"
             \/ /\ SerialPost("Listen", serial', "control") /\ control'.at = "installing"
                /\ UNCHANGED worker
        BY <1>4, <1>5 DEF ControlDropped, ControlInv, StartWorker, NoWorker, Finish
    <2>3. /\ \A d \in Clients \ {"control"} : Waits(d) => Waits(d)'
          /\ \A m \in SerialMessages : m.type # "Irq" /\ m.who # "control" /\ Asks(m) => Asks(m)'
        BY <2>1, <2>2 DEF Waits, Asks
    <2>4. \/ UNCHANGED serialQueue
          \/ /\ SerialPost("Listen", serial', "control")
             /\ Asks([type |-> "Listen", id |-> serial, who |-> "control"])'
        BY <2>2 DEF Asks
    <2> QED
        BY <2>1, <2>3, <2>4, OneThreadSteps
<1>6. CASE ControlJoined
    <2>1. /\ NothingAsked("control") /\ UNCHANGED <<answer, caller>>
          /\ answer'["control"] = "none"
        BY <1>6, NoCall DEF ControlJoined, Waits
    <2>2. /\ worker.at = "ended" /\ worker'.at = "none"
          /\ \/ UNCHANGED serialQueue
             \/ /\ SerialPost("Listen", serial', "control") /\ control'.at = "installing"
        BY <1>4, <1>6 DEF ControlJoined, NoWorker, Listen, ControlGoes
    <2>3. /\ \A d \in Clients \ {"control"} : Waits(d) => Waits(d)'
          /\ \A m \in SerialMessages : m.type # "Irq" /\ m.who # "control" /\ Asks(m) => Asks(m)'
        BY <2>1, <2>2 DEF Waits, Asks
    <2>4. \/ UNCHANGED serialQueue
          \/ /\ SerialPost("Listen", serial', "control")
             /\ Asks([type |-> "Listen", id |-> serial, who |-> "control"])'
        BY <2>2 DEF Asks
    <2> QED
        BY <2>1, <2>3, <2>4, OneThreadSteps
<1>7. CASE ControlInstalled
    <2>1. /\ NothingAsked("control") /\ UNCHANGED <<serialQueue, caller, worker>>
          /\ answer'["control"] = "none"
          /\ \A d \in Clients \ {"control"} : answer'[d] = answer[d]
        BY <1>7, CallEnds DEF ControlInstalled, Finish
    <2>2. /\ \A d \in Clients \ {"control"} : Waits(d) => Waits(d)'
          /\ \A m \in SerialMessages : m.type # "Irq" /\ m.who # "control" /\ Asks(m) => Asks(m)'
        BY <2>1 DEF Waits, Asks
    <2> QED
        BY <2>1, <2>2, OneThreadSteps
<1>8. CASE ServeCall
    BY <1>8, CallServed
<1>9. CASE FailCheck
    BY <1>9, <1>c DEF FailCheck, Waits, Asks
<1>10. CASE Detect
    <2>1. SerialTakesIrq /\ UNCHANGED <<answer, controlVars, workerVars, callerVars>>
        BY <1>10 DEF Detect, SerialTakesIrq
    <2> QED
        BY <2>1, InterruptCalls
<1>11. ASSUME NEW s \in Serials, Pulse(s)
       PROVE  Calls'
    BY <1>11, InterruptCalls DEF Pulse, PinFalls

\* The worker.
<1>12. ASSUME UNCHANGED <<control, serial, caller>>
       PROVE  /\ \A d \in Clients \ {"worker"} : Waits(d) => Waits(d)'
              /\ \A m \in SerialMessages :
                    m.type # "Irq" /\ m.who # "worker" /\ Asks(m) => Asks(m)'
    BY <1>12 DEF Waits, Asks
<1>13. ASSUME UNCHANGED <<control, serial, caller, serialQueue>>,
              \/ ~Waits("worker") /\ UNCHANGED answer
              \/ \E r \in {"done", "NULL"} : SerialReturns("worker", r)
       PROVE  Calls'
    <2>1. /\ NothingAsked("worker") /\ answer'["worker"] = "none"
          /\ \A d \in Clients \ {"worker"} : answer'[d] = answer[d]
        BY <1>13, NoCall, CallEnds
    <2> QED
        BY <1>12, <1>13, <2>1, OneThreadSteps
<1>14. ASSUME NEW type \in {"Acquire", "Release"}, SerialPost(type, worker.id, "worker"),
              ~Waits("worker"), UNCHANGED <<control, serial, caller, answer>>,
              worker'.id = worker.id,
              worker'.at = IF type = "Acquire" THEN "acquiring" ELSE "releasing"
       PROVE  Calls'
    <2>1. NothingAsked("worker") /\ answer'["worker"] = "none"
        BY <1>14, NoCall
    <2>2. Asks([type |-> type, id |-> worker.id, who |-> "worker"])'
        BY <1>14 DEF Asks
    <2>3. SerialPost(type, worker'.id, "worker")
        BY <1>14
    <2> QED
        BY <1>12, <1>14, <2>1, <2>2, <2>3, OneThreadSteps
<1>15. CASE WorkerAcquires
    BY <1>14, <1>15 DEF WorkerAcquires, WorkerGoes, WorkerOnly, Waits, Typed, TypeOK
<1>16. CASE WorkerAcquired
    BY <1>13, <1>16 DEF WorkerAcquired, WorkerOnly
<1>17. ASSUME NEW why, WorkerReleases(why)
       PROVE  Calls'
    BY <1>14, <1>17 DEF WorkerReleases, WorkerOnly, Waits, Typed, TypeOK
<1>18. CASE WorkerReleased
    BY <1>13, <1>18 DEF WorkerReleased, WorkerOnly
<1>19. CASE WorkerReports
    BY <1>13, <1>19 DEF WorkerReports, WorkerGoes, WorkerOnly, Waits

\* The callers.
<1>20. ASSUME NEW c \in Callers, UNCHANGED <<control, serial, worker>>,
              \A d \in Callers \ {c} : caller'[d] = caller[d]
       PROVE  /\ \A d \in Clients \ {c} : Waits(d) => Waits(d)'
              /\ \A m \in SerialMessages : m.type # "Irq" /\ m.who # c /\ Asks(m) => Asks(m)'
    BY <1>20 DEF Waits, Asks
<1>21. ASSUME NEW c \in Callers, UNCHANGED <<control, serial, worker, serialQueue>>,
              \A d \in Callers \ {c} : caller'[d] = caller[d],
              \/ ~Waits(c) /\ UNCHANGED answer
              \/ \E r \in {"done", "NULL"} : SerialReturns(c, r)
       PROVE  Calls'
    <2>1. /\ NothingAsked(c) /\ answer'[c] = "none"
          /\ \A d \in Clients \ {c} : answer'[d] = answer[d]
        BY <1>b, <1>21, NoCall, CallEnds
    <2> QED
        BY <1>b, <1>20, <1>21, <2>1, OneThreadSteps
<1>22. ASSUME NEW c \in Callers, NEW type, NEW s, SerialPost(type, s, c),
              ~Waits(c), UNCHANGED <<control, serial, worker, answer>>,
              \A d \in Callers \ {c} : caller'[d] = caller[d],
              Asks([type |-> type, id |-> s, who |-> c])'
       PROVE  Calls'
    <2>1. NothingAsked(c) /\ answer'[c] = "none"
        BY <1>b, <1>22, NoCall
    <2> QED
        BY <1>b, <1>20, <1>22, <2>1, OneThreadSteps
<1>23. \A c \in Callers : /\ caller[c].at \notin {"acquiring", "releasing", "logging"} => ~Waits(c)
                          /\ c # "control" /\ c # "worker"
    BY DEF Waits
<1>24. ASSUME NEW c \in Callers, CallEnable(c)
       PROVE  Calls'
    <2>1. /\ \A d \in Callers \ {c} : caller'[d] = caller[d]
          /\ caller[c].at \in {"idle", "released"}
        BY <1>24 DEF CallEnable, Uses, CallerGoes, Typed, TypeOK
    <2> QED
        BY <1>21, <1>23, <1>24, <2>1 DEF CallEnable, CallerOnly
<1>25. ASSUME NEW c \in Callers, NEW s \in Ports, ChoosePort(c, s)
       PROVE  Calls'
    <2>1. \A d \in Callers \ {c} : caller'[d] = caller[d]
        BY <1>25 DEF ChoosePort, Uses, Typed, TypeOK
    <2> QED
        BY <1>21, <1>23, <1>25, <2>1 DEF ChoosePort, CallerOnly
<1>26. ASSUME NEW c \in Callers, NEW s \in Serials, CallDisable(c, s)
       PROVE  Calls'
    <2>1. \A d \in Callers \ {c} : caller'[d] = caller[d]
        BY <1>26 DEF CallDisable, Typed, TypeOK
    <2> QED
        BY <1>21, <1>23, <1>26, <2>1 DEF CallDisable, CallerOnly
<1>27. ASSUME NEW c \in Callers, Returned(c)
       PROVE  Calls'
    <2>1. /\ \A d \in Callers \ {c} : caller'[d] = caller[d]
          /\ caller[c].at \in {"calling", "disabling"}
        BY <1>27 DEF Returned, CallerGoes, Typed, TypeOK
    <2> QED
        BY <1>21, <1>23, <1>27, <2>1 DEF Returned, CallerOnly
<1>28. ASSUME NEW c \in Callers, CallSerial(c)
       PROVE  Calls'
    <2>1. \A d \in Callers \ {c} : caller'[d] = caller[d]
        BY <1>28 DEF CallSerial, CallerGoes, Typed, TypeOK
    <2>2. PICK type \in {"Acquire", "Release"} :
             /\ SerialPost(type, caller[c].id, c) /\ caller'[c].id = caller[c].id
             /\ caller[c].at \in {"disabled", "holding"}
             /\ caller'[c].at = IF type = "Acquire" THEN "acquiring" ELSE "releasing"
        BY <1>28 DEF CallSerial, CallerGoes, Typed, TypeOK
    <2>3. Asks([type |-> type, id |-> caller[c].id, who |-> c])'
        BY <2>2 DEF Asks
    <2>4. SerialPost(type, caller'[c].id, c)
        BY <2>2
    <2> QED
        BY <1>22, <1>23, <1>28, <2>1, <2>2, <2>3, <2>4 DEF CallSerial, CallerOnly
<1>29. ASSUME NEW c \in Callers, SerialAnswered(c)
       PROVE  Calls'
    <2>1. \A d \in Callers \ {c} : caller'[d] = caller[d]
        BY <1>29 DEF SerialAnswered, CallerGoes, Typed, TypeOK
    <2> QED
        BY <1>21, <1>29, <2>1 DEF SerialAnswered
<1>30. ASSUME NEW c \in Callers, NEW s \in Ports, SetLogging(c, s)
       PROVE  Calls'
    <2>1. /\ \A d \in Callers \ {c} : caller'[d] = caller[d]
          /\ caller'[c].at = "logging"
        BY <1>30 DEF SetLogging, Typed, TypeOK
    <2>2. Asks([type |-> "Logging", id |-> s, who |-> c])'
        BY <2>1 DEF Asks
    <2> QED
        BY <1>22, <1>23, <1>30, <2>1, <2>2 DEF SetLogging, CallerOnly
<1>31. CASE CardMount
    BY <1>31, <1>c DEF CardMount, Waits, Asks
<1>32. CASE MountPosted
    BY <1>32, <1>c DEF MountPosted, Waits, Asks
<1> QED
    BY <1>1, <1>2, <1>3, <1>5, <1>6, <1>7, <1>8, <1>9, <1>10, <1>11, <1>15, <1>16, <1>17,
       <1>18, <1>19, <1>24, <1>25, <1>26, <1>27, <1>28, <1>29, <1>30, <1>31, <1>32
       DEF Next, ControlStep, WorkerProceeds, WorkerStops, LinkBreaks, CallerProceeds

-----------------------------------------------------------------------------
(* The control thread and the detection callback *)

\* The check of the set-callback handler holds for the message at the head of the queue.
LEMMA CheckHolds == Typed /\ Calls /\ ControlInv => ChecksHold
<1> SUFFICES ASSUME Typed, Calls, ControlInv, serialQueue # <<>>
             PROVE  CallbackCheck(Head(serialQueue))
    BY DEF ChecksHold
<1> DEFINE m == Head(serialQueue)
<1>1. m = serialQueue[1] /\ m \in SerialMessages /\ 1 \in 1..Len(serialQueue)
    BY SerialTyped, QueueTail DEF SerialTypeOK
<1>2. m.type \in {"Listen", "Ignore"} => Asks(m) /\ answer[m.who] = "none"
    BY <1>1 DEF Calls, Called
<1>3. CASE m.type = "Listen"
    <2>1. m.who = "control" /\ control.at = "installing"
        BY <1>2, <1>3 DEF Asks
    <2> QED
        BY <1>2, <1>3, <2>1 DEF ControlInv, CallbackCheck
<1>4. CASE m.type = "Ignore"
    <2>1. m.who = "control" /\ control.at = "dropping" /\ m.id = serial
        BY <1>2, <1>4 DEF Asks
    <2> QED
        BY <1>2, <1>4, <2>1 DEF ControlInv, CallbackCheck
<1>5. CASE m.type \notin {"Listen", "Ignore"}
    BY <1>5 DEF CallbackCheck
<1> QED
    BY <1>3, <1>4, <1>5

\* A served message changes the callback exactly when it is the one the control thread
\* waits for.
LEMMA ServedListening ==
    ASSUME Typed, Calls, ServeCall
    PROVE  \/ listening' = listening /\ answer'["control"] = answer["control"]
           \/ /\ answer["control"] = "none" /\ answer'["control"] = "done"
              /\ \/ control.at = "installing" /\ listening' = serial
                 \/ control.at = "dropping" /\ listening' = None
<1> DEFINE m == Head(serialQueue)
<1>1. SerialServes
    BY DEF ServeCall
<1>2. m.who \in Clients /\ Asks(m) /\ answer[m.who] = "none"
    BY <1>1, Serving
<1>3. answer \in [Clients -> Answers] /\ "control" \in Clients
    BY SerialTyped DEF SerialTypeOK
<1>4. CASE m.type \in {"Acquire", "Release", "Logging"}
    <2>1. m.who # "control"
        BY <1>2, <1>4, SerialTyped DEF Asks
    <2>2. listening' = listening
        BY <1>1, <1>4 DEF SerialServes, HandleAcquire, HandleRelease, HandleLogging,
                          HandleSetCallback
    <2>3. \E r : answer' = [answer EXCEPT ![m.who] = r]
        BY <1>1, Serving
    <2> QED
        BY <1>3, <2>1, <2>2, <2>3
<1>5. CASE HandleSetCallback(m)
    <2>1. /\ m.who = "control" /\ m.id = serial
          /\ \/ m.type = "Listen" /\ control.at = "installing"
             \/ m.type = "Ignore" /\ control.at = "dropping"
        BY <1>2, <1>5 DEF Asks, HandleSetCallback
    <2> QED
        BY <1>2, <1>3, <1>5, <2>1 DEF HandleSetCallback
<1> QED
    BY <1>1, <1>4, <1>5 DEF SerialServes, HandleAcquire, HandleRelease, HandleLogging

\* Every step keeps the control thread and the serial control in agreement.
LEMMA ControlInvStep == Typed /\ Calls /\ ControlInv /\ [Next]_vars => ControlInv'
<1> SUFFICES ASSUME Typed, Calls, ControlInv, [Next]_vars
             PROVE  ControlInv'
    OBVIOUS
<1> USE SerialTyped
<1> USE DEF serialVars, portVars, controlVars, workerVars, callerVars, environmentVars
<1>a. /\ control.at \in {"get", "loading", "dropping", "joining", "installing"}
      /\ state \in {"Disabled", "Enabled", "Running"}
      /\ control.msg \in Messages \union {NoMessage}
      /\ answer \in [Clients -> Answers]
    BY DEF Typed, TypeOK, SerialTypeOK
<1>b. ASSUME UNCHANGED <<control, state, serial, listening>>, answer'["control"] = answer["control"],
             worker'.at = "none" <=> worker.at = "none"
      PROVE  ControlInv'
    BY <1>b DEF ControlInv
<1>1. CASE UNCHANGED vars
    BY <1>1, <1>b DEF vars
<1>2. CASE ControlGets /\ NeedsSettings(Head(queue))
    BY <1>2 DEF ControlGets, ControlGoes, ControlInv
<1>3. CASE (ControlGets /\ ~NeedsSettings(Head(queue))) \/ ControlLoads
    <2>1. /\ control.at \in {"get", "loading"} /\ UNCHANGED <<listening, answer>>
          /\ \E m \in Messages : NamesPort(m) /\ Handle(m)
        BY <1>3, ControlHandles
    <2>2. answer["control"] = "none"
        BY <2>1, NoCall DEF Waits
    <2>3. worker'.at = worker.at
        BY <2>1, HandleOutcome DEF Typed, TypeOK
    <2>4. \/ control'.at = "get" /\ UNCHANGED <<state, serial>>
          \/ /\ state = "Disabled" /\ state' = "Enabled" /\ control'.at = "installing"
          \/ /\ state = "Enabled" /\ control'.at = "dropping" /\ UNCHANGED <<state, serial>>
          \/ /\ state = "Running" /\ control'.at = "joining"
             /\ state' = IF control'.msg.type = "ModuleDisconnected" THEN "Enabled" ELSE "Running"
        BY <2>1, HandleOutcome
    <2> QED
        BY <2>1, <2>2, <2>3, <2>4 DEF ControlInv
<1>4. ASSUME UseEnded(control.msg)
      PROVE  /\ control.msg.type \in {"Disable", "SetListenSerial"}
             /\ \/ control'.at = "get" /\ state' = "Disabled"
                \/ control'.at = "installing" /\ state' = "Enabled"
    BY <1>4 DEF UseEnded, Finish, ListenOn, Listen, ControlGoes
<1>5. CASE ControlDropped
    <2>1. answer["control"] = "done" /\ answer'["control"] = "none"
        BY <1>5, <1>a DEF ControlDropped, SerialReturns
    <2>2. worker.at = "none" /\ listening = None /\ listening' = None
        BY <1>5, <2>1 DEF ControlDropped, ControlInv
    <2>3. CASE UseEnded(control.msg) /\ UNCHANGED workerVars
        BY <1>4, <2>1, <2>2, <2>3 DEF ControlInv
    <2>4. CASE StartWorker(control.msg)
        BY <2>2, <2>4 DEF StartWorker, NoWorker, Finish, ControlGoes, ControlInv
    <2> QED
        BY <1>5, <2>3, <2>4 DEF ControlDropped
<1>6. CASE ControlJoined
    <2>1. /\ answer'["control"] = "none" /\ worker'.at = "none"
          /\ listening = None /\ listening' = None
        BY <1>6, NoCall DEF ControlJoined, Waits, NoWorker, ControlInv
    <2>2. CASE UseEnded(control.msg)
        BY <1>4, <2>1, <2>2 DEF ControlInv
    <2>3. CASE /\ control.msg.type = "ModuleDisconnected"
               /\ Listen(serial, control.msg) /\ UNCHANGED <<state, serial>>
        <3>1. state = "Enabled"
            BY <1>6, <2>3 DEF ControlJoined, ControlInv
        <3> QED
            BY <2>1, <2>3, <3>1 DEF Listen, ControlGoes, ControlInv
    <2> QED
        BY <1>6, <2>2, <2>3 DEF ControlJoined
<1>7. CASE ControlInstalled
    <2>1. answer["control"] = "done" /\ control.at = "installing"
        BY <1>7, <1>a DEF ControlInstalled, SerialReturns
    <2> QED
        BY <1>7, <2>1 DEF ControlInstalled, Finish, ControlGoes, ControlInv
<1>8. CASE ServeCall
    <2>1. UNCHANGED <<control, state, serial, worker>>
        BY <1>8 DEF ServeCall
    <2> QED
        BY <1>8, <1>b, <2>1, ServedListening DEF ControlInv
<1>9. CASE FailCheck
    BY <1>9, <1>b DEF FailCheck
<1>10. CASE Detect
    BY <1>10, <1>b DEF Detect, SerialTakesIrq
<1>11. ASSUME NEW s \in Serials, Pulse(s)
       PROVE  ControlInv'
    BY <1>11, <1>b DEF Pulse, PinFalls
<1>12. ASSUME NEW c \in Clients, NEW r, SerialReturns(c, r), c # "control"
       PROVE  answer'["control"] = answer["control"]
    BY <1>12, <1>a DEF SerialReturns
<1>13. CASE WorkerAcquires
    BY <1>13, <1>b DEF WorkerAcquires, WorkerGoes, WorkerOnly, Typed, TypeOK
<1>14. CASE WorkerAcquired
    <2>1. worker'.at # "none" /\ worker.at # "none"
        BY <1>14 DEF WorkerAcquired, WorkerGoes, Typed, TypeOK
    <2> QED
        BY <1>14, <1>b, <1>12, <2>1 DEF WorkerAcquired, WorkerOnly
<1>15. ASSUME NEW why, WorkerReleases(why)
       PROVE  ControlInv'
    BY <1>15, <1>b DEF WorkerReleases, WorkerOnly, Typed, TypeOK
<1>16. CASE WorkerReleased
    <2>1. worker'.at # "none" /\ worker.at # "none"
        BY <1>16 DEF WorkerReleased, WorkerGoes, Typed, TypeOK
    <2> QED
        BY <1>16, <1>b, <1>12, <2>1 DEF WorkerReleased, WorkerOnly
<1>17. CASE WorkerReports
    BY <1>17, <1>b DEF WorkerReports, WorkerGoes, WorkerOnly, Typed, TypeOK
<1>18. ASSUME NEW c \in Callers, CallEnable(c)
       PROVE  ControlInv'
    BY <1>18, <1>b DEF CallEnable, CallerOnly
<1>19. ASSUME NEW c \in Callers, NEW s \in Ports, ChoosePort(c, s)
       PROVE  ControlInv'
    BY <1>19, <1>b DEF ChoosePort, CallerOnly
<1>20. ASSUME NEW c \in Callers, NEW s \in Serials, CallDisable(c, s)
       PROVE  ControlInv'
    BY <1>20, <1>b DEF CallDisable, CallerOnly
<1>21. ASSUME NEW c \in Callers, Returned(c)
       PROVE  ControlInv'
    BY <1>21, <1>b DEF Returned, CallerOnly
<1>22. ASSUME NEW c \in Callers, CallSerial(c)
       PROVE  ControlInv'
    BY <1>22, <1>b DEF CallSerial, CallerOnly
<1>23. ASSUME NEW c \in Callers, SerialAnswered(c)
       PROVE  ControlInv'
    <2>1. answer'["control"] = answer["control"]
        BY <1>12, <1>23 DEF SerialAnswered
    <2> QED
        BY <1>23, <1>b, <2>1 DEF SerialAnswered
<1>24. ASSUME NEW c \in Callers, NEW s \in Ports, SetLogging(c, s)
       PROVE  ControlInv'
    BY <1>24, <1>b DEF SetLogging, CallerOnly
<1>25. CASE CardMount
    BY <1>25, <1>b DEF CardMount
<1>26. CASE MountPosted
    BY <1>26, <1>b DEF MountPosted
<1> QED
    BY <1>1, <1>2, <1>3, <1>5, <1>6, <1>7, <1>8, <1>9, <1>10, <1>11, <1>13, <1>14, <1>15,
       <1>16, <1>17, <1>18, <1>19, <1>20, <1>21, <1>22, <1>23, <1>24, <1>25, <1>26
       DEF Next, ControlStep, WorkerProceeds, WorkerStops, LinkBreaks, CallerProceeds

-----------------------------------------------------------------------------
(* The ports and the log *)

\* Every step leaves the log on its port exactly while nobody has it.
LEMMA LogStep == Typed /\ LogYieldsPort /\ [Next]_vars => LogYieldsPort'
<1> SUFFICES ASSUME Typed, LogYieldsPort, [Next]_vars
             PROVE  LogYieldsPort'
    OBVIOUS
<1> USE SerialTyped
<1> USE DEF serialVars, portVars
<1>1. CASE UNCHANGED <<inUse, logId, logSerial>>
    BY <1>1 DEF LogYieldsPort
<1>2. CASE ServeCall
    <2> DEFINE m == Head(serialQueue)
    <2>1. m \in SerialMessages
        BY <1>2, QueueTail DEF ServeCall, SerialServes, SerialTypeOK
    <2>2. CASE HandleAcquire(m)
        <3>1. m.id \in Serials
            BY <2>1, <2>2 DEF SerialMessages, HandleAcquire
        <3>2. m.id # None
            BY <3>1, SerialAssumption DEF SerialAssumption
        <3> QED
            BY <2>2, <3>1, <3>2 DEF HandleAcquire, LogSetHandle, SwitchDetection, LogYieldsPort,
                                    SerialTypeOK
    <2>3. CASE HandleRelease(m)
        <3>1. m.id \in Serials
            BY <2>1, <2>3 DEF SerialMessages, HandleRelease
        <3>2. m.id # None
            BY <3>1, SerialAssumption DEF SerialAssumption
        <3> QED
            BY <2>3, <3>1, <3>2 DEF HandleRelease, LogSetHandle, SwitchDetection, LogYieldsPort,
                                    SerialTypeOK
    <2>4. CASE HandleLogging(m)
        BY <2>4 DEF HandleLogging, LogSetHandle, LogYieldsPort
    <2>5. CASE HandleSetCallback(m)
        BY <2>5 DEF HandleSetCallback, LogYieldsPort
    <2> QED
        BY <1>2, <2>2, <2>3, <2>4, <2>5 DEF ServeCall, SerialServes
<1>3. ServeCall \/ UNCHANGED <<inUse, logId, logSerial>>
    BY DEF Next, vars, ControlStep, ControlGets, ControlLoads, ControlDropped, ControlJoined,
           ControlInstalled, FailCheck, Detect, SerialTakesIrq, WorkerProceeds, WorkerAcquires,
           WorkerAcquired, WorkerReleased, WorkerReports, WorkerOnly, WorkerStops, LinkBreaks,
           WorkerReleases, CardMount, MountPosted, Pulse, PinFalls, CallerProceeds, CallEnable,
           Returned, CallSerial, SerialAnswered, CallerOnly, ChoosePort, SetLogging, CallDisable
<1> QED
    BY <1>1, <1>2, <1>3

\* Who holds a port, one thread at a time.
CallerHolds(c, s) ==
    /\ c \in Callers /\ caller[c].id = s
    /\ \/ caller[c].at = "holding"
       \/ caller[c].at = "acquiring" /\ answer[c] = "done"
       \/ caller[c].at = "releasing" /\ answer[c] # "done"
WorkerHolds(s) ==
    /\ worker.id = s
    /\ \/ worker.at = "talking"
       \/ worker.at = "acquiring" /\ answer["worker"] = "done"
       \/ worker.at = "releasing" /\ answer["worker"] # "done"

Holds(c, s) == CallerHolds(c, s) \/ (c = "worker" /\ WorkerHolds(s))

\* OneHolder, said of threads instead of the set of them.
Owners ==
    \A s \in Serials :
        /\ inUse[s] <=> \E c \in Clients : Holds(c, s)
        /\ \A c, d \in Clients : Holds(c, s) /\ Holds(d, s) => c = d

\* Said either way, a port in use has one holder (furi_hal_serial_control.c:121-160).
LEMMA OwnersAreHolders == Owners => OneHolder
<1> SUFFICES ASSUME Owners, NEW s \in Serials
             PROVE  /\ inUse[s] <=> HeldBy(s) # {}
                    /\ \A c, d \in HeldBy(s) : c = d
    BY DEF OneHolder
<1>1. \A c : c \in HeldBy(s) <=> c \in Clients /\ Holds(c, s)
    BY ExpansionAssumption DEF ExpansionAssumption, HeldBy, Holds, CallerHolds, WorkerHolds
<1> QED
    BY <1>1 DEF Owners

\* Nobody begins or ceases to hold a port but by an answer of the serial control.
LEMMA HoldersStep ==
    ASSUME Typed, Calls, ControlInv, [Next]_vars, ~ServeCall
    PROVE  /\ UNCHANGED inUse
           /\ \A s \in Serials : /\ \A c \in Callers : CallerHolds(c, s)' <=> CallerHolds(c, s)
                                 /\ WorkerHolds(s)' <=> WorkerHolds(s)
<1> USE SerialTyped
<1> USE DEF serialVars, portVars, controlVars, workerVars, callerVars, environmentVars
<1> DEFINE Kept == /\ UNCHANGED inUse
                   /\ \A s \in Serials :
                         /\ \A c \in Callers : CallerHolds(c, s)' <=> CallerHolds(c, s)
                         /\ WorkerHolds(s)' <=> WorkerHolds(s)
<1>a. answer \in [Clients -> Answers] /\ answer["worker"] \in Answers
    BY DEF SerialTypeOK
<1>b. ASSUME UNCHANGED <<inUse, caller>>, worker'.at = worker.at, worker'.id = worker.id,
             \A c \in Clients \ {"control"} : answer'[c] = answer[c]
      PROVE  Kept
    BY <1>b DEF CallerHolds, WorkerHolds
<1>c. ASSUME UNCHANGED <<inUse, caller>>,
             {worker.at, worker'.at} \subseteq {"none", "starting", "reporting", "ended"},
             \A c \in Callers : answer'[c] = answer[c]
      PROVE  Kept
    BY <1>c DEF CallerHolds, WorkerHolds
<1>d. ASSUME UNCHANGED <<inUse, worker>>, answer'["worker"] = answer["worker"],
             NEW c \in Callers, \A d \in Callers \ {c} : UNCHANGED <<caller[d], answer[d]>>,
             \A s \in Serials : CallerHolds(c, s)' <=> CallerHolds(c, s)
      PROVE  Kept
    BY <1>d DEF CallerHolds, WorkerHolds
<1>1. CASE UNCHANGED vars
    BY <1>1, <1>b DEF vars
<1>2. CASE ControlGets /\ NeedsSettings(Head(queue))
    BY <1>2, <1>b DEF ControlGets
<1>3. CASE (ControlGets /\ ~NeedsSettings(Head(queue))) \/ ControlLoads
    <2>1. UNCHANGED <<inUse, answer, caller>> /\ \E m \in Messages : NamesPort(m) /\ Handle(m)
        BY <1>3, ControlHandles
    <2>2. worker'.at = worker.at /\ worker'.id = worker.id
        BY <2>1, HandleOutcome DEF Typed, TypeOK
    <2> QED
        BY <1>b, <2>1, <2>2
<1>4. CASE ControlDropped
    <2>1. /\ worker.at = "none" /\ worker'.at \in {"none", "starting"}
          /\ UNCHANGED <<inUse, caller>>
        BY <1>4 DEF ControlDropped, ControlInv, StartWorker, NoWorker
    <2>2. \A c \in Callers : answer'[c] = answer[c]
        BY <1>4, <1>a DEF ControlDropped, SerialReturns
    <2> QED
        BY <1>c, <2>1, <2>2
<1>5. CASE ControlJoined
    BY <1>5, <1>c DEF ControlJoined, NoWorker
<1>6. CASE ControlInstalled
    BY <1>6, <1>a, <1>b DEF ControlInstalled, SerialReturns
<1>7. CASE FailCheck
    BY <1>7, <1>b DEF FailCheck
<1>8. CASE Detect
    BY <1>8, <1>b DEF Detect, SerialTakesIrq
<1>9. ASSUME NEW s \in Serials, Pulse(s)
      PROVE  Kept
    BY <1>9, <1>b DEF Pulse, PinFalls
<1>10. CASE WorkerAcquires
    <2>1. answer["worker"] = "none"
        BY <1>10, NoCall DEF WorkerAcquires, WorkerGoes, Waits
    <2>2. worker.at = "starting" /\ worker'.at = "acquiring" /\ UNCHANGED <<inUse, caller, answer>>
        BY <1>10 DEF WorkerAcquires, WorkerGoes, WorkerOnly, Typed, TypeOK
    <2> QED
        BY <2>1, <2>2 DEF CallerHolds, WorkerHolds
<1>11. CASE WorkerAcquired
    <2>1. \A c \in Callers : answer'[c] = answer[c]
        BY <1>11, <1>a DEF WorkerAcquired, SerialReturns
    <2>2. /\ worker'.id = worker.id /\ UNCHANGED <<inUse, caller>>
          /\ \/ answer["worker"] = "done" /\ worker.at = "acquiring" /\ worker'.at = "talking"
             \/ /\ answer["worker"] = "NULL" /\ answer'["worker"] = "none"
                /\ worker.at = "acquiring" /\ worker' = worker
        BY <1>11, <1>a DEF WorkerAcquired, WorkerGoes, WorkerOnly, SerialReturns, Typed, TypeOK
    <2> QED
        BY <2>1, <2>2 DEF CallerHolds, WorkerHolds
<1>12. ASSUME NEW why, WorkerReleases(why)
       PROVE  Kept
    <2>1. answer["worker"] = "none"
        BY <1>12, NoCall DEF WorkerReleases, Waits
    <2>2. /\ worker.at = "talking" /\ worker'.at = "releasing" /\ worker'.id = worker.id
          /\ UNCHANGED <<inUse, caller, answer>>
        BY <1>12 DEF WorkerReleases, WorkerOnly, Typed, TypeOK
    <2> QED
        BY <2>1, <2>2 DEF CallerHolds, WorkerHolds
<1>13. CASE WorkerReleased
    <2>1. \A c \in Callers : answer'[c] = answer[c]
        BY <1>13, <1>a DEF WorkerReleased, SerialReturns
    <2>2. /\ worker'.at \in {"ended", "reporting"} /\ UNCHANGED <<inUse, caller>>
          /\ worker.at = "releasing" /\ answer["worker"] = "done"
        BY <1>13 DEF WorkerReleased, WorkerGoes, WorkerOnly, SerialReturns, Typed, TypeOK
    <2> QED
        BY <2>1, <2>2 DEF CallerHolds, WorkerHolds
<1>14. CASE WorkerReports
    BY <1>14, <1>c DEF WorkerReports, WorkerGoes, WorkerOnly, Typed, TypeOK
<1> DEFINE Quiet == {"idle", "disabling", "disabled", "released", "calling", "logging"}
<1>e. ASSUME NEW c \in Callers, UNCHANGED <<inUse, worker, answer>>,
             caller[c].at \in Quiet, caller'[c].at \in Quiet,
             \A d \in Callers \ {c} : caller'[d] = caller[d]
      PROVE  Kept
    BY <1>e DEF CallerHolds, WorkerHolds
<1>15. ASSUME NEW c \in Callers, CallEnable(c)
       PROVE  Kept
    <2>1. /\ \A d \in Callers \ {c} : caller'[d] = caller[d]
          /\ caller[c].at \in Quiet /\ caller'[c].at = "calling"
        BY <1>15 DEF CallEnable, Uses, CallerGoes, Typed, TypeOK
    <2> QED
        BY <1>15, <1>e, <2>1 DEF CallEnable, CallerOnly
<1>16. ASSUME NEW c \in Callers, NEW s \in Ports, ChoosePort(c, s)
       PROVE  Kept
    <2>1. /\ \A d \in Callers \ {c} : caller'[d] = caller[d]
          /\ caller[c].at = "idle" /\ caller'[c].at = "calling"
        BY <1>16 DEF ChoosePort, Uses, Typed, TypeOK
    <2> QED
        BY <1>16, <1>e, <2>1 DEF ChoosePort, CallerOnly
<1>17. ASSUME NEW c \in Callers, NEW s \in Serials, CallDisable(c, s)
       PROVE  Kept
    <2>1. /\ \A d \in Callers \ {c} : caller'[d] = caller[d]
          /\ caller[c].at = "idle" /\ caller'[c].at = "disabling"
        BY <1>17 DEF CallDisable, Typed, TypeOK
    <2> QED
        BY <1>17, <1>e, <2>1 DEF CallDisable, CallerOnly
<1>18. ASSUME NEW c \in Callers, Returned(c)
       PROVE  Kept
    <2>1. /\ \A d \in Callers \ {c} : caller'[d] = caller[d]
          /\ caller[c].at \in Quiet /\ caller'[c].at \in Quiet
        BY <1>18 DEF Returned, CallerGoes, Typed, TypeOK
    <2> QED
        BY <1>18, <1>e, <2>1 DEF Returned, CallerOnly
<1>19. ASSUME NEW c \in Callers, CallSerial(c)
       PROVE  Kept
    <2>1. answer[c] = "none"
        BY <1>19, NoCall DEF CallSerial, CallerGoes, Waits
    <2>2. /\ \A d \in Callers \ {c} : caller'[d] = caller[d]
          /\ caller'[c].id = caller[c].id
          /\ \/ caller[c].at = "disabled" /\ caller'[c].at = "acquiring"
             \/ caller[c].at = "holding" /\ caller'[c].at = "releasing"
          /\ UNCHANGED <<inUse, worker, answer>>
        BY <1>19 DEF CallSerial, CallerGoes, CallerOnly, Typed, TypeOK
    <2> QED
        BY <2>1, <2>2, <1>d DEF CallerHolds
<1>20. ASSUME NEW c \in Callers, SerialAnswered(c)
       PROVE  Kept
    <2>1. /\ answer'["worker"] = answer["worker"] /\ answer'[c] = "none"
          /\ \A d \in Callers \ {c} : caller'[d] = caller[d] /\ answer'[d] = answer[d]
          /\ UNCHANGED <<inUse, worker>>
        BY <1>20, <1>a DEF SerialAnswered, SerialReturns, CallerGoes, Typed, TypeOK
    <2>2. /\ caller'[c].id = caller[c].id
          /\ \/ answer[c] = "done" /\ caller[c].at = "acquiring" /\ caller'[c].at = "holding"
             \/ answer[c] = "done" /\ caller[c].at = "releasing" /\ caller'[c].at = "released"
             \/ answer[c] = "done" /\ caller[c].at = "logging" /\ caller'[c].at = "idle"
             \/ answer[c] = "NULL" /\ caller' = caller
        BY <1>20 DEF SerialAnswered, SerialReturns, CallerGoes, Typed, TypeOK
    <2> QED
        BY <2>1, <2>2, <1>d DEF CallerHolds
<1>21. ASSUME NEW c \in Callers, NEW s \in Ports, SetLogging(c, s)
       PROVE  Kept
    <2>1. /\ \A d \in Callers \ {c} : caller'[d] = caller[d]
          /\ caller[c].at = "idle" /\ caller'[c].at = "logging"
        BY <1>21 DEF SetLogging, Typed, TypeOK
    <2> QED
        BY <1>21, <1>e, <2>1 DEF SetLogging, CallerOnly
<1>22. CASE CardMount
    BY <1>22, <1>b DEF CardMount
<1>23. CASE MountPosted
    BY <1>23, <1>b DEF MountPosted
<1> QED
    BY <1>1, <1>2, <1>3, <1>4, <1>5, <1>6, <1>7, <1>8, <1>9, <1>10, <1>11, <1>12, <1>13, <1>14,
       <1>15, <1>16, <1>17, <1>18, <1>19, <1>20, <1>21, <1>22, <1>23
       DEF Next, ControlStep, WorkerProceeds, WorkerStops, LinkBreaks, CallerProceeds

\* The answer to an acquisition makes the one holder of a free port, the answer to a
\* release leaves the port without one, and no other answer matters.
LEMMA OwnersServed ==
    ASSUME Typed, Calls, Owners, ServeCall
    PROVE  Owners'
<1> USE SerialTyped
<1> DEFINE m == Head(serialQueue)
<1>1. SerialServes /\ UNCHANGED <<caller, worker>>
    BY DEF ServeCall, workerVars, callerVars
<1>2. m.who \in Clients /\ Asks(m) /\ answer[m.who] = "none" /\ m \in SerialMessages
    BY <1>1, Serving
<1>3. /\ answer \in [Clients -> Answers] /\ inUse \in [Serials -> BOOLEAN]
      /\ \A c \in Callers : c # "control" /\ c # "worker" /\ c \in Clients
    BY DEF SerialTypeOK
<1>4. \A c \in Clients \ {m.who} : answer'[c] = answer[c]
    BY <1>1, <1>3, Serving
<1> SUFFICES ASSUME NEW s \in Serials
             PROVE  /\ inUse'[s] <=> \E c \in Clients : Holds(c, s)'
                    /\ \A c, d \in Clients : Holds(c, s)' /\ Holds(d, s)' => c = d
    BY DEF Owners
<1> DEFINE Before(c) == Holds(c, s)
           After(c) == Holds(c, s)'
<1> SUFFICES /\ inUse'[s] <=> \E c \in Clients : After(c)
             /\ \A c, d \in Clients : After(c) /\ After(d) => c = d
    OBVIOUS
<1>5. ASSUME NEW c \in Clients, c # m.who
      PROVE  After(c) <=> Before(c)
    <2>1. CallerHolds(c, s)' <=> CallerHolds(c, s)
        BY <1>1, <1>4, <1>5 DEF CallerHolds
    <2>2. c = "worker" => (WorkerHolds(s)' <=> WorkerHolds(s))
        BY <1>1, <1>4, <1>5 DEF WorkerHolds
    <2> QED
        BY <2>1, <2>2 DEF Holds
<1>6. ASSUME NEW w, w = m.who, NEW type, type = m.type,
             NEW id, type \in {"Acquire", "Release"} => id = m.id
      PROVE  /\ type \notin {"Acquire", "Release"} => ~Before(w) /\ ~After(w)
             /\ type = "Acquire" => ~Before(w) /\ (After(w) <=> s = id /\ answer'[w] = "done")
             /\ type = "Release" => /\ Before(w) <=> s = id
                                    /\ After(w) <=> s = id /\ answer'[w] # "done"
    <2>1. CASE w = "control"
        BY <1>2, <1>3, <1>6, <2>1 DEF Asks, Holds, CallerHolds
    <2>2. CASE w = "worker"
        BY <1>1, <1>2, <1>3, <1>6, <2>2 DEF Asks, Holds, CallerHolds, WorkerHolds
    <2>3. CASE w \in Callers
        BY <1>1, <1>2, <1>3, <1>6, <2>3 DEF Asks, Holds, CallerHolds
    <2> QED
        BY <1>2, <1>6, <2>1, <2>2, <2>3 DEF Asks
<1>7. /\ inUse[s] <=> \E c \in Clients : Before(c)
      /\ \A c, d \in Clients : Before(c) /\ Before(d) => c = d
    BY DEF Owners
<1> HIDE DEF Before, After
<1>8. ASSUME inUse'[s] = inUse[s], After(m.who) <=> Before(m.who)
      PROVE  /\ inUse'[s] <=> \E c \in Clients : After(c)
             /\ \A c, d \in Clients : After(c) /\ After(d) => c = d
    <2>1. \A c \in Clients : After(c) <=> Before(c)
        BY <1>2, <1>5, <1>8
    <2> QED
        BY <1>7, <1>8, <2>1
<1>9. CASE HandleAcquire(m)
    <2>1. m.type = "Acquire" /\ m.id \in Serials
        BY <1>2, <1>9 DEF HandleAcquire, SerialMessages
    <2>2. ~Before(m.who) /\ (After(m.who) <=> s = m.id /\ answer'[m.who] = "done")
        BY <1>6, <2>1
    <2>3. CASE inUse[m.id] \/ s # m.id
        <3>1. inUse'[s] = inUse[s] /\ (s = m.id => answer'[m.who] = "NULL")
            BY <1>2, <1>3, <1>9, <2>1, <2>3 DEF HandleAcquire
        <3> QED
            BY <1>8, <2>2, <3>1
    <2>4. CASE ~inUse[m.id] /\ s = m.id
        <3>1. inUse'[s] /\ answer'[m.who] = "done"
            BY <1>2, <1>3, <1>9, <2>1, <2>4 DEF HandleAcquire
        <3>2. \A c \in Clients : After(c) <=> c = m.who
            BY <1>2, <1>5, <1>7, <2>2, <2>4, <3>1
        <3> QED
            BY <1>2, <3>1, <3>2
    <2> QED
        BY <2>3, <2>4
<1>10. CASE HandleRelease(m)
    <2>1. /\ m.type = "Release" /\ m.id \in Serials /\ answer'[m.who] = "done"
          /\ inUse' = [inUse EXCEPT ![m.id] = FALSE]
        BY <1>2, <1>3, <1>10 DEF HandleRelease, SerialMessages
    <2>2. (Before(m.who) <=> s = m.id) /\ ~After(m.who)
        BY <1>6, <2>1
    <2>3. CASE s # m.id
        <3>1. inUse'[s] = inUse[s]
            BY <1>3, <2>1, <2>3
        <3> QED
            BY <1>8, <2>2, <2>3, <3>1
    <2>4. CASE s = m.id
        <3>1. ~inUse'[s]
            BY <1>3, <2>1, <2>4
        <3>2. \A c \in Clients : ~After(c)
            BY <1>2, <1>5, <1>7, <2>2, <2>4
        <3> QED
            BY <3>1, <3>2
    <2> QED
        BY <2>3, <2>4
<1>11. CASE HandleLogging(m) \/ HandleSetCallback(m)
    <2>1. inUse' = inUse /\ m.type \notin {"Acquire", "Release"}
        BY <1>11 DEF HandleLogging, HandleSetCallback
    <2>2. ~Before(m.who) /\ ~After(m.who)
        BY <1>6, <2>1
    <2> QED
        BY <1>8, <2>1, <2>2
<1> QED
    BY <1>1, <1>9, <1>10, <1>11 DEF SerialServes

\* Every step leaves every port in use with its one holder.
LEMMA OwnersStep ==
    ASSUME Typed, Calls, ControlInv, Owners, [Next]_vars
    PROVE  Owners'
<1>1. CASE ServeCall
    BY <1>1, OwnersServed
<1>2. CASE ~ServeCall
    <2>1. /\ inUse' = inUse
          /\ \A s \in Serials : /\ \A c \in Callers : CallerHolds(c, s)' <=> CallerHolds(c, s)
                                /\ WorkerHolds(s)' <=> WorkerHolds(s)
        BY <1>2, HoldersStep
    <2>2. \A s \in Serials : \A c \in Clients : Holds(c, s)' <=> Holds(c, s)
        <3> SUFFICES ASSUME NEW s \in Serials, NEW c \in Clients
                     PROVE  Holds(c, s)' <=> Holds(c, s)
            OBVIOUS
        <3>1. CallerHolds(c, s)' <=> CallerHolds(c, s)
            BY <2>1 DEF CallerHolds
        <3>2. WorkerHolds(s)' <=> WorkerHolds(s)
            BY <2>1 DEF WorkerHolds
        <3> QED
            BY <3>1, <3>2 DEF Holds
    <2> QED
        BY <2>1, <2>2 DEF Owners
<1> QED
    BY <1>1, <1>2

-----------------------------------------------------------------------------
(* The buffer of the worker *)

\* The report that is handled next, where it is not ignored, is from the worker that
\* runs, which has ended.  expansion_control does not look whose report it is.
ReportsAreFresh ==
    queue # <<>> /\ Head(queue).type = "ModuleDisconnected" /\ state = "Running"
        => worker.at = "ended"

\* A worker that is joined was told to stop, or ends by itself.
JoinedEnds == control.at = "joining" => worker.stop \/ worker.at = "ended"

\* The worker goes its way, which leads from running to its end.
WorkerLives == {"starting", "acquiring", "talking", "releasing"}
WorkerAdvances ==
    \/ worker' = worker
    \/ /\ worker.at # "ended" /\ worker'.stop = worker.stop
       /\ worker'.at \in WorkerLives => worker.at \in WorkerLives

\* What the threads other than the control thread do to worker, buffer and control thread.
LEMMA OthersAdvance ==
    ASSUME Typed, [Next]_vars, ~ControlStep
    PROVE  UNCHANGED <<control, rxBuf>> /\ WorkerAdvances
<1> USE DEF WorkerAdvances, WorkerLives, controlVars, workerVars
<1>1. worker \in [at : {"none", "starting", "acquiring", "talking", "releasing",
                        "reporting", "ended"},
                  id : Ports, stop : BOOLEAN, why : {"Unknown", "User"}]
    BY DEF Typed, TypeOK
<1>2. CASE UNCHANGED vars
    BY <1>2 DEF vars
<1>3. CASE ServeCall \/ FailCheck \/ Detect \/ CardMount \/ MountPosted
           \/ \E s \in Serials : Pulse(s)
    BY <1>3 DEF ServeCall, FailCheck, Detect, CardMount, MountPosted, Pulse
<1>4. CASE WorkerProceeds
    BY <1>1, <1>4 DEF WorkerProceeds, WorkerAcquires, WorkerAcquired, WorkerReleased,
                      WorkerReports, WorkerGoes, WorkerOnly
<1>5. ASSUME NEW why \in {"Unknown", "User"}, WorkerReleases(why)
      PROVE  UNCHANGED <<control, rxBuf>> /\ WorkerAdvances
    BY <1>1, <1>5 DEF WorkerReleases, WorkerOnly
<1>6. ASSUME NEW c \in Callers,
             \/ CallerProceeds(c)
             \/ \E s \in Ports : ChoosePort(c, s) \/ SetLogging(c, s)
             \/ \E s \in Serials : CallDisable(c, s)
      PROVE  UNCHANGED <<control, rxBuf>> /\ WorkerAdvances
    BY <1>6 DEF CallerProceeds, CallEnable, Returned, CallSerial, SerialAnswered, ChoosePort,
                SetLogging, CallDisable, CallerOnly
<1> QED
    BY <1>2, <1>3, <1>4, <1>5, <1>6 DEF Next, WorkerStops, LinkBreaks

\* Every step keeps the buffer of a worker that runs, and joins one that ends, if the
\* report that is handled is fresh.
LEMMA BufferStep ==
    ASSUME Typed, ReportsAreFresh, RxBufferLives, JoinedEnds, [Next]_vars
    PROVE  RxBufferLives' /\ JoinedEnds'
<1> USE DEF RxBufferLives, JoinedEnds, ControlGoes, Finish, workerVars
<1>1. worker \in [at : {"none", "starting", "acquiring", "talking", "releasing",
                        "reporting", "ended"},
                  id : Ports, stop : BOOLEAN, why : {"Unknown", "User"}]
    BY DEF Typed, TypeOK
<1>2. CASE ~ControlStep
    BY <1>1, <1>2, OthersAdvance DEF WorkerAdvances, WorkerLives
<1>3. ASSUME NEW m, Handle(m),
             m.type = "ModuleDisconnected" /\ state = "Running" => worker.at = "ended"
      PROVE  RxBufferLives' /\ JoinedEnds'
    <2> USE DEF Join, Drop, Listen, ListenOn, Return
    <2>1. CASE HandleEnable(m)
        BY <2>1 DEF HandleEnable
    <2>2. CASE HandleDisable(m)
        BY <1>1, <2>2 DEF HandleDisable, EndPresentUse
    <2>3. CASE HandleSetListenSerial(m)
        BY <1>1, <2>3 DEF HandleSetListenSerial, EndPresentUse
    <2>4. CASE HandleModuleConnected(m)
        BY <2>4 DEF HandleModuleConnected
    <2>5. CASE HandleModuleDisconnected(m)
        BY <1>3, <2>5 DEF HandleModuleDisconnected
    <2> QED
        BY <1>3, <2>1, <2>2, <2>3, <2>4, <2>5 DEF Handle
<1>4. CASE ControlGets
    BY <1>3, <1>4 DEF ControlGets, ReportsAreFresh
<1>5. CASE ControlLoads
    BY <1>3, <1>5 DEF ControlLoads, Resolved, Message
<1>6. CASE ControlDropped
    BY <1>6 DEF ControlDropped, UseEnded, ListenOn, Listen, StartWorker, NoWorker
<1>7. CASE ControlJoined
    BY <1>7 DEF ControlJoined, UseEnded, ListenOn, Listen, NoWorker
<1>8. CASE ControlInstalled
    BY <1>8 DEF ControlInstalled
<1> QED
    BY <1>2, <1>4, <1>5, <1>6, <1>7, <1>8 DEF ControlStep

-----------------------------------------------------------------------------
(* Theorems *)

\* The inductive invariant: types, calls, and what the control thread believes.
ExpansionInv == Typed /\ Calls /\ ControlInv

\* expansion_alloc leaves the control thread idle, with nobody calling the serial control.
LEMMA InvInit == Init => ExpansionInv
<1> SUFFICES ASSUME Init PROVE ExpansionInv
    OBVIOUS
<1>1. serialQueue = <<>> /\ \A c \in Clients : answer[c] = "none"
    BY DEF Init, SerialInit
<1>2. Calls
    BY <1>1 DEF Calls, Called
<1>3. ControlInv
    BY DEF Init, SerialInit, NoWorker, ControlInv
<1> QED
    BY <1>2, <1>3, TypedInit DEF ExpansionInv

\* Every step of a thread, of the control thread or of an interrupt keeps the invariant.
LEMMA InvStep == ExpansionInv /\ [Next]_vars => ExpansionInv'
BY TypedStep, CallsStep, ControlInvStep DEF ExpansionInv

\* THEOREM: the calls of the serial control and the beliefs of the control thread
\* (expansion.c:83-193) are in order in every state.
THEOREM ExpansionInvariant == Spec => []ExpansionInv
BY InvInit, InvStep, PTL DEF Spec

\* THEOREM: queues, ports and threads keep their types.
THEOREM ExpansionTypes == Spec => []TypeOK
<1>1. ExpansionInv => TypeOK
    BY DEF ExpansionInv, Typed
<1> QED
    BY <1>1, ExpansionInvariant, PTL

\* THEOREM: whenever the control thread waits for a message, detection is installed on
\* its port exactly when it believes so, and a worker exists exactly when it believes so
\* (expansion.c:83-193).
THEOREM ControlAgrees == Spec => []StateAgrees
<1>1. ExpansionInv => StateAgrees
    BY DEF ExpansionInv, ControlInv, StateAgrees
<1> QED
    BY <1>1, ExpansionInvariant, PTL

\* THEOREM: no furi_check of the set-callback handler fails, whatever the order in which
\* threads, interrupts and the worker post their messages
\* (furi_hal_serial_control.c:199-204).
THEOREM CallbackChecksHold == Spec => []ChecksHold
<1>1. ExpansionInv => ChecksHold
    BY CheckHolds DEF ExpansionInv
<1> QED
    BY <1>1, ExpansionInvariant, PTL

\* THEOREM: the log is on its port exactly while nobody has acquired that port
\* (furi_hal_serial_control.c:121-188).
THEOREM LogGivesWay == Spec => []LogYieldsPort
<1>1. Init => LogYieldsPort
    BY DEF Init, SerialInit, LogYieldsPort
<1>2. Typed /\ LogYieldsPort /\ [Next]_vars => LogYieldsPort'
    BY LogStep
<1>3. ExpansionInv => Typed
    BY DEF ExpansionInv
<1> QED
    BY <1>1, <1>2, <1>3, ExpansionInvariant, PTL DEF Spec

\* THEOREM: a port in use belongs to the one thread that acquired it and has not given
\* it back, an application or the worker (furi_hal_serial_control.c:121-160).
THEOREM PortHasOneHolder == Spec => []OneHolder
<1>1. Init => Owners
    <2> SUFFICES ASSUME Init PROVE Owners
        OBVIOUS
    <2>1. \A c \in Callers : caller[c].at = "idle"
        BY DEF Init
    <2>2. worker.at = "none" /\ \A s \in Serials : ~inUse[s]
        BY DEF Init, SerialInit, NoWorker
    <2> QED
        BY <2>1, <2>2 DEF Owners, Holds, CallerHolds, WorkerHolds
<1>2. ExpansionInv /\ Owners /\ [Next]_vars => Owners'
    BY OwnersStep DEF ExpansionInv
<1> QED
    BY <1>1, <1>2, OwnersAreHolders, ExpansionInvariant, PTL DEF Spec

\* THEOREM: the buffer of a worker that runs is not freed, and only a worker that was
\* told to stop or has ended is joined, if no report of an earlier worker is handled while
\* a worker runs: what v_freed_buffer shows is the only way (expansion.c:185-190).
THEOREM OnlyLateReportsFreeBuffers ==
    Spec /\ []ReportsAreFresh => [](RxBufferLives /\ JoinedEnds)
<1>1. Init => RxBufferLives /\ JoinedEnds
    BY DEF Init, NoWorker, RxBufferLives, JoinedEnds
<1>2. Typed /\ ReportsAreFresh /\ RxBufferLives /\ JoinedEnds /\ [Next]_vars
         => RxBufferLives' /\ JoinedEnds'
    BY BufferStep
<1>3. ExpansionInv => Typed
    BY DEF ExpansionInv
<1> QED
    BY <1>1, <1>2, <1>3, ExpansionInvariant, PTL DEF Spec

=============================================================================
