------------------------------- MODULE KeTcp -------------------------------
(***************************************************************************)
(* One KBX100 input/output device as the Andon client holds it: the class  *)
(* KeTcpObject (src/shared_classes/ketcp_object) and, across a TCP         *)
(* connection, the device it talks to.                                     *)
(*                                                                         *)
(* Every slot of the class runs to completion in the Qt event loop, so     *)
(* each one is an action.  The socket, the three timers and the device     *)
(* interleave with them freely.  Time is abstracted to the order of the    *)
(* timers' firings.  The device is external: it is modelled as the class   *)
(* uses it, answering commands in the order they were sent.                *)
(***************************************************************************)
EXTENDS Naturals, Sequences

CONSTANTS
    Inputs,     \* the device's input lines
    MaxQueue    \* bound of TLC runs: no input changes while this many lines
                \* of the device are on their way

ASSUME QueueAssumption == MaxQueue \in Nat

VARIABLES
    cfg,           \* deviceIp, port, pass: which of them are set
    sock,          \* tcpSocket->state()
    connectTimer,  \* connectTimer is active
    sysTimeTimer,  \* sysTimeTimer is active: a time request is outstanding
    icsTimer,      \* icsTimer is active: inputs changed, code not yet stable
    timeKnown,     \* KeSysStart differs from the epoch
    inputsRead,    \* inputs is not empty
    inputs,        \* the set bits of inputs
    inputCode,     \* the set bits of inputCode
    readySig,      \* how often ready() was emitted in this session
    connectedSig,  \* connected() was emitted in this session
    toDev,         \* commands on their way to the device
    toKe,          \* lines of the device that are not processed yet
    devInputs,     \* the device: its input lines that are high
    devEvents      \* the device: it reports changes ($KE,EVT,ON)

objectVars == <<cfg, sock, connectTimer, sysTimeTimer, icsTimer, timeKnown,
                inputsRead, inputs, inputCode, readySig, connectedSig>>
vars == <<objectVars, toDev, toKe, devInputs, devEvents>>

Properties == {"deviceIp", "port", "pass"}
SocketStates == {"unconnected", "connecting", "connected"}
Commands == {"RD", "IMPL", "EVTON", "KE"}
Line == [type : {"INT", "OK", "EVTOK"}]
          \cup [type : {"RD"}, bits : SUBSET Inputs]
          \cup [type : {"EVT"}, input : Inputs, on : BOOLEAN]

Configured == cfg = Properties
Connected == sock = "connected"

TypeOK ==
    /\ cfg \in SUBSET Properties
    /\ sock \in SocketStates
    /\ connectTimer \in BOOLEAN
    /\ sysTimeTimer \in BOOLEAN
    /\ icsTimer \in BOOLEAN
    /\ timeKnown \in BOOLEAN
    /\ inputsRead \in BOOLEAN
    /\ inputs \in SUBSET Inputs
    /\ inputCode \in SUBSET Inputs
    /\ readySig \in Nat
    /\ connectedSig \in BOOLEAN
    /\ toDev \in Seq(Commands)
    /\ toKe \in Seq(Line)
    /\ devInputs \in SUBSET Inputs
    /\ devEvents \in BOOLEAN

Init ==
    /\ cfg = {}
    /\ sock = "unconnected"
    /\ connectTimer = FALSE
    /\ sysTimeTimer = FALSE
    /\ icsTimer = FALSE
    /\ timeKnown = FALSE
    /\ inputsRead = FALSE
    /\ inputs = {}
    /\ inputCode = {}
    /\ readySig = 0
    /\ connectedSig = FALSE
    /\ toDev = <<>>
    /\ toKe = <<>>
    /\ devInputs \in SUBSET Inputs
    /\ devEvents \in BOOLEAN

-----------------------------------------------------------------------------
(* Operations of the object *)

\* Mutant: connectTimer is never started.
StartConnectingUntimed(c, s, startTimer) ==
    /\ sock' = IF c = Properties /\ s = "unconnected" THEN "connecting" ELSE s
    /\ UNCHANGED connectTimer

\* startConnecting(startTimer), called with the properties c set and the socket
\* in state s: it does nothing before the object is configured or while a
\* connection attempt is running.
StartConnecting(c, s, startTimer) ==
    LET mayConnect == c = Properties /\ s # "connecting"
    IN  /\ sock' = IF mayConnect /\ s = "unconnected" THEN "connecting" ELSE s
        /\ connectTimer' = (connectTimer \/ (mayConnect /\ startTimer))

\* setDeviceIp, setPort, setPass: ignored while connected.
SetProperty(p) ==
    /\ ~Connected
    /\ cfg' = cfg \cup {p}
    /\ StartConnecting(cfg \cup {p}, sock, TRUE)
    /\ UNCHANGED <<sysTimeTimer, icsTimer, timeKnown, inputsRead, inputs,
                   inputCode, readySig, connectedSig,
                   toDev, toKe, devInputs, devEvents>>

\* connectTimer times out and stays active: startConnecting(false).
ConnectTimeout ==
    /\ connectTimer
    /\ StartConnecting(cfg, sock, FALSE)
    /\ UNCHANGED <<cfg, sysTimeTimer, icsTimer, timeKnown, inputsRead, inputs,
                   inputCode, readySig, connectedSig,
                   toDev, toKe, devInputs, devEvents>>

\* What refreshSysTime() sends: nothing while a request is outstanding.
TimeRequest == IF sysTimeTimer THEN <<>> ELSE <<"IMPL">>

\* Mutant: the time is requested before the inputs are read.
LoginCommandsSwapped == TimeRequest \o <<"RD", "KE">>

\* The commands the connected slot sends, in its order.
LoginCommands == <<"RD">> \o TimeRequest \o <<"KE">>

\* The socket's connected signal.
SocketConnected ==
    /\ sock = "connecting"
    /\ sock' = "connected"
    /\ connectTimer' = FALSE
    /\ toDev' = LoginCommands
    /\ sysTimeTimer' = TRUE
    /\ UNCHANGED <<cfg, icsTimer, timeKnown, inputsRead, inputs, inputCode,
                   readySig, connectedSig, toKe, devInputs, devEvents>>

\* A connection attempt fails.  The class has no slot for the socket's errors.
ConnectFails ==
    /\ sock = "connecting"
    /\ sock' = "unconnected"
    /\ UNCHANGED <<cfg, connectTimer, sysTimeTimer, icsTimer, timeKnown,
                   inputsRead, inputs, inputCode, readySig, connectedSig,
                   toDev, toKe, devInputs, devEvents>>

\* initIO().
InitIO == inputsRead' = FALSE /\ inputs' = {} /\ inputCode' = {}

\* The socket's disconnected signal, with everything in flight lost.  The device
\* keeps reporting changes to the next connection unless it was restarted.
\* No timer of the object is stopped.
SocketDisconnected ==
    /\ Connected
    /\ timeKnown' = FALSE
    /\ InitIO
    /\ StartConnecting(cfg, "unconnected", TRUE)
    /\ readySig' = 0
    /\ connectedSig' = FALSE
    /\ toDev' = <<>>
    /\ toKe' = <<>>
    /\ devEvents' \in {FALSE, devEvents}
    /\ UNCHANGED <<cfg, sysTimeTimer, icsTimer, devInputs>>

-----------------------------------------------------------------------------
(* actResps(): one action per kind of line *)

\* The next line of the device is of this type.
Receive(type) ==
    /\ Connected
    /\ toKe # <<>>
    /\ Head(toKe).type = type
    /\ toKe' = Tail(toKe)

\* Mutant: ready() without its condition.
EmitAlways(time, read) == readySig' = readySig + 1

\* Mutant: the condition is evaluated before KeSysStart is assigned.
EmitTooEarly(time, read) ==
    readySig' = IF timeKnown /\ read THEN readySig + 1 ELSE readySig

\* emitIfReady(), called in a state where time and inputs are as given.
EmitIfReady(time, read) ==
    readySig' = IF time /\ read THEN readySig + 1 ELSE readySig

\* Mutant: the code is computed from the inputs before the change.
InputsChangedStale(b) == icsTimer' = TRUE /\ inputCode' = inputs

\* The inputsChanged signal for the inputs b: watchCodesStart's slot restarts
\* icsTimer and recomputes inputCode.
InputsChanged(b) == icsTimer' = TRUE /\ inputCode' = b

\* "#OK", the answer to the bare "$KE" that ends the login.
RecvOK ==
    /\ Receive("OK")
    /\ connectedSig' = TRUE
    /\ UNCHANGED <<cfg, sock, connectTimer, sysTimeTimer, icsTimer, timeKnown,
                   inputsRead, inputs, inputCode, readySig,
                   toDev, devInputs, devEvents>>

\* "#EVT,OK": no branch of case 15 takes it.
RecvEvtOK ==
    /\ Receive("EVTOK")
    /\ UNCHANGED <<objectVars, toDev, devInputs, devEvents>>

\* "#RD,...": every bit that differs is toggled and reported, and the first
\* reading of a session may complete it.
RecvRD ==
    /\ Receive("RD")
    /\ LET bits == Head(toKe).bits IN
       /\ inputs' = bits
       /\ IF bits = inputs THEN UNCHANGED <<icsTimer, inputCode>>
                           ELSE InputsChanged(bits)
    /\ inputsRead' = TRUE
    /\ IF inputsRead THEN UNCHANGED readySig ELSE EmitIfReady(timeKnown, TRUE)
    /\ UNCHANGED <<cfg, sock, connectTimer, sysTimeTimer, timeKnown,
                   connectedSig, toDev, devInputs, devEvents>>

\* "#INT,..." and setSysTime(): the first time of a session turns event
\* reporting on (sysTimeWrited) and may complete it.
RecvTime ==
    /\ Receive("INT")
    /\ timeKnown' = TRUE
    /\ sysTimeTimer' = FALSE
    /\ IF timeKnown
         THEN UNCHANGED <<toDev, readySig>>
         ELSE /\ toDev' = Append(toDev, "EVTON")
              /\ EmitIfReady(TRUE, inputsRead)
    /\ UNCHANGED <<cfg, sock, connectTimer, icsTimer, inputsRead, inputs,
                   inputCode, connectedSig, devInputs, devEvents>>

\* Mutant: the device counts its inputs from 1 and the code does not subtract 1.
WithEventShifted(m) ==
    IF inputsRead /\ m.on THEN inputs \cup {m.input + 1} ELSE inputs

\* Mutant: falling edges are ignored.
WithEventRising(m) ==
    IF inputsRead /\ m.on THEN inputs \cup {m.input} ELSE inputs

\* inputs after the event m; an event before the first reading is dropped.
WithEvent(m) ==
    IF ~inputsRead THEN inputs
    ELSE IF m.on THEN inputs \cup {m.input} ELSE inputs \ {m.input}

\* The time of an event cannot be trusted: no system time yet, or the event's
\* stamp is more than 5 s off (late).
TimeDoubtful(late) == ~timeKnown \/ late

\* "#EVT,IN,..." while the clocks agree: a live change.  setSysTime() of an event
\* 3 to 5 s off moves KeSysStart and nothing else.
RecvEventLive ==
    /\ ~TimeDoubtful(FALSE) /\ ~sysTimeTimer
    /\ Receive("EVT")
    /\ LET b == WithEvent(Head(toKe)) IN inputs' = b /\ InputsChanged(b)
    /\ UNCHANGED <<cfg, sock, connectTimer, sysTimeTimer, timeKnown,
                   inputsRead, readySig, connectedSig,
                   toDev, devInputs, devEvents>>

\* "#EVT,IN,..." while the system time is being requested, or that makes
\* refreshSysTime() request it: only inputsWasChanged is emitted.
RecvEventPast(late) ==
    /\ TimeDoubtful(late) \/ sysTimeTimer
    /\ Receive("EVT")
    /\ inputs' = WithEvent(Head(toKe))
    /\ IF TimeDoubtful(late)
         THEN sysTimeTimer' = TRUE /\ toDev' = toDev \o TimeRequest
         ELSE UNCHANGED <<sysTimeTimer, toDev>>
    /\ UNCHANGED <<cfg, sock, connectTimer, icsTimer, timeKnown, inputsRead,
                   inputCode, readySig, connectedSig, devInputs, devEvents>>

\* Mutant: icsTimer is not single-shot.
CodeTimeoutRepeats ==
    /\ icsTimer
    /\ UNCHANGED vars

\* icsTimer, single-shot, times out: inputCodeChanged(inputCode), and a production
\* record in the database when the code is not 0.
CodeTimeout ==
    /\ icsTimer
    /\ icsTimer' = FALSE
    /\ UNCHANGED <<cfg, sock, connectTimer, sysTimeTimer, timeKnown, inputsRead,
                   inputs, inputCode, readySig, connectedSig,
                   toDev, toKe, devInputs, devEvents>>

-----------------------------------------------------------------------------
(* The device (external) *)

\* The device's answer to a command.
Answer(c) ==
    CASE c = "RD"    -> [type |-> "RD", bits |-> devInputs]
      [] c = "IMPL"  -> [type |-> "INT"]
      [] c = "EVTON" -> [type |-> "EVTOK"]
      [] c = "KE"    -> [type |-> "OK"]

\* The device takes the next command and answers it.
DeviceAnswers ==
    /\ Connected
    /\ toDev # <<>>
    /\ toDev' = Tail(toDev)
    /\ toKe' = Append(toKe, Answer(Head(toDev)))
    /\ devEvents' = (devEvents \/ Head(toDev) = "EVTON")
    /\ UNCHANGED <<objectVars, devInputs>>

\* An input line changes; a device that reports changes sends a line.
DeviceInput(i) ==
    /\ Len(toKe) < MaxQueue
    /\ devInputs' = IF i \in devInputs THEN devInputs \ {i} ELSE devInputs \cup {i}
    /\ toKe' = IF Connected /\ devEvents
                 THEN Append(toKe, [type |-> "EVT", input |-> i, on |-> i \notin devInputs])
                 ELSE toKe
    /\ UNCHANGED <<objectVars, toDev, devEvents>>

-----------------------------------------------------------------------------
Next ==
    \/ \E p \in Properties : SetProperty(p)
    \/ ConnectTimeout
    \/ SocketConnected
    \/ ConnectFails
    \/ SocketDisconnected
    \/ RecvOK
    \/ RecvEvtOK
    \/ RecvRD
    \/ RecvTime
    \/ RecvEventLive
    \/ \E late \in BOOLEAN : RecvEventPast(late)
    \/ CodeTimeout
    \/ DeviceAnswers
    \/ \E i \in Inputs : DeviceInput(i)

Spec == Init /\ [][Next]_vars
-----------------------------------------------------------------------------
(* Fairness: the Qt event loop serves every timer that is due, every line the  *)
(* socket has and every outcome of a connection attempt; the device answers;   *)
(* and attempts that are repeated for ever do not fail for ever.               *)
Receives ==
    \/ RecvOK \/ RecvEvtOK \/ RecvRD \/ RecvTime \/ RecvEventLive
    \/ \E late \in BOOLEAN : RecvEventPast(late)

Fairness ==
    /\ WF_vars(ConnectTimeout)
    /\ WF_vars(SocketConnected \/ ConnectFails)
    /\ SF_vars(SocketConnected)
    /\ WF_vars(Receives)
    /\ WF_vars(DeviceAnswers)
    /\ WF_vars(CodeTimeout)

FairSpec == Spec /\ Fairness

-----------------------------------------------------------------------------
(* Properties *)

\* A configured device that is not connected has the reconnect timer running,
\* whatever attempts failed and whenever the connection was lost: connectTimer
\* is stopped only by the connected slot and the socket's errors have no slot.
NeverStuck == Configured /\ ~Connected => connectTimer

\* ready() is emitted exactly once in a session, at the moment the second of its
\* two conditions (system time, first reading) is met, whichever slot meets it.
ReadyOnce == readySig = IF timeKnown /\ inputsRead THEN 1 ELSE 0

\* The inputs are read before the system time is set and before connected() is
\* emitted: no change is taken as live over an empty inputs array, whose code
\* watchCodesStart would read beyond the array's end.
LoginOrder == timeKnown \/ connectedSig => inputsRead

\* A code that would be recorded as a produced part belongs to the running
\* session: icsTimer survives a lost connection, its code must not.
CodeOfThisSession == inputCode # {} => Connected /\ inputsRead

\* What a session is worth, over every order of settings, failures, losses and lines:
\* the device comes back, logs in in order, is announced once, and its codes are its own.
SessionSafe == NeverStuck /\ ReadyOnce /\ LoginOrder /\ CodeOfThisSession

Session ==
    INSTANCE KeSession WITH Codes <- SUBSET Inputs, NoCode <- {},
                            up <- Connected, announced <- readySig = 1,
                            code <- inputCode, waiting <- icsTimer

\* The object implements what KeSession promises to its listeners: the signals
\* connected, ready, inputCodeChanged and disconnected come in a legal order.
ImplementsSession == Session!Spec

\* A configured device is connected again after every loss.
Reconnects == Configured ~> Connected

\* The time request of this session is on its way, or its answer is.
TimeAsked ==
    \/ \E k \in 1..Len(toDev) : toDev[k] = "IMPL"
    \/ \E k \in 1..Len(toKe) : toKe[k].type = "INT"

\* A session that asked for the system time becomes ready unless it is lost.
AskedBecomesReady == Connected /\ TimeAsked ~> readySig = 1 \/ ~Connected

\* Every session becomes ready unless it is lost.  The code breaks this: a
\* connection lost with a time request outstanding leaves sysTimeTimer active,
\* and refreshSysTime() then sends nothing in any later session.
SessionBecomesReady == Connected ~> readySig = 1 \/ ~Connected
=============================================================================
