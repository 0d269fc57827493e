---------------------------- MODULE KeTcp_proofs ----------------------------
(***************************************************************************)
(* Proofs about KeTcp for every set of inputs and every queue bound.  The   *)
(* inductive invariant says, beside the types, when the reconnect timer     *)
(* must run (TimerInv), what an object without a connection holds, and that *)
(* the answer to "RD" is ahead of everything that could complete a login    *)
(* (SessionInv).  The refinement of KeSession rests on SessionInv too.      *)
(* What MCKeTcp says of the object and the device together needs their     *)
(* history: RecordInv counts the readings and events on their way, and      *)
(* MirrorInv says how they will bring each input up to its line.           *)
(***************************************************************************)
EXTENDS MCKeTcp, SequenceTheorems, FunctionTheorems, FiniteSetTheorems, TLAPS

\* The reconnect timer runs whenever it is the only way back.
TimerInv ==
    /\ sock # "unconnected" => Configured
    /\ NeverStuck

\* An object that is not connected keeps nothing of its last session.
ForgottenInv ==
    ~Connected => /\ ~timeKnown /\ ~inputsRead /\ ~connectedSig
                  /\ readySig = 0

\* Before the first reading of a session its "RD" leads: either it is the next
\* command the device takes, and the device has sent nothing but events, or its
\* answer is on the way with nothing but events ahead of it.
ReadLeads ==
    \/ /\ toDev # <<>> /\ Head(toDev) = "RD"
       /\ \A k \in 1..Len(toKe) : toKe[k].type = "EVT"
    \/ \E k \in 1..Len(toKe) :
          /\ toKe[k].type = "RD"
          /\ \A j \in 1..(k - 1) : toKe[j].type = "EVT"

OrderInv ==
    /\ LoginOrder
    /\ Connected /\ ~inputsRead => ReadLeads
    /\ ~inputsRead => inputs = {} /\ inputCode = {}
    /\ ~Connected => toKe = <<>>

SessionInv == ForgottenInv /\ OrderInv /\ ReadyOnce

-----------------------------------------------------------------------------
(* Type correctness *)

\* Answer() is a line for every command.
LEMMA AnswerType ==
    ASSUME TypeOK, NEW c \in Commands
    PROVE  /\ Answer(c) \in Line
           /\ Answer(c).type # "EVT"
           /\ Answer(c).type = "RD" <=> c = "RD"
  BY DEF Answer, Line, Commands, TypeOK

\* What the connected slot and refreshSysTime() send are commands, and "RD" is the
\* first of a login.
LEMMA CommandsSent ==
    ASSUME TypeOK
    PROVE  /\ TimeRequest \in Seq(Commands)
           /\ LoginCommands \in Seq(Commands)
           /\ LoginCommands # <<>> /\ Head(LoginCommands) = "RD"
<1>1. TimeRequest \in Seq(Commands)
  <2>1. <<>> \in Seq(Commands) /\ <<"IMPL">> \in Seq(Commands)
    BY EmptySeq DEF Commands
  <2>2. QED
    BY <2>1 DEF TimeRequest
<1>2. <<"RD">> \in Seq(Commands) /\ <<"KE">> \in Seq(Commands)
  BY DEF Commands
<1>3. /\ <<"RD">> \o TimeRequest \in Seq(Commands)
      /\ Len(<<"RD">> \o TimeRequest) = 1 + Len(TimeRequest)
      /\ (<<"RD">> \o TimeRequest)[1] = "RD"
      /\ Len(TimeRequest) \in Nat
  <2>1. Len(<<"RD">>) = 1 /\ <<"RD">>[1] = "RD" /\ Len(TimeRequest) \in Nat
    BY <1>1
  <2>2. 1 \in 1..(1 + Len(TimeRequest))
    BY <2>1
  <2>3. QED
    BY <1>1, <1>2, <2>1, <2>2, ConcatProperties
<1>4. /\ LoginCommands \in Seq(Commands)
      /\ Len(LoginCommands) = 2 + Len(TimeRequest)
      /\ LoginCommands[1] = "RD"
  <2> DEFINE q == <<"RD">> \o TimeRequest
  <2>1. Len(<<"KE">>) = 1
    OBVIOUS
  <2> HIDE DEF q
  <2>2. /\ q \in Seq(Commands)
        /\ Len(q) = 1 + Len(TimeRequest) /\ q[1] = "RD" /\ Len(TimeRequest) \in Nat
    BY <1>3 DEF q
  <2>3. 1 \in 1..(Len(q) + Len(<<"KE">>)) /\ 1 <= Len(q)
    BY <2>1, <2>2
  <2>4. /\ q \o <<"KE">> \in Seq(Commands)
        /\ Len(q \o <<"KE">>) = Len(q) + 1
        /\ (q \o <<"KE">>)[1] = q[1]
    BY <1>2, <2>1, <2>2, <2>3, ConcatProperties
  <2>5. LoginCommands = q \o <<"KE">>
    BY DEF LoginCommands, q
  <2>6. QED
    BY <2>2, <2>4, <2>5
<1>5. QED
  BY <1>1, <1>3, <1>4, EmptySeq

\* Every event leaves a set of inputs.
LEMMA WithEventType ==
    ASSUME TypeOK, NEW m \in Line, m.type = "EVT"
    PROVE  WithEvent(m) \in SUBSET Inputs
<1>1. m.input \in Inputs
  BY DEF Line
<1>2. QED
  BY <1>1 DEF WithEvent, TypeOK

\* A line that is received is taken from the front of toKe.
LEMMA ReceiveType ==
    ASSUME TypeOK, NEW type, Receive(type)
    PROVE  /\ Connected
           /\ toKe # <<>> /\ toKe' = Tail(toKe)
           /\ toKe' \in Seq(Line)
           /\ Head(toKe) \in Line
           /\ Head(toKe).type = type
  BY HeadTailProperties DEF Receive, TypeOK

\* The variables have their types in every reachable state.
THEOREM TypeCorrect == Spec => []TypeOK
<1>1. Init => TypeOK
  <2> SUFFICES ASSUME Init PROVE TypeOK
    OBVIOUS
  <2>1. toDev = <<>> /\ toKe = <<>>
    BY DEF Init
  <2>2. toDev \in Seq(Commands)
    BY <2>1, EmptySeq
  <2>3. toKe \in Seq(Line)
    BY <2>1, EmptySeq
  <2>4. QED
    BY <2>2, <2>3 DEF Init, TypeOK, SocketStates
<1>2. TypeOK /\ [Next]_vars => TypeOK'
  <2> SUFFICES ASSUME TypeOK, [Next]_vars PROVE TypeOK'
    OBVIOUS
  <2> USE DEF TypeOK
  <2>1. ASSUME NEW p \in Properties, SetProperty(p) PROVE TypeOK'
    BY <2>1 DEF SetProperty, StartConnecting, SocketStates
  <2>2. CASE ConnectTimeout
    BY <2>2 DEF ConnectTimeout, StartConnecting, SocketStates
  <2>3. CASE SocketConnected
    BY <2>3, CommandsSent DEF SocketConnected, SocketStates
  <2>4. CASE ConnectFails
    BY <2>4 DEF ConnectFails, SocketStates
  <2>5. CASE SocketDisconnected
    BY <2>5, EmptySeq DEF SocketDisconnected, StartConnecting, InitIO, SocketStates
  <2>6. CASE RecvOK
    BY <2>6, ReceiveType DEF RecvOK
  <2>7. CASE RecvEvtOK
    BY <2>7, ReceiveType DEF RecvEvtOK, objectVars
  <2>8. CASE RecvRD
    <3>1. Receive("RD")
      BY <2>8 DEF RecvRD
    <3>2. toKe' \in Seq(Line) /\ Head(toKe).bits \in SUBSET Inputs
      <4>1. toKe' \in Seq(Line) /\ Head(toKe) \in Line /\ Head(toKe).type = "RD"
        BY <3>1, ReceiveType
      <4>2. QED
        BY <4>1 DEF Line
    <3>3. inputs' \in SUBSET Inputs /\ inputCode' \in SUBSET Inputs /\ icsTimer' \in BOOLEAN
      BY <2>8, <3>2 DEF RecvRD, InputsChanged
    <3>4. readySig' \in Nat
      BY <2>8 DEF RecvRD, EmitIfReady
    <3>5. QED
      BY <2>8, <3>2, <3>3, <3>4 DEF RecvRD
  <2>9. CASE RecvTime
    <3>1. toKe' \in Seq(Line)
      BY <2>9, ReceiveType DEF RecvTime
    <3>2. toDev' \in Seq(Commands)
      BY <2>9, AppendProperties DEF RecvTime, Commands
    <3>3. readySig' \in Nat
      BY <2>9 DEF RecvTime, EmitIfReady
    <3>4. QED
      BY <2>9, <3>1, <3>2, <3>3 DEF RecvTime
  <2>10. CASE RecvEventLive
    <3>1. Receive("EVT")
      BY <2>10 DEF RecvEventLive
    <3>2. toKe' \in Seq(Line) /\ WithEvent(Head(toKe)) \in SUBSET Inputs
      BY <3>1, ReceiveType, WithEventType
    <3>3. QED
      BY <2>10, <3>2 DEF RecvEventLive, InputsChanged
  <2>11. ASSUME NEW late \in BOOLEAN, RecvEventPast(late) PROVE TypeOK'
    <3>1. Receive("EVT")
      BY <2>11 DEF RecvEventPast
    <3>2. toKe' \in Seq(Line) /\ WithEvent(Head(toKe)) \in SUBSET Inputs
      BY <3>1, ReceiveType, WithEventType
    <3>3. toDev \o TimeRequest \in Seq(Commands)
      BY CommandsSent, ConcatProperties
    <3>4. sysTimeTimer' \in BOOLEAN /\ toDev' \in Seq(Commands)
      BY <2>11, <3>3 DEF RecvEventPast
    <3>5. QED
      BY <2>11, <3>2, <3>4 DEF RecvEventPast
  <2>12. CASE CodeTimeout
    BY <2>12 DEF CodeTimeout
  <2>13. CASE DeviceAnswers
    <3>1. /\ Head(toDev) \in Commands /\ Tail(toDev) \in Seq(Commands)
      BY <2>13, HeadTailProperties DEF DeviceAnswers
    <3>2. Append(toKe, Answer(Head(toDev))) \in Seq(Line)
      BY <3>1, AnswerType, AppendProperties
    <3>3. QED
      BY <2>13, <3>1, <3>2 DEF DeviceAnswers, objectVars
  <2>14. ASSUME NEW i \in Inputs, DeviceInput(i) PROVE TypeOK'
    <3>1. [type |-> "EVT", input |-> i, on |-> i \notin devInputs] \in Line
      BY DEF Line
    <3>2. toKe' \in Seq(Line)
      BY <2>14, <3>1, AppendProperties DEF DeviceInput
    <3>3. QED
      BY <2>14, <3>2 DEF DeviceInput, objectVars
  <2>15. CASE UNCHANGED vars
    BY <2>15 DEF vars, objectVars
  <2>16. QED
    BY <2>1, <2>2, <2>3, <2>4, <2>5, <2>6, <2>7, <2>8, <2>9, <2>10, <2>11, <2>12,
       <2>13, <2>14, <2>15 DEF Next
<1>3. QED
  BY <1>1, <1>2, PTL DEF Spec

-----------------------------------------------------------------------------
(* Safety *)

\* The steps that neither open nor close a connection.
LocalStep ==
    \/ Receives
    \/ CodeTimeout
    \/ DeviceAnswers
    \/ \E i \in Inputs : DeviceInput(i)

\* They leave what the reconnect timer depends on alone.
LEMMA LocalStepFrame ==
    ASSUME LocalStep PROVE UNCHANGED <<cfg, sock, connectTimer>>
  BY DEF LocalStep, Receives, RecvOK, RecvEvtOK, RecvRD, RecvTime, RecvEventLive,
         RecvEventPast, CodeTimeout, DeviceAnswers, DeviceInput, objectVars

\* A step is one that concerns the connection or a local one.
LEMMA StepCases ==
    ASSUME Next
    PROVE  \/ \E p \in Properties : SetProperty(p)
           \/ ConnectTimeout \/ SocketConnected \/ ConnectFails \/ SocketDisconnected
           \/ LocalStep
  BY DEF Next, LocalStep, Receives

\* Every step keeps the reconnect timer running where it is needed.
LEMMA TimerStep ==
    ASSUME TypeOK, TimerInv, [Next]_vars PROVE TimerInv'
<1> USE DEF TimerInv, NeverStuck, Configured, Connected, TypeOK
<1>1. ASSUME NEW p \in Properties, SetProperty(p) PROVE TimerInv'
  <2>1. cfg \cup {p} = Properties \/ cfg \cup {p} # Properties
    OBVIOUS
  <2>2. cfg = Properties => cfg \cup {p} = Properties
    OBVIOUS
  <2>3. QED
    BY <1>1, <2>1, <2>2 DEF SetProperty, StartConnecting, SocketStates
<1>2. CASE ConnectTimeout
  BY <1>2 DEF ConnectTimeout, StartConnecting, SocketStates
<1>3. CASE SocketConnected
  BY <1>3 DEF SocketConnected
<1>4. CASE ConnectFails
  BY <1>4 DEF ConnectFails
<1>5. CASE SocketDisconnected
  BY <1>5 DEF SocketDisconnected, StartConnecting
<1>6. CASE LocalStep
  BY <1>6, LocalStepFrame
<1>7. CASE UNCHANGED vars
  BY <1>7 DEF vars, objectVars
<1>8. QED
  BY <1>1, <1>2, <1>3, <1>4, <1>5, <1>6, <1>7, StepCases

\* A configured device that is not connected has the reconnect timer running.
THEOREM NeverStuckHolds == Spec => []NeverStuck
<1>1. Init => TimerInv
  BY DEF Init, TimerInv, NeverStuck, Configured, Connected, Properties
<1>2. TypeOK /\ TimerInv /\ [Next]_vars => TimerInv'
  BY TimerStep
<1>3. TimerInv => NeverStuck
  BY DEF TimerInv
<1>4. QED
  BY <1>1, <1>2, <1>3, TypeCorrect, PTL DEF Spec

\* While "RD" leads, the line received next is an event or the answer to "RD".
LEMMA LeadingLine ==
    ASSUME TypeOK, ReadLeads, toKe # <<>>
    PROVE  /\ Head(toKe) = toKe[1] /\ Len(toKe) \in Nat /\ Len(toKe) >= 1
           /\ Head(toKe).type \in {"EVT", "RD"}
<1>1. Head(toKe) = toKe[1] /\ Len(toKe) \in Nat /\ Len(toKe) >= 1
  BY EmptySeq DEF TypeOK
<1>2. CASE \A k \in 1..Len(toKe) : toKe[k].type = "EVT"
  BY <1>1, <1>2
<1>3. CASE \E k \in 1..Len(toKe) : /\ toKe[k].type = "RD"
                                  /\ \A j \in 1..(k - 1) : toKe[j].type = "EVT"
  <2>1. PICK k \in 1..Len(toKe) : /\ toKe[k].type = "RD"
                                  /\ \A j \in 1..(k - 1) : toKe[j].type = "EVT"
    BY <1>3
  <2>2. k = 1 \/ 1 \in 1..(k - 1)
    BY <1>1, <2>1
  <2>3. QED
    BY <1>1, <2>1, <2>2
<1>4. QED
  BY <1>1, <1>2, <1>3 DEF ReadLeads

\* Taking an event, and sending more commands behind "RD", keeps it leading.
LEMMA LeadAfterEvent ==
    ASSUME TypeOK, ReadLeads, toKe # <<>>, Head(toKe).type = "EVT", toKe' = Tail(toKe),
           toDev # <<>> => toDev' # <<>> /\ Head(toDev') = Head(toDev)
    PROVE  ReadLeads'
<1>1. /\ Len(toKe') = Len(toKe) - 1 /\ Len(toKe) \in Nat
      /\ \A k \in 1..Len(toKe') : toKe'[k] = toKe[k + 1]
  BY HeadTailProperties, LeadingLine DEF TypeOK
<1>2. CASE /\ toDev # <<>> /\ Head(toDev) = "RD"
           /\ \A k \in 1..Len(toKe) : toKe[k].type = "EVT"
  <2>1. \A k \in 1..Len(toKe') : toKe'[k].type = "EVT"
    <3>1. \A k \in 1..Len(toKe') : k + 1 \in 1..Len(toKe)
      BY <1>1
    <3>2. QED
      BY <1>1, <1>2, <3>1
  <2>2. QED
    BY <1>2, <2>1 DEF ReadLeads
<1>3. CASE \E k \in 1..Len(toKe) : /\ toKe[k].type = "RD"
                                  /\ \A j \in 1..(k - 1) : toKe[j].type = "EVT"
  <2>1. PICK k \in 1..Len(toKe) : /\ toKe[k].type = "RD"
                                  /\ \A j \in 1..(k - 1) : toKe[j].type = "EVT"
    BY <1>3
  <2>2. k # 1
    BY <2>1, LeadingLine
  <2>3. k - 1 \in 1..Len(toKe') /\ toKe'[k - 1] = toKe[k]
    BY <1>1, <2>1, <2>2
  <2>4. ASSUME NEW j \in 1..((k - 1) - 1) PROVE toKe'[j].type = "EVT"
    <3>1. j \in 1..Len(toKe') /\ j + 1 \in 1..(k - 1)
      BY <1>1, <2>1
    <3>2. QED
      BY <1>1, <2>1, <3>1
  <2>5. QED
    BY <2>1, <2>3, <2>4 DEF ReadLeads
<1>4. QED
  BY <1>2, <1>3 DEF ReadLeads

\* A line sent behind the answer to "RD", an event, or that answer itself keep
\* it leading.
LEMMA LeadAfterSend ==
    ASSUME TypeOK, ReadLeads, NEW m \in Line, toKe' = Append(toKe, m),
           \/ toDev' = toDev /\ m.type = "EVT"
           \/ toDev # <<>> /\ (Head(toDev) = "RD" => m.type = "RD")
    PROVE  ReadLeads'
<1>1. /\ Len(toKe') = Len(toKe) + 1 /\ Len(toKe) \in Nat
      /\ \A k \in 1..Len(toKe) : toKe'[k] = toKe[k]
      /\ toKe'[Len(toKe) + 1] = m
  BY AppendProperties, LenProperties DEF TypeOK
<1>2. CASE \E k \in 1..Len(toKe) : /\ toKe[k].type = "RD"
                                  /\ \A j \in 1..(k - 1) : toKe[j].type = "EVT"
  <2>1. PICK k \in 1..Len(toKe) : /\ toKe[k].type = "RD"
                                  /\ \A j \in 1..(k - 1) : toKe[j].type = "EVT"
    BY <1>2
  <2>2. k \in 1..Len(toKe') /\ \A j \in 1..(k - 1) : j \in 1..Len(toKe)
    BY <1>1, <2>1
  <2>3. QED
    BY <1>1, <2>1, <2>2 DEF ReadLeads
<1>3. CASE /\ toDev # <<>> /\ Head(toDev) = "RD"
           /\ \A k \in 1..Len(toKe) : toKe[k].type = "EVT"
  <2>1. CASE m.type = "RD"
    <3>1. /\ Len(toKe) + 1 \in 1..Len(toKe')
          /\ \A j \in 1..((Len(toKe) + 1) - 1) : toKe'[j].type = "EVT"
      BY <1>1, <1>3
    <3>2. QED
      BY <1>1, <2>1, <3>1 DEF ReadLeads
  <2>2. CASE m.type = "EVT" /\ toDev' = toDev
    <3>1. \A k \in 1..Len(toKe') : k \in 1..Len(toKe) \/ k = Len(toKe) + 1
      BY <1>1
    <3>2. \A k \in 1..Len(toKe') : toKe'[k].type = "EVT"
      BY <1>1, <1>3, <2>2, <3>1
    <3>3. QED
      BY <1>3, <2>2, <3>2 DEF ReadLeads
  <2>3. QED
    BY <1>3, <2>1, <2>2
<1>4. QED
  BY <1>2, <1>3 DEF ReadLeads

\* Every step keeps the order of a login and the single ready().
LEMMA SessionStep ==
    ASSUME TypeOK, SessionInv, [Next]_vars PROVE SessionInv'
<1> USE DEF SessionInv, ForgottenInv, OrderInv, ReadyOnce, LoginOrder, Connected
<1> DEFINE session == <<timeKnown, inputsRead, inputs, inputCode, readySig,
                        connectedSig, toDev, toKe>>
<1>1. ASSUME NEW p \in Properties, SetProperty(p) PROVE SessionInv'
  <2>1. UNCHANGED session /\ ~Connected /\ ~Connected'
    BY <1>1 DEF SetProperty, StartConnecting
  <2>2. QED
    BY <2>1
<1>2. CASE ConnectTimeout
  <2>1. UNCHANGED session /\ (Connected' <=> Connected)
    BY <1>2 DEF ConnectTimeout, StartConnecting
  <2>2. QED
    BY <2>1 DEF ReadLeads
<1>3. CASE SocketConnected
  <2>1. toDev' # <<>> /\ Head(toDev') = "RD" /\ toKe' = <<>> /\ ~Connected
    BY <1>3, CommandsSent DEF SocketConnected
  <2>2. ReadLeads'
    <3>1. Len(toKe') = 0
      BY <2>1, EmptySeq
    <3>2. \A k \in 1..Len(toKe') : toKe'[k].type = "EVT"
      BY <3>1
    <3>3. QED
      BY <2>1, <3>2 DEF ReadLeads
  <2>3. QED
    BY <1>3, <2>1, <2>2 DEF SocketConnected
<1>4. CASE ConnectFails
  <2>1. UNCHANGED session /\ ~Connected /\ ~Connected'
    BY <1>4 DEF ConnectFails
  <2>2. QED
    BY <2>1
<1>5. CASE SocketDisconnected
  <2>1. ~Connected' /\ ~timeKnown' /\ ~connectedSig'
    BY <1>5 DEF SocketDisconnected, StartConnecting
  <2>2. QED
    BY <1>5, <2>1 DEF SocketDisconnected, InitIO
<1>6. CASE RecvOK
  <2>1. Connected /\ toKe # <<>> /\ Head(toKe).type = "OK"
    BY <1>6 DEF RecvOK, Receive
  <2>2. inputsRead
    BY <2>1, LeadingLine
  <2>3. QED
    BY <1>6, <2>1, <2>2 DEF RecvOK
<1>7. CASE RecvEvtOK
  <2>1. Connected /\ toKe # <<>> /\ Head(toKe).type = "EVTOK"
    BY <1>7 DEF RecvEvtOK, Receive
  <2>2. inputsRead
    BY <2>1, LeadingLine
  <2>3. QED
    BY <1>7, <2>1, <2>2 DEF RecvEvtOK, objectVars
<1>8. CASE RecvRD
  <2>1. Connected /\ Connected'
    BY <1>8 DEF RecvRD, Receive
  <2>2. inputsRead'
    BY <1>8 DEF RecvRD
  <2>3. ReadyOnce'
    BY <1>8 DEF RecvRD, EmitIfReady, TypeOK
  <2>4. QED
    BY <1>8, <2>1, <2>2, <2>3 DEF RecvRD
<1>9. CASE RecvTime
  <2>1. Connected /\ Connected' /\ toKe # <<>> /\ Head(toKe).type = "INT"
    BY <1>9 DEF RecvTime, Receive
  <2>2. inputsRead
    BY <2>1, LeadingLine
  <2>3. inputsRead' /\ timeKnown'
    BY <1>9, <2>2 DEF RecvTime
  <2>4. ReadyOnce'
    BY <1>9, <2>2 DEF RecvTime, EmitIfReady, TypeOK
  <2>5. QED
    BY <2>1, <2>3, <2>4
<1>10. CASE RecvEventLive
  <2>1. Connected /\ Connected' /\ inputsRead /\ inputsRead'
    BY <1>10 DEF RecvEventLive, Receive, TimeDoubtful
  <2>2. QED
    BY <1>10, <2>1 DEF RecvEventLive
<1>11. ASSUME NEW late \in BOOLEAN, RecvEventPast(late) PROVE SessionInv'
  <2>1. /\ Connected /\ Connected'
        /\ toKe # <<>> /\ Head(toKe).type = "EVT" /\ toKe' = Tail(toKe)
        /\ UNCHANGED <<timeKnown, inputsRead, inputCode, readySig, connectedSig>>
    BY <1>11 DEF RecvEventPast, Receive
  <2>2. ~inputsRead => inputs' = inputs
    BY <1>11 DEF RecvEventPast, WithEvent
  <2>3. toDev # <<>> => toDev' # <<>> /\ Head(toDev') = Head(toDev)
    <3>1. TimeRequest \in Seq(Commands) /\ toDev \in Seq(Commands)
      BY CommandsSent DEF TypeOK
    <3>2. ASSUME toDev # <<>>
          PROVE  toDev \o TimeRequest # <<>> /\ Head(toDev \o TimeRequest) = Head(toDev)
      <4>1. /\ toDev \o TimeRequest \in Seq(Commands)
            /\ Len(toDev \o TimeRequest) = Len(toDev) + Len(TimeRequest)
            /\ \A k \in 1..(Len(toDev) + Len(TimeRequest)) :
                  (toDev \o TimeRequest)[k] =
                     IF k <= Len(toDev) THEN toDev[k] ELSE TimeRequest[k - Len(toDev)]
        BY <3>1, ConcatProperties
      <4>2. Len(toDev) \in Nat /\ Len(toDev) >= 1 /\ Len(TimeRequest) \in Nat
        BY <3>1, <3>2, EmptySeq, LenProperties
      <4>3. 1 \in 1..(Len(toDev) + Len(TimeRequest)) /\ 1 <= Len(toDev)
        BY <4>2
      <4>4. (toDev \o TimeRequest)[1] = toDev[1] /\ Len(toDev \o TimeRequest) >= 1
        BY <4>1, <4>2, <4>3
      <4>5. QED
        BY <3>1, <3>2, <4>1, <4>4, EmptySeq
    <3>3. QED
      BY <1>11, <3>2 DEF RecvEventPast
  <2>4. ~inputsRead => ReadLeads'
    BY <2>1, <2>3, LeadAfterEvent
  <2>5. QED
    BY <2>1, <2>2, <2>4
<1>12. CASE CodeTimeout
  <2>1. UNCHANGED session /\ UNCHANGED sock
    BY <1>12 DEF CodeTimeout
  <2>2. QED
    BY <2>1 DEF ReadLeads
<1>13. CASE DeviceAnswers
  <2>1. /\ UNCHANGED objectVars
        /\ Connected /\ toDev # <<>> /\ Head(toDev) \in Commands
        /\ toKe' = Append(toKe, Answer(Head(toDev)))
    BY <1>13, HeadTailProperties DEF DeviceAnswers, TypeOK
  <2>2. ~inputsRead => ReadLeads'
    BY <2>1, AnswerType, LeadAfterSend
  <2>3. QED
    BY <2>1, <2>2 DEF objectVars
<1>14. ASSUME NEW i \in Inputs, DeviceInput(i) PROVE SessionInv'
  <2> DEFINE m == [type |-> "EVT", input |-> i, on |-> i \notin devInputs]
  <2>1. m \in Line /\ m.type = "EVT"
    BY DEF Line
  <2>2. UNCHANGED <<objectVars, toDev>>
    BY <1>14 DEF DeviceInput
  <2>3. CASE Connected /\ devEvents
    <3>1. toKe' = Append(toKe, m)
      BY <1>14, <2>3 DEF DeviceInput
    <3>2. ~inputsRead => ReadLeads'
      BY <2>1, <2>2, <2>3, <3>1, LeadAfterSend
    <3>3. QED
      BY <2>2, <2>3, <3>2 DEF objectVars
  <2>4. CASE ~(Connected /\ devEvents)
    <3>1. UNCHANGED toKe
      BY <1>14, <2>4 DEF DeviceInput
    <3>2. QED
      BY <2>2, <3>1 DEF objectVars, ReadLeads
  <2>5. QED
    BY <2>3, <2>4
<1>15. CASE UNCHANGED vars
  BY <1>15 DEF vars, objectVars, ReadLeads
<1>16. QED
  BY <1>1, <1>2, <1>3, <1>4, <1>5, <1>6, <1>7, <1>8, <1>9, <1>10, <1>11, <1>12,
     <1>13, <1>14, <1>15 DEF Next

\* The conjunction of all parts is an invariant.
LEMMA SessionInvHolds == Spec => []SessionInv
<1>1. Init => SessionInv
  BY DEF Init, SessionInv, ForgottenInv, OrderInv, ReadyOnce, LoginOrder, Connected
<1>2. TypeOK /\ SessionInv /\ [Next]_vars => SessionInv'
  BY SessionStep
<1>3. QED
  BY <1>1, <1>2, TypeCorrect, PTL DEF Spec

\* ready() is emitted exactly once in a session, when time and inputs are known.
THEOREM ReadyOnceHolds == Spec => []ReadyOnce
<1>1. SessionInv => ReadyOnce
  BY DEF SessionInv
<1>2. QED
  BY <1>1, SessionInvHolds, PTL

\* The inputs are read before the time is set and before connected() is emitted.
THEOREM LoginOrderHolds == Spec => []LoginOrder
<1>1. SessionInv => LoginOrder
  BY DEF SessionInv, OrderInv
<1>2. QED
  BY <1>1, SessionInvHolds, PTL

\* A code that would be recorded belongs to the running session.
THEOREM CodeOfThisSessionHolds == Spec => []CodeOfThisSession
<1>1. SessionInv => CodeOfThisSession
  BY DEF SessionInv, ForgottenInv, OrderInv, CodeOfThisSession
<1>2. QED
  BY <1>1, SessionInvHolds, PTL

\* However settings, failures, losses and lines follow each other, a device comes back,
\* logs in in order, is announced once in a session, and reports no other session's code.
THEOREM SessionSafeHolds == Spec => []SessionSafe
<1>1. NeverStuck /\ ReadyOnce /\ LoginOrder /\ CodeOfThisSession => SessionSafe
  BY DEF SessionSafe
<1>2. QED
  BY <1>1, NeverStuckHolds, ReadyOnceHolds, LoginOrderHolds, CodeOfThisSessionHolds, PTL

-----------------------------------------------------------------------------
(* Refinement *)

\* Every step of the object is a step of its contract, or none.  The first
\* reading cannot both report a code and announce the session, as the time is
\* not known before it.
LEMMA ContractStep ==
    ASSUME TypeOK, SessionInv, SessionInv', TypeOK', [Next]_vars
    PROVE  [Session!Next]_(Session!vars)
<1> USE DEF SessionInv, ForgottenInv, OrderInv, ReadyOnce, LoginOrder, Connected
<1> DEFINE seen == <<Connected, readySig = 1, inputCode, icsTimer>>
<1>1. CASE SocketConnected
  <2>1. ~Connected /\ Connected' /\ UNCHANGED <<readySig, inputCode, icsTimer>>
    BY <1>1 DEF SocketConnected
  <2>2. QED
    BY <2>1 DEF Session!Next, Session!Connect
<1>2. CASE SocketDisconnected
  <2>1. Connected /\ ~Connected' /\ readySig' = 0 /\ inputCode' = {} /\ UNCHANGED icsTimer
    BY <1>2 DEF SocketDisconnected, StartConnecting, InitIO
  <2>2. QED
    BY <2>1 DEF Session!Next, Session!Lose
<1>3. CASE RecvRD
  <2>1. Connected /\ Connected' /\ (readySig = 1)' = (readySig = 1)
    <3>1. Connected /\ Connected'
      BY <1>3 DEF RecvRD, Receive
    <3>2. UNCHANGED timeKnown /\ inputsRead' /\ (~inputsRead => ~timeKnown)
      BY <1>3 DEF RecvRD
    <3>3. readySig' = readySig
      BY <1>3, <3>2 DEF RecvRD, EmitIfReady
    <3>4. QED
      BY <3>1, <3>3
  <2>2. CASE UNCHANGED <<icsTimer, inputCode>>
    BY <2>1, <2>2 DEF Session!vars
  <2>3. CASE icsTimer' /\ inputCode' \in SUBSET Inputs
    BY <2>1, <2>3 DEF Session!Next, Session!Report
  <2>4. QED
    BY <1>3, <2>2, <2>3 DEF RecvRD, InputsChanged, TypeOK
<1>4. CASE RecvTime
  <2>1. Connected /\ Connected' /\ UNCHANGED <<inputCode, icsTimer>>
    BY <1>4 DEF RecvTime, Receive
  <2>2. CASE UNCHANGED readySig
    BY <2>1, <2>2 DEF Session!vars
  <2>3. CASE readySig' = readySig + 1 /\ ~timeKnown
    <3>1. readySig = 0 /\ readySig' = 1
      BY <2>3 DEF TypeOK
    <3>2. QED
      BY <2>1, <3>1 DEF Session!Next, Session!Announce
  <2>4. QED
    BY <1>4, <2>2, <2>3 DEF RecvTime, EmitIfReady
<1>5. CASE RecvEventLive
  <2>1. /\ Connected /\ Connected' /\ UNCHANGED readySig
        /\ icsTimer' /\ inputCode' \in SUBSET Inputs
    BY <1>5 DEF RecvEventLive, Receive, InputsChanged, TypeOK
  <2>2. QED
    BY <2>1 DEF Session!Next, Session!Report
<1>6. CASE CodeTimeout
  <2>1. icsTimer /\ ~icsTimer' /\ UNCHANGED <<sock, readySig, inputCode>>
    BY <1>6 DEF CodeTimeout
  <2>2. QED
    BY <2>1 DEF Session!Next, Session!Emit
<1>7. CASE UNCHANGED seen
  BY <1>7 DEF Session!vars
<1>8. ASSUME \/ \E p \in Properties : SetProperty(p)
             \/ ConnectTimeout \/ ConnectFails
      PROVE  UNCHANGED seen
  BY <1>8 DEF SetProperty, ConnectTimeout, ConnectFails, StartConnecting
<1>9. ASSUME \/ RecvOK \/ RecvEvtOK \/ \E late \in BOOLEAN : RecvEventPast(late)
             \/ DeviceAnswers \/ \E i \in Inputs : DeviceInput(i)
             \/ UNCHANGED vars
      PROVE  UNCHANGED seen
  BY <1>9 DEF RecvOK, RecvEvtOK, RecvEventPast, DeviceAnswers, DeviceInput, vars, objectVars
<1>10. QED
  BY <1>1, <1>2, <1>3, <1>4, <1>5, <1>6, <1>7, <1>8, <1>9 DEF Next

\* The object implements its contract: the listeners of its signals see
\* connections, announcements and codes in a legal order.
THEOREM SessionRefined == Spec => ImplementsSession
<1>1. Init => Session!Init
  BY DEF Init, Session!Init, Connected
<1>2. TypeOK /\ SessionInv /\ TypeOK' /\ SessionInv' /\ [Next]_vars
        => [Session!Next]_(Session!vars)
  BY ContractStep
<1>3. QED
  BY <1>1, <1>2, TypeCorrect, SessionInvHolds, PTL DEF Spec, Session!Spec, ImplementsSession

-----------------------------------------------------------------------------
(* The history of the device: what is recorded, and what the object has not seen *)

\* The positions of a queue that hold a member of S, and how many they are.
Places(s, S) == {k \in 1..Len(s) : s[k] \in S}
Count(s, S) == Cardinality(Places(s, S))

\* Counting in a queue is by natural numbers, and none means nowhere.
LEMMA CountType ==
    ASSUME NEW T, NEW s \in Seq(T), NEW S
    PROVE  /\ IsFiniteSet(Places(s, S))
           /\ Count(s, S) \in Nat
           /\ Count(s, S) = 0 => \A k \in 1..Len(s) : s[k] \notin S
<1>1. IsFiniteSet(1..Len(s)) /\ Places(s, S) \in SUBSET (1..Len(s))
  BY LenProperties, FS_Interval DEF Places
<1>2. IsFiniteSet(Places(s, S)) /\ Count(s, S) \in Nat
  BY <1>1, FS_Subset, FS_CardinalityType DEF Count
<1>3. Count(s, S) = 0 => Places(s, S) = {}
  BY <1>2, FS_EmptySet DEF Count
<1>4. QED
  BY <1>2, <1>3 DEF Places

\* Nothing is counted in the empty queue.
LEMMA CountEmpty == \A S : Count(<<>>, S) = 0
<1>1. \A S : Places(<<>>, S) = {}
  BY DEF Places
<1>2. QED
  BY <1>1, FS_EmptySet DEF Count

\* What is appended is counted.
LEMMA CountAppend ==
    ASSUME NEW T, NEW s \in Seq(T), NEW m \in T, NEW S
    PROVE  Count(Append(s, m), S) = Count(s, S) + (IF m \in S THEN 1 ELSE 0)
<1>1. /\ Len(Append(s, m)) = Len(s) + 1 /\ Len(s) \in Nat
      /\ \A k \in 1..Len(s) : Append(s, m)[k] = s[k]
      /\ Append(s, m)[Len(s) + 1] = m
  BY AppendProperties, LenProperties
<1>2. IsFiniteSet(Places(s, S)) /\ Len(s) + 1 \notin Places(s, S) /\ Count(s, S) \in Nat
  BY <1>1, CountType DEF Places
<1>3. CASE m \in S
  <2>1. Places(Append(s, m), S) = Places(s, S) \cup {Len(s) + 1}
    <3>1. ASSUME NEW k PROVE k \in Places(Append(s, m), S) <=> k \in Places(s, S) \/ k = Len(s) + 1
      BY <1>1, <1>3 DEF Places
    <3>2. QED
      BY <3>1
  <2>2. QED
    BY <1>2, <1>3, <2>1, FS_AddElement DEF Count
<1>4. CASE m \notin S
  <2>1. Places(Append(s, m), S) = Places(s, S)
    <3>1. ASSUME NEW k PROVE k \in Places(Append(s, m), S) <=> k \in Places(s, S)
      BY <1>1, <1>4 DEF Places
    <3>2. QED
      BY <3>1
  <2>2. QED
    BY <1>2, <1>4, <2>1 DEF Count
<1>5. QED
  BY <1>3, <1>4

\* What is taken is no longer counted.
LEMMA CountTail ==
    ASSUME NEW T, NEW s \in Seq(T), s # <<>>, NEW S
    PROVE  Count(s, S) = Count(Tail(s), S) + (IF Head(s) \in S THEN 1 ELSE 0)
<1>1. /\ Len(Tail(s)) = Len(s) - 1 /\ Len(s) \in Nat /\ Len(s) >= 1
      /\ \A k \in 1..Len(Tail(s)) : Tail(s)[k] = s[k + 1]
      /\ Tail(s) \in Seq(T) /\ Head(s) = s[1]
  BY HeadTailProperties, EmptySeq
<1> DEFINE rest == Places(s, S) \ {1}
           up == [k \in Places(Tail(s), S) |-> k + 1]
<1>2. IsFiniteSet(Places(s, S)) /\ IsFiniteSet(Places(Tail(s), S))
  BY <1>1, CountType
<1>3. up \in Bijection(Places(Tail(s), S), rest)
  <2>1. ASSUME NEW k \in Places(Tail(s), S) PROVE k + 1 \in rest
    BY <1>1 DEF Places
  <2>2. ASSUME NEW j \in rest PROVE j - 1 \in Places(Tail(s), S) /\ up[j - 1] = j
    <3>1. j \in 1..Len(s) /\ j # 1 /\ s[j] \in S
      BY DEF Places
    <3>2. j - 1 \in 1..Len(Tail(s)) /\ Tail(s)[j - 1] = s[j] /\ (j - 1) + 1 = j
      BY <1>1, <3>1
    <3>3. j - 1 \in Places(Tail(s), S)
      BY <3>1, <3>2 DEF Places
    <3>4. QED
      BY <3>2, <3>3
  <2>3. up \in [Places(Tail(s), S) -> rest]
    BY <2>1
  <2>4. \A t \in rest : \E k \in Places(Tail(s), S) : up[k] = t
    BY <2>2
  <2>5. \A a, b \in Places(Tail(s), S) : up[a] = up[b] => a = b
    BY DEF Places
  <2> HIDE DEF up, rest
  <2>6. QED
    BY <2>3, <2>4, <2>5, Fun_IsBij
<1>4. Cardinality(rest) = Count(Tail(s), S)
  BY <1>2, <1>3, FS_Bijection, Fun_ExistsBij DEF Count
<1>5. 1 \in Places(s, S) <=> Head(s) \in S
  BY <1>1 DEF Places
<1>6. Cardinality(rest) = IF 1 \in Places(s, S) THEN Count(s, S) - 1 ELSE Count(s, S)
  BY <1>2, FS_RemoveElement DEF Count
<1>7. Count(s, S) \in Nat
  BY CountType
<1>8. QED
  BY <1>4, <1>5, <1>6, <1>7

RdLines == {m \in Line : m.type = "RD"}
EvtLines == {m \in Line : m.type = "EVT"}
RdCommands == {"RD"}

\* The readings and the events on their way; of the readings also those asked for.
Readings == Count(toKe, RdLines) + Count(toDev, RdCommands)
Events == Count(toKe, EvtLines)

\* The counts are natural numbers.
LEMMA OnTheirWay == TypeOK => Readings \in Nat /\ Events \in Nat
  BY CountType DEF TypeOK, Readings, Events

\* refreshSysTime() asks for no reading, and a login for one.
LEMMA Asked ==
    ASSUME TypeOK
    PROVE  /\ Count(LoginCommands, RdCommands) = 1
           /\ Count(toDev \o TimeRequest, RdCommands) = Count(toDev, RdCommands)
<1> USE DEF Commands, RdCommands
<1>1. ASSUME NEW s \in Seq(Commands)
      PROVE  Count(s \o TimeRequest, RdCommands) = Count(s, RdCommands)
  <2>1. CASE sysTimeTimer
    BY <2>1, ConcatEmptySeq DEF TimeRequest
  <2>2. CASE ~sysTimeTimer
    <3>1. s \o TimeRequest = Append(s, "IMPL")
      BY <2>2, AppendIsConcat DEF TimeRequest
    <3>2. Count(s, RdCommands) \in Nat
      BY CountType
    <3>3. QED
      BY <3>1, <3>2, CountAppend
  <2>3. QED
    BY <2>1, <2>2
<1>2. <<"RD">> \in Seq(Commands) /\ Count(<<"RD">>, RdCommands) = 1
  <2>1. Len(<<"RD">>) = 1 /\ <<"RD">>[1] = "RD" /\ <<"RD">> \in Seq(Commands)
    OBVIOUS
  <2>2. Places(<<"RD">>, RdCommands) = {1}
    BY <2>1 DEF Places
  <2>3. QED
    BY <2>1, <2>2, FS_Singleton DEF Count
<1> DEFINE q == <<"RD">> \o TimeRequest
<1>3. q \in Seq(Commands) /\ Count(q, RdCommands) = 1
  BY <1>1, <1>2, CommandsSent, ConcatProperties
<1>4. LoginCommands = Append(q, "KE")
  BY <1>3, AppendIsConcat DEF LoginCommands
<1>5. QED
  <2> HIDE DEF q
  <2>1. Count(LoginCommands, RdCommands) = 1 + 0
    BY <1>3, <1>4, CountAppend
  <2>2. QED
    BY <1>1, <2>1 DEF TypeOK

\* A line that is received is no longer on its way.
LEMMA Taken ==
    ASSUME TypeOK, NEW type, Receive(type)
    PROVE  /\ IF type = "EVT" THEN Events = Events' + 1 ELSE Events = Events'
           /\ IF type = "RD" THEN Count(toKe, RdLines) = Count(toKe', RdLines) + 1
                             ELSE Count(toKe, RdLines) = Count(toKe', RdLines)
<1>1. /\ toKe \in Seq(Line) /\ toKe # <<>> /\ toKe' = Tail(toKe)
      /\ Head(toKe) \in Line /\ Head(toKe).type = type
  BY ReceiveType DEF TypeOK
<1>2. /\ Head(toKe) \in EvtLines <=> type = "EVT"
      /\ Head(toKe) \in RdLines <=> type = "RD"
  BY <1>1 DEF EvtLines, RdLines
<1>3. Count(toKe', RdLines) \in Nat /\ Count(toKe', EvtLines) \in Nat
  BY <1>1, HeadTailProperties, CountType
<1>4. /\ Count(toKe, EvtLines) = Count(toKe', EvtLines) + (IF type = "EVT" THEN 1 ELSE 0)
      /\ Count(toKe, RdLines) = Count(toKe', RdLines) + (IF type = "RD" THEN 1 ELSE 0)
  BY <1>1, <1>2, CountTail
<1>5. QED
  BY <1>3, <1>4 DEF Events

\* A line that is neither an event nor a reading changes nothing of these.
LEMMA Kept ==
    ASSUME TypeOK, Receive("OK") \/ Receive("EVTOK") \/ Receive("INT"),
           Count(toDev', RdCommands) = Count(toDev, RdCommands)
    PROVE  Events' = Events /\ Readings' = Readings
<1>1. ASSUME NEW type \in {"OK", "EVTOK", "INT"}, Receive(type)
      PROVE  Events' = Events /\ Count(toKe', RdLines) = Count(toKe, RdLines)
  <2>1. type # "EVT" /\ type # "RD"
    BY <1>1
  <2>2. QED
    BY <1>1, <2>1, Taken
<1>2. QED
  BY <1>1 DEF Readings

\* An answer takes the place of its command, and is no event.
LEMMA Answered ==
    ASSUME TypeOK, DeviceAnswers PROVE Readings' = Readings /\ Events' = Events
<1>1. /\ toDev \in Seq(Commands) /\ toDev # <<>> /\ toDev' = Tail(toDev)
      /\ Head(toDev) \in Commands
      /\ toKe \in Seq(Line) /\ toKe' = Append(toKe, Answer(Head(toDev)))
  BY HeadTailProperties DEF DeviceAnswers, TypeOK
<1>2. /\ Head(toDev) \in RdCommands <=> Head(toDev) = "RD"
      /\ Answer(Head(toDev)) \in Line
      /\ Answer(Head(toDev)) \in RdLines <=> Head(toDev) = "RD"
      /\ Answer(Head(toDev)) \notin EvtLines
  BY <1>1, AnswerType DEF RdLines, EvtLines, RdCommands
<1>3. /\ Count(toKe, RdLines) \in Nat /\ Count(toDev', RdCommands) \in Nat
      /\ Count(toKe, EvtLines) \in Nat
  BY <1>1, CountType, HeadTailProperties
<1>4. Count(toDev, RdCommands) = Count(toDev', RdCommands) + (IF Head(toDev) = "RD" THEN 1 ELSE 0)
  BY <1>1, <1>2, CountTail
<1>5. /\ Count(toKe', RdLines) = Count(toKe, RdLines) + (IF Head(toDev) = "RD" THEN 1 ELSE 0)
      /\ Count(toKe', EvtLines) = Count(toKe, EvtLines) + 0
  BY <1>1, <1>2, CountAppend
<1>6. QED
  BY <1>3, <1>4, <1>5 DEF Readings, Events

\* A change of an input is one event at most.
LEMMA Reported ==
    ASSUME TypeOK, NEW i \in Inputs, DeviceInput(i)
    PROVE  Readings' = Readings /\ Events' \in {Events, Events + 1}
<1> DEFINE m == [type |-> "EVT", input |-> i, on |-> i \notin devInputs]
<1>1. m \in Line /\ m \in EvtLines /\ m \notin RdLines /\ toKe \in Seq(Line)
  BY DEF Line, EvtLines, RdLines, TypeOK
<1>2. toDev' = toDev /\ toKe' \in {toKe, Append(toKe, m)}
  BY DEF DeviceInput
<1>3. CASE toKe' = toKe
  BY <1>2, <1>3 DEF Readings, Events
<1>4. CASE toKe' = Append(toKe, m)
  <2> HIDE DEF m
  <2>1. /\ Count(toKe', RdLines) = Count(toKe, RdLines) + 0
        /\ Count(toKe', EvtLines) = Count(toKe, EvtLines) + 1
    BY <1>1, <1>4, CountAppend
  <2>2. Count(toKe, RdLines) \in Nat
    BY <1>1, CountType
  <2>3. QED
    BY <1>2, <2>1, <2>2 DEF Readings, Events
<1>5. QED
  BY <1>2, <1>3, <1>4

\* A step that neither takes nor sends one of them changes nothing of these.
LEMMA Unmoved ==
    ASSUME TypeOK, TypeOK',
           \/ RecvOK \/ RecvEvtOK \/ RecvTime
           \/ \E p \in Properties : SetProperty(p)
           \/ ConnectTimeout \/ ConnectFails \/ CodeTimeout \/ UNCHANGED vars
    PROVE  Events' = Events /\ Readings' = Readings
<1>1. /\ Count(toDev, RdCommands) \in Nat /\ Count(toDev', RdCommands) \in Nat
  BY CountType DEF TypeOK
<1>2. ASSUME RecvOK \/ RecvEvtOK PROVE Events' = Events /\ Readings' = Readings
  <2>1. UNCHANGED toDev /\ (Receive("OK") \/ Receive("EVTOK"))
    BY <1>2 DEF RecvOK, RecvEvtOK
  <2>2. QED
    BY <1>1, <2>1, Kept
<1>3. ASSUME RecvTime PROVE Events' = Events /\ Readings' = Readings
  <2>1. Receive("INT") /\ toDev' \in {toDev, Append(toDev, "EVTON")}
    BY <1>3 DEF RecvTime
  <2>2. toDev \in Seq(Commands) /\ "EVTON" \in Commands /\ "EVTON" \notin RdCommands
    BY DEF TypeOK, Commands, RdCommands
  <2>3. CASE toDev' = Append(toDev, "EVTON")
    <3>1. Count(toDev', RdCommands) = Count(toDev, RdCommands) + 0
      BY <2>2, <2>3, CountAppend
    <3>2. QED
      BY <1>1, <2>1, <3>1, Kept
  <2>4. CASE toDev' = toDev
    BY <1>1, <2>1, <2>4, Kept
  <2>5. QED
    BY <2>1, <2>3, <2>4
<1>4. ASSUME \/ \E p \in Properties : SetProperty(p)
             \/ ConnectTimeout \/ ConnectFails \/ CodeTimeout \/ UNCHANGED vars
      PROVE  Events' = Events /\ Readings' = Readings
  <2>1. UNCHANGED <<toKe, toDev>>
    BY <1>4 DEF SetProperty, ConnectTimeout, ConnectFails, CodeTimeout, vars
  <2>2. QED
    BY <2>1 DEF Events, Readings
<1>5. QED
  BY <1>2, <1>3, <1>4

\* What each step does to the readings and events on their way.
LEMMA WayStep ==
    ASSUME TypeOK, TypeOK', [Next]_vars
    PROVE  /\ SocketConnected => /\ Events' = Events /\ Readings' <= Readings + 1
                                 /\ toKe = <<>> => Readings' = 1
           /\ SocketDisconnected => Events' = 0 /\ Readings' = 0
           /\ RecvRD => Events' = Events /\ Readings = Readings' + 1
           /\ RecvEventLive \/ (\E late \in BOOLEAN : RecvEventPast(late))
                => Events = Events' + 1 /\ Readings' = Readings
           /\ (\E i \in Inputs : DeviceInput(i))
                => Readings' = Readings /\ Events' \in {Events, Events + 1}
           /\ ~ \/ SocketConnected \/ SocketDisconnected \/ RecvRD
                \/ RecvEventLive \/ (\E late \in BOOLEAN : RecvEventPast(late))
                \/ (\E i \in Inputs : DeviceInput(i))
                => Events' = Events /\ Readings' = Readings
<1>1. /\ Count(toKe, RdLines) \in Nat /\ Count(toKe', RdLines) \in Nat
      /\ Count(toDev, RdCommands) \in Nat /\ Count(toDev', RdCommands) \in Nat
      /\ Events \in Nat /\ Events' \in Nat
  BY CountType DEF TypeOK, Events
<1>2. ASSUME SocketConnected
      PROVE  /\ Events' = Events /\ Readings' <= Readings + 1
             /\ toKe = <<>> => Readings' = 1
  <2>1. toKe' = toKe /\ Count(toDev', RdCommands) = 1
    BY <1>2, Asked DEF SocketConnected
  <2>2. QED
    BY <1>1, <2>1, CountEmpty DEF Events, Readings
<1>3. ASSUME SocketDisconnected PROVE Events' = 0 /\ Readings' = 0
  BY <1>3, CountEmpty DEF SocketDisconnected, Events, Readings
<1>4. ASSUME RecvRD PROVE Events' = Events /\ Readings = Readings' + 1
  <2>1. Receive("RD") /\ toDev' = toDev
    BY <1>4 DEF RecvRD
  <2>2. Events = Events' /\ Count(toKe, RdLines) = Count(toKe', RdLines) + 1
    BY <2>1, Taken
  <2>3. QED
    BY <1>1, <2>1, <2>2 DEF Readings
<1>5. ASSUME RecvEventLive \/ \E late \in BOOLEAN : RecvEventPast(late)
      PROVE  Events = Events' + 1 /\ Readings' = Readings
  <2>1. Receive("EVT")
    BY <1>5 DEF RecvEventLive, RecvEventPast
  <2>2. toDev' \in {toDev, toDev \o TimeRequest}
    BY <1>5 DEF RecvEventLive, RecvEventPast
  <2>3. Count(toDev', RdCommands) = Count(toDev, RdCommands)
    BY <2>2, Asked
  <2>4. QED
    BY <1>1, <2>1, <2>3, Taken DEF Readings
<1>6. ASSUME NEW i \in Inputs, DeviceInput(i)
      PROVE  Readings' = Readings /\ Events' \in {Events, Events + 1}
  BY <1>6, Reported
<1>7. ASSUME \/ RecvOK \/ RecvEvtOK \/ RecvTime
             \/ \E p \in Properties : SetProperty(p)
             \/ ConnectTimeout \/ ConnectFails \/ CodeTimeout \/ UNCHANGED vars
      PROVE  Events' = Events /\ Readings' = Readings
  BY <1>7, Unmoved
<1>8. ASSUME DeviceAnswers PROVE Events' = Events /\ Readings' = Readings
  BY <1>8, Answered
<1>9. QED
  BY <1>2, <1>3, <1>4, <1>5, <1>6, <1>7, <1>8 DEF Next

\* Of the one reading a session asks for, what is not yet done is on its way.
Read == IF inputsRead THEN 1 ELSE 0
ReadInv == Readings + Read <= 1

\* A change of an input, or a session's reading, is worth one record: each is on its
\* way, waits in icsTimer, is recorded, or was lost.
Waiting == IF icsTimer THEN 1 ELSE 0
RecordInv ==
    /\ flips \in Nat /\ sessions \in Nat /\ records \in Nat
    /\ records + Waiting + Events + Readings <= flips + sessions

\* The history only watches: what the object and the device do is a step of theirs.
LEMMA HistoryStep == [MCNext]_mcVars => [Next]_vars
<1>1. MCOther => Next
  BY DEF MCOther, Next
<1>2. MCConnected \/ MCDisconnected \/ MCCodeTimeout \/ MCDeviceAnswers \/ MCEventLive => Next
  BY DEF MCConnected, MCDisconnected, MCCodeTimeout, MCDeviceAnswers, MCEventLive, Next
<1>3. ASSUME NEW i \in Inputs, MCDeviceInput(i) PROVE Next
  BY <1>3 DEF MCDeviceInput, Next
<1>4. ASSUME NEW late \in BOOLEAN, MCEventPast(late) PROVE Next
  BY <1>4 DEF MCEventPast, Next
<1>5. UNCHANGED mcVars => UNCHANGED vars
  BY DEF mcVars
<1>6. QED
  BY <1>1, <1>2, <1>3, <1>4, <1>5 DEF MCNext

\* The history only watches.
LEMMA HistoryWatches == MCSpec => Spec
<1>1. MCInit => Init
  BY DEF MCInit
<1>2. QED
  BY <1>1, HistoryStep, PTL DEF MCSpec, Spec

\* Every step keeps the session's reading the only one.
LEMMA ReadStep ==
    ASSUME TypeOK, TypeOK', SessionInv, ReadInv, [Next]_vars PROVE ReadInv'
<1>1. /\ Readings \in Nat /\ Readings' \in Nat
      /\ (inputsRead /\ Read = 1) \/ (~inputsRead /\ Read = 0)
      /\ (inputsRead' /\ Read' = 1) \/ (~inputsRead' /\ Read' = 0)
  BY OnTheirWay, CountType DEF TypeOK, Readings, Read
<1>2. CASE SocketConnected
  <2>1. ~Connected /\ inputsRead' = inputsRead
    BY <1>2 DEF SocketConnected, Connected
  <2>2. ~inputsRead /\ toKe = <<>>
    BY <2>1 DEF SessionInv, ForgottenInv, OrderInv
  <2>3. Readings' = 1
    BY <1>2, <2>2, WayStep
  <2>4. QED
    BY <1>1, <2>1, <2>2, <2>3 DEF ReadInv
<1>3. CASE SocketDisconnected
  <2>1. ~inputsRead' /\ Readings' = 0
    BY <1>3, WayStep DEF SocketDisconnected, InitIO
  <2>2. QED
    BY <1>1, <2>1 DEF ReadInv
<1>4. CASE RecvRD
  <2>1. Readings = Readings' + 1
    BY <1>4, WayStep
  <2>2. QED
    BY <1>1, <2>1 DEF ReadInv
<1>5. CASE ~(SocketConnected \/ SocketDisconnected \/ RecvRD)
  <2>1. Readings' = Readings
    BY <1>5, WayStep
  <2>2. inputsRead' = inputsRead
    BY <1>5 DEF Next, SetProperty, ConnectTimeout, ConnectFails, RecvOK, RecvEvtOK, RecvTime,
                RecvEventLive, RecvEventPast, CodeTimeout, DeviceAnswers, DeviceInput,
                vars, objectVars
  <2>3. QED
    BY <1>1, <2>1, <2>2 DEF ReadInv
<1>6. QED
  BY <1>2, <1>3, <1>4, <1>5

\* At most one reading of a session is on its way.
LEMMA ReadInvHolds == Spec => []ReadInv
<1>1. Init => ReadInv
  <2> SUFFICES ASSUME Init PROVE ReadInv
    OBVIOUS
  <2>1. toKe = <<>> /\ toDev = <<>> /\ ~inputsRead
    BY DEF Init
  <2>2. QED
    BY <2>1, CountEmpty DEF ReadInv, Read, Readings
<1>2. TypeOK /\ TypeOK' /\ SessionInv /\ ReadInv /\ [Next]_vars => ReadInv'
  BY ReadStep
<1>3. QED
  BY <1>1, <1>2, TypeCorrect, SessionInvHolds, PTL DEF Spec

\* Every step of the history keeps the account of the records.
LEMMA RecordStep ==
    ASSUME TypeOK, TypeOK', RecordInv, [MCNext]_mcVars PROVE RecordInv'
<1>1. /\ Readings \in Nat /\ Readings' \in Nat /\ Events \in Nat /\ Events' \in Nat
      /\ flips \in Nat /\ sessions \in Nat /\ records \in Nat
      /\ (icsTimer /\ Waiting = 1) \/ (~icsTimer /\ Waiting = 0)
      /\ (icsTimer' /\ Waiting' = 1) \/ (~icsTimer' /\ Waiting' = 0)
  <2>1. Readings \in Nat /\ Events \in Nat
    BY OnTheirWay
  <2>2. Readings' \in Nat /\ Events' \in Nat
    BY CountType DEF TypeOK, Readings, Events
  <2>3. /\ (icsTimer /\ Waiting = 1) \/ (~icsTimer /\ Waiting = 0)
        /\ (icsTimer' /\ Waiting' = 1) \/ (~icsTimer' /\ Waiting' = 0)
    BY DEF Waiting, TypeOK
  <2>4. QED
    BY <2>1, <2>2, <2>3 DEF RecordInv
<1>2. [Next]_vars
  BY HistoryStep
<1>3. CASE MCConnected
  <2>1. /\ Events' = Events /\ Readings' <= Readings + 1
        /\ sessions' = sessions + 1 /\ UNCHANGED <<flips, records, icsTimer>>
    BY <1>2, <1>3, WayStep DEF MCConnected, SocketConnected
  <2>2. QED
    BY <1>1, <2>1 DEF RecordInv
<1>4. CASE MCDisconnected
  <2>1. /\ Events' = 0 /\ Readings' = 0
        /\ UNCHANGED <<flips, sessions, records, icsTimer>>
    BY <1>2, <1>4, WayStep DEF MCDisconnected, SocketDisconnected
  <2>2. QED
    BY <1>1, <2>1 DEF RecordInv
<1>5. CASE MCCodeTimeout
  <2>1. /\ Events' = Events /\ Readings' = Readings
        /\ icsTimer /\ ~icsTimer' /\ records' \in {records, records + 1}
        /\ UNCHANGED <<flips, sessions>>
    <3>1. UNCHANGED <<toKe, toDev>>
      BY <1>5 DEF MCCodeTimeout, CodeTimeout
    <3>2. Events' = Events /\ Readings' = Readings
      BY <3>1 DEF Events, Readings
    <3>3. QED
      BY <1>5, <3>2 DEF MCCodeTimeout, CodeTimeout
  <2>2. QED
    BY <1>1, <2>1 DEF RecordInv
<1>6. ASSUME NEW i \in Inputs, MCDeviceInput(i) PROVE RecordInv'
  <2>1. /\ Readings' = Readings /\ Events' \in {Events, Events + 1}
        /\ flips' = flips + 1 /\ UNCHANGED <<sessions, records, icsTimer>>
    BY <1>6, Reported DEF MCDeviceInput, DeviceInput, objectVars
  <2>2. QED
    BY <1>1, <2>1 DEF RecordInv
<1>7. CASE MCDeviceAnswers
  <2>1. /\ Readings' = Readings /\ Events' = Events
        /\ UNCHANGED <<flips, sessions, records, icsTimer>>
    BY <1>7, Answered DEF MCDeviceAnswers, DeviceAnswers, objectVars
  <2>2. QED
    BY <1>1, <2>1 DEF RecordInv
<1>8. ASSUME MCEventLive \/ \E late \in BOOLEAN : MCEventPast(late) PROVE RecordInv'
  <2>1. Events = Events' + 1 /\ Readings' = Readings
    BY <1>2, <1>8, WayStep DEF MCEventLive, MCEventPast
  <2>2. UNCHANGED <<flips, sessions, records>>
    BY <1>8 DEF MCEventLive, MCEventPast
  <2>3. QED
    BY <1>1, <2>1, <2>2 DEF RecordInv
<1>9. CASE MCOther
  <2>1. UNCHANGED <<flips, sessions, records>>
    BY <1>9 DEF MCOther, hist
  <2>2. CASE RecvRD
    <3>1. Events' = Events /\ Readings = Readings' + 1
      BY <1>2, <2>2, WayStep
    <3>2. QED
      BY <1>1, <2>1, <3>1 DEF RecordInv
  <2>3. CASE ~RecvRD
    <3>1. \/ RecvOK \/ RecvEvtOK \/ RecvTime
          \/ \E p \in Properties : SetProperty(p)
          \/ ConnectTimeout \/ ConnectFails
      BY <1>9, <2>3 DEF MCOther
    <3>2. Events' = Events /\ Readings' = Readings
      BY <3>1, Unmoved
    <3>3. UNCHANGED icsTimer
      BY <3>1 DEF SetProperty, ConnectTimeout, ConnectFails, CodeTimeout, RecvOK, RecvEvtOK, RecvTime,
                  vars, objectVars
    <3>4. QED
      BY <1>1, <2>1, <3>2, <3>3 DEF RecordInv
  <2>4. QED
    BY <2>2, <2>3
<1>10. CASE UNCHANGED mcVars
  <2>1. UNCHANGED <<flips, sessions, records, icsTimer, toKe, toDev>>
    BY <1>10 DEF mcVars, vars, objectVars, hist
  <2>2. QED
    BY <2>1 DEF RecordInv, Waiting, Events, Readings
<1>11. QED
  BY <1>3, <1>4, <1>5, <1>6, <1>7, <1>8, <1>9, <1>10 DEF MCNext

\* One physical change is recorded as at most one produced part, and a session
\* adds at most one record of a part already there.
THEOREM RecordsBoundedHolds == MCSpec => []RecordsBounded
<1>1. MCInit => RecordInv
  <2> SUFFICES ASSUME MCInit PROVE RecordInv
    OBVIOUS
  <2>1. toKe = <<>> /\ toDev = <<>> /\ ~icsTimer /\ flips = 0 /\ sessions = 0 /\ records = 0
    BY DEF MCInit, Init
  <2>2. Events = 0 /\ Readings = 0 /\ Waiting = 0
    BY <2>1, CountEmpty DEF Events, Readings, Waiting
  <2>3. QED
    BY <2>1, <2>2 DEF RecordInv
<1>2. TypeOK /\ TypeOK' /\ RecordInv /\ [MCNext]_mcVars => RecordInv'
  BY RecordStep
<1>3. TypeOK /\ RecordInv => RecordsBounded
  <2> SUFFICES ASSUME TypeOK, RecordInv PROVE RecordsBounded
    OBVIOUS
  <2>1. Events \in Nat /\ Readings \in Nat /\ Waiting \in Nat
    BY OnTheirWay DEF Waiting, TypeOK
  <2>2. QED
    BY <2>1 DEF RecordInv, RecordsBounded, TypeOK
<1>4. QED
  BY <1>1, <1>2, <1>3, TypeCorrect, HistoryWatches, PTL DEF MCSpec

\* The code waiting to be recorded is that of the inputs, but for the inputs whose
\* events were taken as past ones; the invariant is inductive as it stands.
THEOREM CodeFollowsInputsHolds == MCSpec => []CodeFollowsInputs
<1> USE DEF CodeFollowsInputs
<1>1. MCInit => CodeFollowsInputs
  BY DEF MCInit, Init
<1>2. ASSUME TypeOK, TypeOK', CodeFollowsInputs, [MCNext]_mcVars PROVE CodeFollowsInputs'
  <2>1. CASE MCDisconnected
    BY <2>1 DEF MCDisconnected, SocketDisconnected, InitIO
  <2>2. ASSUME NEW late \in BOOLEAN, MCEventPast(late) PROVE CodeFollowsInputs'
    <3>1. inputCode' = inputCode
      BY <2>2 DEF MCEventPast, RecvEventPast
    <3>2. past' = past \cup {i \in Inputs : i \in inputs' <=> i \notin inputs}
      BY <2>2 DEF MCEventPast
    <3>3. ASSUME NEW i \in Inputs, i \notin past' PROVE i \in inputCode' <=> i \in inputs'
      BY <1>2, <3>1, <3>2, <3>3
    <3>4. QED
      BY <3>3
  <2>3. CASE MCEventLive
    <3>1. inputCode' = inputs'
      BY <2>3 DEF MCEventLive, RecvEventLive, InputsChanged
    <3>2. QED
      BY <3>1
  <2>4. CASE MCOther /\ RecvRD
    <3>1. past' = past
      BY <2>4 DEF MCOther, hist
    <3>2. (inputs' = inputs /\ inputCode' = inputCode) \/ inputCode' = inputs'
      BY <2>4 DEF RecvRD, InputsChanged
    <3>3. QED
      BY <1>2, <3>1, <3>2
  <2>5. CASE UNCHANGED <<past, inputs, inputCode>>
    BY <1>2, <2>5
  <2>6. ASSUME MCConnected \/ MCCodeTimeout \/ (\E i \in Inputs : MCDeviceInput(i)) \/ MCDeviceAnswers
        PROVE  UNCHANGED <<past, inputs, inputCode>>
    BY <2>6 DEF MCConnected, SocketConnected, MCCodeTimeout, CodeTimeout, MCDeviceInput, DeviceInput,
                MCDeviceAnswers, DeviceAnswers, objectVars
  <2>7. ASSUME MCOther, ~RecvRD PROVE UNCHANGED <<past, inputs, inputCode>>
    BY <2>7 DEF MCOther, hist, SetProperty, ConnectTimeout, ConnectFails, RecvOK, RecvEvtOK,
                RecvTime, objectVars
  <2>8. ASSUME UNCHANGED mcVars PROVE UNCHANGED <<past, inputs, inputCode>>
    BY <2>8 DEF mcVars, vars, objectVars, hist
  <2>9. QED
    BY <1>2, <2>1, <2>2, <2>3, <2>4, <2>5, <2>6, <2>7, <2>8 DEF MCNext
<1>3. QED
  BY <1>1, <1>2, TypeCorrect, HistoryWatches, PTL DEF MCSpec

\* A line tells of input i: a reading tells of every input, an event of its own.
Concerns(m, i) == m.type = "RD" \/ (m.type = "EVT" /\ m.input = i)
Says(m, i) == IF m.type = "RD" THEN i \in m.bits ELSE m.on

\* No line of the queue s tells of i; the last one that does says what the device has.
NoWord(s, i) == \A k \in 1..Len(s) : ~Concerns(s[k], i)
LastWord(s, i, dev) ==
    \E k \in 1..Len(s) :
        /\ Concerns(s[k], i)
        /\ Says(s[k], i) <=> i \in dev
        /\ \A j \in 1..Len(s) : j > k => ~Concerns(s[j], i)

\* Once a reading is on its way or taken, each watched input of the device is what
\* the last line about it says, or, when there is none, what the object holds.
Expected == inputsRead \/ \E k \in 1..Len(toKe) : toKe[k].type = "RD"
Held(i) == NoWord(toKe, i) /\ inputsRead /\ (i \in inputs <=> i \in devInputs)
MirrorInv ==
    Expected => \A i \in Inputs : i \in unwatched \/ LastWord(toKe, i, devInputs) \/ Held(i)

\* The line sent last has the last word on what it concerns, and no other.
LEMMA WordSent ==
    ASSUME NEW s \in Seq(Line), NEW m \in Line, NEW i, NEW dev
    PROVE  /\ Concerns(m, i) /\ (Says(m, i) <=> i \in dev) => LastWord(Append(s, m), i, dev)
           /\ ~Concerns(m, i) /\ NoWord(s, i) => NoWord(Append(s, m), i)
           /\ ~Concerns(m, i) /\ LastWord(s, i, dev) => LastWord(Append(s, m), i, dev)
<1>1. /\ Len(Append(s, m)) = Len(s) + 1 /\ Len(s) \in Nat
      /\ \A k \in 1..Len(s) : Append(s, m)[k] = s[k]
      /\ Append(s, m)[Len(s) + 1] = m
  BY AppendProperties, LenProperties
<1>2. ASSUME Concerns(m, i), Says(m, i) <=> i \in dev PROVE LastWord(Append(s, m), i, dev)
  <2>1. Len(s) + 1 \in 1..Len(Append(s, m))
    BY <1>1
  <2>2. \A j \in 1..Len(Append(s, m)) : ~(j > Len(s) + 1)
    BY <1>1
  <2>3. QED
    BY <1>1, <1>2, <2>1, <2>2 DEF LastWord
<1>3. ASSUME ~Concerns(m, i), NoWord(s, i) PROVE NoWord(Append(s, m), i)
  <2>1. \A k \in 1..Len(Append(s, m)) : k \in 1..Len(s) \/ k = Len(s) + 1
    BY <1>1
  <2>2. QED
    BY <1>1, <1>3, <2>1 DEF NoWord
<1>4. ASSUME ~Concerns(m, i), LastWord(s, i, dev) PROVE LastWord(Append(s, m), i, dev)
  <2>1. PICK k \in 1..Len(s) : /\ Concerns(s[k], i)
                               /\ Says(s[k], i) <=> i \in dev
                               /\ \A j \in 1..Len(s) : j > k => ~Concerns(s[j], i)
    BY <1>4 DEF LastWord
  <2>2. k \in 1..Len(Append(s, m)) /\ Append(s, m)[k] = s[k]
    BY <1>1, <2>1
  <2>3. ASSUME NEW j \in 1..Len(Append(s, m)), j > k PROVE ~Concerns(Append(s, m)[j], i)
    <3>1. j \in 1..Len(s) \/ j = Len(s) + 1
      BY <1>1
    <3>2. QED
      BY <1>1, <1>4, <2>1, <2>3, <3>1
  <2>4. QED
    BY <2>1, <2>2, <2>3 DEF LastWord
<1>5. QED
  BY <1>2, <1>3, <1>4

\* When the first line is taken, the last word stays in the queue or was that line.
LEMMA WordTaken ==
    ASSUME NEW s \in Seq(Line), s # <<>>, NEW i, NEW dev
    PROVE  /\ NoWord(s, i) => NoWord(Tail(s), i) /\ ~Concerns(Head(s), i)
           /\ LastWord(s, i, dev) =>
                \/ LastWord(Tail(s), i, dev)
                \/ /\ NoWord(Tail(s), i)
                   /\ Concerns(Head(s), i) /\ (Says(Head(s), i) <=> i \in dev)
<1>1. /\ Len(Tail(s)) = Len(s) - 1 /\ Len(s) \in Nat /\ Len(s) >= 1
      /\ \A k \in 1..Len(Tail(s)) : k + 1 \in 1..Len(s) /\ Tail(s)[k] = s[k + 1]
      /\ 1 \in 1..Len(s) /\ Head(s) = s[1]
  BY HeadTailProperties, EmptySeq
<1>2. NoWord(s, i) => NoWord(Tail(s), i) /\ ~Concerns(Head(s), i)
  BY <1>1 DEF NoWord
<1>3. ASSUME LastWord(s, i, dev)
      PROVE  \/ LastWord(Tail(s), i, dev)
             \/ /\ NoWord(Tail(s), i)
                /\ Concerns(Head(s), i) /\ (Says(Head(s), i) <=> i \in dev)
  <2>1. PICK k \in 1..Len(s) : /\ Concerns(s[k], i)
                               /\ Says(s[k], i) <=> i \in dev
                               /\ \A j \in 1..Len(s) : j > k => ~Concerns(s[j], i)
    BY <1>3 DEF LastWord
  <2>2. CASE k = 1
    <3>1. ASSUME NEW j \in 1..Len(Tail(s)) PROVE ~Concerns(Tail(s)[j], i)
      <4>1. j + 1 \in 1..Len(s) /\ j + 1 > 1 /\ Tail(s)[j] = s[j + 1]
        BY <1>1
      <4>2. QED
        BY <2>1, <2>2, <4>1
    <3>2. QED
      BY <1>1, <2>1, <2>2, <3>1 DEF NoWord
  <2>3. CASE k # 1
    <3>1. k - 1 \in 1..Len(Tail(s)) /\ Tail(s)[k - 1] = s[k]
      BY <1>1, <2>1, <2>3
    <3>2. ASSUME NEW j \in 1..Len(Tail(s)), j > k - 1 PROVE ~Concerns(Tail(s)[j], i)
      <4>1. j + 1 \in 1..Len(s) /\ j + 1 > k /\ Tail(s)[j] = s[j + 1]
        BY <1>1, <2>1, <3>2
      <4>2. QED
        BY <2>1, <4>1
    <3>3. QED
      BY <2>1, <3>1, <3>2 DEF LastWord
  <2>4. QED
    BY <2>2, <2>3
<1>4. QED
  BY <1>2, <1>3

\* Taking a line keeps the word of the device, unless the line itself was the last
\* word about i.
LEMMA HeldAfterLine ==
    ASSUME TypeOK, NEW type, Receive(type), Expected, MirrorInv,
           UNCHANGED <<unwatched, devInputs>>, NEW i \in Inputs,
           ~Concerns(Head(toKe), i) => UNCHANGED inputsRead /\ (i \in inputs' <=> i \in inputs)
    PROVE  \/ i \in unwatched' \/ LastWord(toKe', i, devInputs') \/ Held(i)'
           \/ /\ NoWord(toKe', i)
              /\ Concerns(Head(toKe), i) /\ (Says(Head(toKe), i) <=> i \in devInputs)
<1>1. toKe \in Seq(Line) /\ toKe # <<>> /\ toKe' = Tail(toKe)
  BY ReceiveType DEF TypeOK
<1>2. i \in unwatched \/ LastWord(toKe, i, devInputs) \/ Held(i)
  BY DEF MirrorInv
<1>3. CASE LastWord(toKe, i, devInputs)
  BY <1>1, <1>3, WordTaken
<1>4. CASE Held(i)
  <2>1. NoWord(toKe', i) /\ ~Concerns(Head(toKe), i)
    BY <1>1, <1>4, WordTaken DEF Held
  <2>2. QED
    BY <1>4, <2>1 DEF Held
<1>5. QED
  BY <1>2, <1>3, <1>4

\* A step that touches neither the lines nor what they are compared with.
MirrorFrame == <<toKe, inputsRead, inputs, devInputs, unwatched>>

\* What does not touch lines, inputs and history keeps the mirror.
LEMMA MirrorFrameKeeps ==
    ASSUME MirrorInv, UNCHANGED MirrorFrame PROVE MirrorInv'
  BY DEF MirrorFrame, MirrorInv, Expected, Held

\* A line taken from the queue was expected, if it is expected afterwards.
LEMMA ExpectedBefore ==
    ASSUME TypeOK, NEW type, Receive(type), Expected', type = "RD" \/ UNCHANGED inputsRead
    PROVE  Expected
<1>1. /\ Len(toKe') = Len(toKe) - 1 /\ Len(toKe) \in Nat /\ Len(toKe) >= 1
      /\ \A k \in 1..Len(toKe') : k + 1 \in 1..Len(toKe) /\ toKe'[k] = toKe[k + 1]
      /\ 1 \in 1..Len(toKe) /\ toKe[1].type = type
  <2>1. toKe \in Seq(Line) /\ toKe # <<>> /\ toKe' = Tail(toKe) /\ Head(toKe).type = type
    BY ReceiveType DEF TypeOK
  <2>2. /\ Len(toKe') = Len(toKe) - 1 /\ Len(toKe) \in Nat /\ Len(toKe) >= 1
        /\ \A k \in 1..Len(toKe') : toKe'[k] = toKe[k + 1]
        /\ Head(toKe) = toKe[1]
    BY <2>1, HeadTailProperties, EmptySeq
  <2>3. QED
    BY <2>1, <2>2
<1>2. QED
  BY <1>1 DEF Expected

\* Every step keeps the mirror.
LEMMA MirrorStep ==
    ASSUME TypeOK, TypeOK', SessionInv, MirrorInv, [MCNext]_mcVars PROVE MirrorInv'
<1>1. ASSUME MCDisconnected PROVE MirrorInv'
  <2>1. ~inputsRead' /\ Len(toKe') = 0
    BY <1>1 DEF MCDisconnected, SocketDisconnected, InitIO
  <2>2. QED
    BY <2>1 DEF MirrorInv, Expected
<1>2. ASSUME NEW i \in Inputs, MCDeviceInput(i) PROVE MirrorInv'
  <2> DEFINE m == [type |-> "EVT", input |-> i, on |-> i \notin devInputs]
  <2>1. /\ UNCHANGED <<inputsRead, inputs>>
        /\ devInputs' = IF i \in devInputs THEN devInputs \ {i} ELSE devInputs \cup {i}
        /\ toKe' = IF Connected /\ devEvents THEN Append(toKe, m) ELSE toKe
        /\ unwatched' = IF devEvents THEN unwatched ELSE unwatched \cup {i}
    BY <1>2 DEF MCDeviceInput, DeviceInput, objectVars
  <2>2. /\ m \in Line /\ toKe \in Seq(Line)
        /\ \A j : Concerns(m, j) <=> j = i
        /\ Says(m, i) <=> i \in devInputs'
        /\ \A j \in Inputs : j # i => (j \in devInputs' <=> j \in devInputs)
    BY <2>1 DEF Line, Concerns, Says, TypeOK
  <2>3. CASE Connected /\ devEvents
    <3>1. toKe' = Append(toKe, m) /\ m.type # "RD" /\ unwatched' = unwatched
      BY <2>1, <2>3
    <3> HIDE DEF m
    <3>2. Expected' => Expected
      <4>1. /\ Len(toKe') = Len(toKe) + 1 /\ Len(toKe) \in Nat
            /\ \A k \in 1..Len(toKe) : toKe'[k] = toKe[k]
            /\ toKe'[Len(toKe) + 1] = m
        BY <2>2, <3>1, AppendProperties, LenProperties
      <4>2. \A k \in 1..Len(toKe') : k \in 1..Len(toKe) \/ k = Len(toKe) + 1
        BY <4>1
      <4>3. QED
        BY <2>1, <3>1, <4>1, <4>2 DEF Expected
    <3>3. LastWord(toKe', i, devInputs')
      BY <2>2, <3>1, WordSent
    <3>4. ASSUME Expected, NEW j \in Inputs, j # i
          PROVE  j \in unwatched' \/ LastWord(toKe', j, devInputs') \/ Held(j)'
      <4>1. ~Concerns(m, j) /\ (j \in devInputs' <=> j \in devInputs)
        BY <2>2, <3>4
      <4>2. LastWord(toKe, j, devInputs) => LastWord(toKe', j, devInputs)
        BY <2>2, <3>1, <4>1, WordSent
      <4>3. LastWord(toKe', j, devInputs) => LastWord(toKe', j, devInputs')
        BY <4>1 DEF LastWord
      <4>4. Held(j) => Held(j)'
        BY <2>1, <2>2, <3>1, <4>1, WordSent DEF Held
      <4>5. QED
        BY <3>1, <3>4, <4>2, <4>3, <4>4 DEF MirrorInv
    <3>5. QED
      BY <3>2, <3>3, <3>4 DEF MirrorInv
  <2>4. CASE ~Connected
    <3>1. ~inputsRead' /\ toKe' = <<>>
      BY <2>1, <2>4 DEF SessionInv, ForgottenInv, OrderInv
    <3>2. QED
      BY <3>1 DEF MirrorInv, Expected
  <2>5. CASE Connected /\ ~devEvents
    <3>1. toKe' = toKe /\ unwatched' = unwatched \cup {i} /\ (Expected' <=> Expected)
      BY <2>1, <2>5 DEF Expected
    <3>2. ASSUME NEW j \in Inputs, j # i
          PROVE  /\ LastWord(toKe, j, devInputs) => LastWord(toKe', j, devInputs')
                 /\ Held(j) => Held(j)'
      BY <2>1, <2>2, <3>1, <3>2 DEF LastWord, Held
    <3>3. QED
      BY <3>1, <3>2 DEF MirrorInv
  <2>6. QED
    BY <2>3, <2>4, <2>5
<1>3. ASSUME MCDeviceAnswers PROVE MirrorInv'
  <2> DEFINE c == Head(toDev)
  <2>1. /\ c \in Commands /\ toKe' = Append(toKe, Answer(c)) /\ toKe \in Seq(Line)
        /\ UNCHANGED <<inputsRead, inputs, devInputs>>
        /\ unwatched' = IF c = "RD" THEN {} ELSE unwatched
    BY <1>3, HeadTailProperties DEF MCDeviceAnswers, DeviceAnswers, objectVars, TypeOK
  <2>2. Answer(c) \in Line /\ Answer(c).type # "EVT" /\ (Answer(c).type = "RD" <=> c = "RD")
    BY <2>1, AnswerType
  <2> HIDE DEF c
  <2>3. CASE c = "RD"
    <3>1. \A i : Concerns(Answer(c), i) /\ (Says(Answer(c), i) <=> i \in devInputs)
      BY <2>3 DEF Answer, Concerns, Says
    <3>2. \A i \in Inputs : LastWord(toKe', i, devInputs)
      BY <2>1, <2>2, <3>1, WordSent
    <3>3. QED
      BY <2>1, <3>2 DEF MirrorInv
  <2>4. CASE c # "RD"
    <3>1. \A i : ~Concerns(Answer(c), i)
      BY <2>2, <2>4 DEF Concerns
    <3>2. Expected' => Expected
      <4>1. /\ Len(toKe') = Len(toKe) + 1 /\ Len(toKe) \in Nat
            /\ \A k \in 1..Len(toKe) : toKe'[k] = toKe[k]
            /\ toKe'[Len(toKe) + 1] = Answer(c)
        BY <2>1, <2>2, AppendProperties, LenProperties
      <4>2. \A k \in 1..Len(toKe') : k \in 1..Len(toKe) \/ k = Len(toKe) + 1
        BY <4>1
      <4>3. QED
        BY <2>1, <2>2, <2>4, <4>1, <4>2 DEF Expected
    <3>3. ASSUME NEW i \in Inputs
          PROVE  /\ LastWord(toKe, i, devInputs) => LastWord(toKe', i, devInputs')
                 /\ Held(i) => Held(i)'
      BY <2>1, <2>2, <3>1, WordSent DEF Held
    <3>4. QED
      BY <2>1, <2>4, <3>2, <3>3 DEF MirrorInv
  <2>5. QED
    BY <2>3, <2>4
<1>4. ASSUME MCOther, RecvRD PROVE MirrorInv'
  <2>1. /\ Receive("RD") /\ inputs' = Head(toKe).bits /\ inputsRead'
        /\ UNCHANGED <<unwatched, devInputs>>
    BY <1>4 DEF MCOther, hist, RecvRD
  <2>2. Head(toKe).type = "RD"
    BY <2>1 DEF Receive
  <2>3. ASSUME NEW i \in Inputs
        PROVE  i \in unwatched' \/ LastWord(toKe', i, devInputs') \/ Held(i)'
    <3>1. Concerns(Head(toKe), i) /\ (Says(Head(toKe), i) <=> i \in inputs')
      BY <2>1, <2>2 DEF Concerns, Says
    <3>2. Expected
      BY <2>1, ExpectedBefore DEF Expected
    <3>3. \/ i \in unwatched' \/ LastWord(toKe', i, devInputs') \/ Held(i)'
          \/ /\ NoWord(toKe', i)
             /\ Concerns(Head(toKe), i) /\ (Says(Head(toKe), i) <=> i \in devInputs)
      BY <2>1, <3>1, <3>2, HeldAfterLine
    <3>4. QED
      BY <2>1, <3>1, <3>3 DEF Held
  <2>4. QED
    BY <2>3 DEF MirrorInv
<1>5. ASSUME MCEventLive \/ \E late \in BOOLEAN : MCEventPast(late) PROVE MirrorInv'
  <2>1. /\ Receive("EVT") /\ inputs' = WithEvent(Head(toKe))
        /\ UNCHANGED <<inputsRead, unwatched, devInputs>>
    BY <1>5 DEF MCEventLive, MCEventPast, RecvEventLive, RecvEventPast
  <2>2. Head(toKe).type = "EVT"
    BY <2>1 DEF Receive
  <2>3. ASSUME Expected', NEW i \in Inputs
        PROVE  i \in unwatched' \/ LastWord(toKe', i, devInputs') \/ Held(i)'
    <3>1. Expected
      BY <2>1, <2>3, ExpectedBefore
    <3>2. ASSUME ~Concerns(Head(toKe), i) PROVE i \in inputs' <=> i \in inputs
      BY <2>1, <2>2, <3>2 DEF Concerns, WithEvent
    <3>3. CASE /\ NoWord(toKe', i)
               /\ Concerns(Head(toKe), i) /\ (Says(Head(toKe), i) <=> i \in devInputs)
      <4>1. \A k \in 1..Len(toKe') : toKe'[k].type # "RD"
        BY <3>3 DEF NoWord, Concerns
      <4>2. inputsRead
        BY <2>1, <2>3, <4>1 DEF Expected
      <4>3. i \in inputs' <=> Head(toKe).on
        BY <2>1, <2>2, <3>3, <4>2 DEF WithEvent, Concerns
      <4>4. QED
        BY <2>1, <2>2, <3>3, <4>2, <4>3 DEF Held, Says
    <3>4. QED
      BY <2>1, <3>1, <3>2, <3>3, HeldAfterLine
  <2>4. QED
    BY <2>3 DEF MirrorInv
<1>6. ASSUME MCOther, RecvOK \/ RecvEvtOK \/ RecvTime PROVE MirrorInv'
  <2>1. /\ UNCHANGED <<inputsRead, inputs, unwatched, devInputs>>
        /\ Receive("OK") \/ Receive("EVTOK") \/ Receive("INT")
    BY <1>6 DEF MCOther, hist, RecvOK, RecvEvtOK, RecvTime, objectVars
  <2>2. PICK type \in {"OK", "EVTOK", "INT"} : Receive(type)
    BY <2>1
  <2>3. ASSUME Expected', NEW i \in Inputs
        PROVE  i \in unwatched' \/ LastWord(toKe', i, devInputs') \/ Held(i)'
    <3>1. Expected
      BY <2>1, <2>2, <2>3, ExpectedBefore
    <3>2. ~Concerns(Head(toKe), i)
      BY <2>2 DEF Receive, Concerns
    <3>3. QED
      BY <2>1, <2>2, <3>1, <3>2, HeldAfterLine
  <2>4. QED
    BY <2>3 DEF MirrorInv
<1>7. ASSUME \/ MCConnected \/ MCCodeTimeout \/ UNCHANGED mcVars
             \/ MCOther /\ ~(RecvRD \/ RecvOK \/ RecvEvtOK \/ RecvTime)
      PROVE  UNCHANGED MirrorFrame
  BY <1>7 DEF MCConnected, SocketConnected, MCCodeTimeout, CodeTimeout, MCOther, SetProperty,
              ConnectTimeout, ConnectFails, hist, mcVars, vars, objectVars, MirrorFrame
<1>8. QED
  BY <1>1, <1>2, <1>3, <1>4, <1>5, <1>6, <1>7, MirrorFrameKeeps DEF MCNext

\* Once the inputs are read, an input agrees with the device's line as soon as no
\* report of it is in flight, but for what moved in the gap the login leaves.
THEOREM MirrorsDeviceHolds == MCSpec => []MirrorsDevice
<1>1. MCInit => MirrorInv
  <2> SUFFICES ASSUME MCInit PROVE MirrorInv
    OBVIOUS
  <2>1. ~inputsRead /\ toKe = <<>>
    BY DEF MCInit, Init
  <2>2. QED
    BY <2>1 DEF MirrorInv, Expected
<1>2. TypeOK /\ TypeOK' /\ SessionInv /\ MirrorInv /\ [MCNext]_mcVars => MirrorInv'
  BY MirrorStep
<1>3. TypeOK /\ ReadInv /\ MirrorInv => MirrorsDevice
  <2> SUFFICES ASSUME TypeOK, ReadInv, MirrorInv, inputsRead, NEW i \in Inputs, i \notin unwatched
               PROVE  \/ \E k \in 1..Len(toKe) : toKe[k].type = "EVT" /\ toKe[k].input = i
                      \/ i \in inputs <=> i \in devInputs
    BY DEF MirrorsDevice
  <2>1. \A k \in 1..Len(toKe) : toKe[k].type # "RD"
    <3>1. Readings \in Nat /\ Count(toKe, RdLines) \in Nat /\ Count(toDev, RdCommands) \in Nat
      BY CountType DEF TypeOK, Readings
    <3>2. Count(toKe, RdLines) = 0
      BY <3>1 DEF ReadInv, Read, Readings
    <3>3. \A k \in 1..Len(toKe) : toKe[k] \in Line /\ toKe[k] \notin RdLines
      BY <3>2, CountType, ElementOfSeq DEF TypeOK
    <3>4. QED
      BY <3>3 DEF RdLines
  <2>2. LastWord(toKe, i, devInputs) \/ Held(i)
    BY DEF MirrorInv, Expected
  <2>3. QED
    BY <2>1, <2>2 DEF LastWord, Held, Concerns
<1>4. QED
  BY <1>1, <1>2, <1>3, TypeCorrect, SessionInvHolds, ReadInvHolds, HistoryWatches, PTL DEF MCSpec
=============================================================================
