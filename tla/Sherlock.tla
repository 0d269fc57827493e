------------------------------ MODULE Sherlock ------------------------------
(***************************************************************************)
(* SherlockManager and the camera at the other end of its connection: the  *)
(* reconnect timer, the state machine VisuonRun() makes for a session, its *)
(* timer, and the handlers of lines, of which every session adds one.      *)
(* A slot runs to completion and is an action.                             *)
(***************************************************************************)
EXTENDS Naturals, Sequences

CONSTANTS MaxSessions,  \* bound: connections made
          MaxUnderWay   \* bound: commands or lines on their way when the timer fires

ASSUME BoundsAssumption == MaxSessions \in Nat /\ MaxUnderWay \in Nat

VARIABLES
    sock,           \* tcpSocket
    connectTimer,   \* is active
    handlers,       \* VisuonRun() calls so far: each connected one handler of lineReceived
    vision,         \* the state machine: its state, "starting" while a start is queued
    initTimer,      \* runs
    cmds, lines,    \* on their way to the camera, and from it
    camera,         \* what the camera does
    slow            \* the camera may take longer than initTimer for an answer

vars == <<sock, connectTimer, handlers, vision, initTimer, cmds, lines, camera, slow>>

Ends  == {"RESULT", "RESULT_NOK", "ER"}
Lines == Ends \cup {"INITOK", "INSPECTING_ON"}

TypeOK ==
    /\ sock \in {"off", "connecting", "on"}
    /\ connectTimer \in BOOLEAN
    /\ handlers \in 0..MaxSessions
    /\ vision \in {"none", "starting", "INIT", "INITOK", "INSPECTING"}
    /\ vision # "none" <=> sock = "on"
    /\ initTimer \in BOOLEAN
    /\ cmds \in Seq({"INIT", "EXEC"}) /\ lines \in Seq(Lines)
    /\ camera \in {"idle", "ready", "inspecting"}
    /\ slow \in BOOLEAN

\* The address and the port are set and their setters have begun to connect.
Init ==
    /\ sock = "connecting" /\ connectTimer = TRUE
    /\ handlers = 0 /\ vision = "none" /\ initTimer = FALSE
    /\ cmds = <<>> /\ lines = <<>>
    /\ camera = "idle" /\ slow \in BOOLEAN
-----------------------------------------------------------------------------
(* The connection *)

\* Mutant: the timer is a single shot.
ConnectTimeoutOnce ==
    /\ connectTimer /\ sock = "off"
    /\ sock' = "connecting" /\ connectTimer' = FALSE
    /\ UNCHANGED <<handlers, vision, initTimer, cmds, lines, camera, slow>>

\* The timer repeats, and tries again unless an attempt is under way.
startConnecting ==
    /\ connectTimer /\ sock = "off"
    /\ sock' = "connecting"
    /\ UNCHANGED <<connectTimer, handlers, vision, initTimer, cmds, lines, camera, slow>>

\* An error of the socket has no slot.
ConnectFails ==
    /\ sock = "connecting"
    /\ sock' = "off"
    /\ UNCHANGED <<connectTimer, handlers, vision, initTimer, cmds, lines, camera, slow>>

\* connected(), and VisuonRun() within it: a new machine with a timer that is not started.
VisuonRun ==
    /\ sock = "connecting" /\ handlers < MaxSessions
    /\ sock' = "on" /\ connectTimer' = FALSE
    /\ handlers' = handlers + 1
    /\ vision' = "starting" /\ initTimer' = FALSE
    /\ UNCHANGED <<cmds, lines, camera, slow>>

\* Mutant: nothing stops the machine of the last session.
DisconnectedRuns ==
    /\ sock = "on"
    /\ sock' = "off" /\ connectTimer' = TRUE
    /\ cmds' = <<>> /\ lines' = <<>>
    /\ UNCHANGED <<handlers, vision, initTimer, camera, slow>>

\* disconnected(): the machine and its timer are stopped and deleted, as often as there
\* are handlers.  The handlers of lines stay.
Disconnected ==
    /\ sock = "on"
    /\ sock' = "off" /\ connectTimer' = TRUE
    /\ vision' = "none" /\ initTimer' = FALSE
    /\ cmds' = <<>> /\ lines' = <<>>
    /\ UNCHANGED <<handlers, camera, slow>>
-----------------------------------------------------------------------------
(* The machine *)

\* The queued start of the machine enters INIT.
Start ==
    /\ vision = "starting"
    /\ vision' = "INIT" /\ cmds' = Append(cmds, "INIT")
    /\ UNCHANGED <<sock, connectTimer, handlers, initTimer, lines, camera, slow>>

\* Mutant: EXEC is sent by the handler, not on entry of INITOK.
HandleSends(m, l) ==
    CASE l = "INITOK"                            -> [at |-> "INITOK", cmds |-> Append(m.cmds, "EXEC")]
      [] m.at = "INITOK" /\ l = "INSPECTING_ON"  -> [m EXCEPT !.at = "INSPECTING"]
      [] m.at = "INSPECTING" /\ l \in Ends       -> [m EXCEPT !.at = "starting"]
      [] OTHER                                   -> m

\* The signal a handler emits for a line takes the machine to its next state at once; one
\* that finishes is started again, which is queued.  Other lines do nothing to it.
Handle(m, l) ==
    CASE m.at = "INIT" /\ l = "INITOK"           -> [at |-> "INITOK", cmds |-> Append(m.cmds, "EXEC")]
      [] m.at = "INITOK" /\ l = "INSPECTING_ON"  -> [m EXCEPT !.at = "INSPECTING"]
      [] m.at = "INSPECTING" /\ l \in Ends       -> [m EXCEPT !.at = "starting"]
      [] OTHER                                   -> m

\* Every handler connected so far takes the line in turn.
Handled(l) ==
    LET after[k \in 0..handlers] ==
            IF k = 0 THEN [at |-> vision, cmds |-> cmds] ELSE Handle(after[k - 1], l)
    IN  after[handlers]

lineReceived ==
    /\ sock = "on" /\ lines # <<>>
    /\ vision' = Handled(Head(lines)).at /\ cmds' = Handled(Head(lines)).cmds
    /\ lines' = Tail(lines)
    /\ initTimer' = TRUE
    /\ UNCHANGED <<sock, connectTimer, handlers, camera, slow>>

\* Mutant: the timer is a single shot.
TimeoutOnce ==
    /\ initTimer
    /\ \/ slow /\ Len(cmds) < MaxUnderWay /\ Len(lines) < MaxUnderWay
       \/ cmds = <<>> /\ lines = <<>> /\ camera # "inspecting"
    /\ vision \in {"INIT", "INITOK", "INSPECTING"}
    /\ vision' = "INIT" /\ cmds' = Append(cmds, "INIT") /\ initTimer' = FALSE
    /\ UNCHANGED <<sock, connectTimer, handlers, lines, camera, slow>>

\* initTimer repeats every 5 s from the last line on, and takes the machine to INIT.
\* It fires while an answer is still to come only if the camera is slow.
Timeout ==
    /\ initTimer
    /\ \/ slow /\ Len(cmds) < MaxUnderWay /\ Len(lines) < MaxUnderWay
       \/ cmds = <<>> /\ lines = <<>> /\ camera # "inspecting"
    /\ vision \in {"INIT", "INITOK", "INSPECTING"}
    /\ vision' = "INIT" /\ cmds' = Append(cmds, "INIT")
    /\ UNCHANGED <<sock, connectTimer, handlers, initTimer, lines, camera, slow>>
-----------------------------------------------------------------------------
(* The camera, which goes on with an inspection when the connection is lost *)

\* It does as it is told and says so.
CameraObeys ==
    /\ cmds # <<>> /\ cmds' = Tail(cmds)
    /\ \/ Head(cmds) = "INIT" /\ camera' = "ready" /\ lines' = Append(lines, "INITOK")
       \/ /\ Head(cmds) = "EXEC" /\ camera = "ready"
          /\ camera' = "inspecting" /\ lines' = Append(lines, "INSPECTING_ON")
    /\ UNCHANGED <<sock, connectTimer, handlers, vision, initTimer, slow>>

\* It reports an error or nothing, and has done nothing.
CameraRefuses ==
    /\ cmds # <<>> /\ cmds' = Tail(cmds)
    /\ lines' \in {lines, Append(lines, "ER")}
    /\ UNCHANGED <<sock, connectTimer, handlers, vision, initTimer, camera, slow>>

\* An inspection ends and is reported to whom is connected.
CameraReports ==
    /\ camera = "inspecting" /\ camera' = "idle"
    /\ IF sock = "on" THEN \E l \in Ends : lines' = Append(lines, l) ELSE lines' = lines
    /\ UNCHANGED <<sock, connectTimer, handlers, vision, initTimer, cmds, slow>>

\* An inspection ends without a report.
CameraForgets ==
    /\ camera = "inspecting" /\ camera' = "idle"
    /\ UNCHANGED <<sock, connectTimer, handlers, vision, initTimer, cmds, lines, slow>>

Next ==
    \/ startConnecting \/ ConnectFails \/ VisuonRun \/ Disconnected
    \/ Start \/ lineReceived \/ Timeout
    \/ CameraObeys \/ CameraRefuses \/ CameraReports \/ CameraForgets

Spec == Init /\ [][Next]_vars

\* The event loop serves its timers and what has arrived; attempts to connect end and do
\* not fail for ever; the camera deals with what it is told, and one that is asked again
\* and again does it some day.
Fairness ==
    /\ WF_vars(startConnecting) /\ WF_vars(ConnectFails \/ VisuonRun) /\ SF_vars(VisuonRun)
    /\ WF_vars(Start) /\ WF_vars(lineReceived) /\ WF_vars(Timeout)
    /\ WF_vars(CameraObeys \/ CameraRefuses) /\ WF_vars(CameraReports \/ CameraForgets)
    /\ SF_vars(CameraObeys /\ Head(cmds) = "INIT") /\ SF_vars(CameraObeys /\ Head(cmds) = "EXEC")
    /\ SF_vars(CameraReports)

FairSpec == Spec /\ Fairness
-----------------------------------------------------------------------------
(* Properties *)

\* However many handlers take each line, a camera that answers in time is given EXEC only
\* when it is ready; neither an inspection left over from a lost session nor a refusal or
\* a repeated INIT changes that.
ExecWhenReady == ~slow /\ cmds # <<>> /\ Head(cmds) = "EXEC" => camera = "ready"

\* Once the camera has said anything in a session the inspections go on: whatever answers
\* it leaves out, the machine comes to the end of one and starts anew.
Recovers == (initTimer /\ ~slow) ~> (vision = "starting" \/ sock # "on")

\* A camera that is not connected is connected again.
Reconnects == sock = "off" ~> (sock = "on" \/ handlers = MaxSessions)
=============================================================================
