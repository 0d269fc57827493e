------------------------------ MODULE MCKeTcp ------------------------------
(***************************************************************************)
(* The device session of KeTcp for TLC, with history variables that relate *)
(* what the object believes and records to what happened at the device.    *)
(***************************************************************************)
EXTENDS KeTcp, FiniteSets

CONSTANTS
    MaxFlips,      \* bound: changes of the device's input lines
    MaxSessions    \* bound: connections made

VARIABLES
    flips,      \* changes of the device's inputs so far
    sessions,   \* connections so far
    records,    \* production records written so far
    unwatched,  \* inputs that changed while the device reported no changes,
                \* since it last answered "RD"
    past        \* inputs changed only by inputsWasChanged events since the
                \* last inputsChanged of this session

hist == <<flips, sessions, records, unwatched, past>>
mcVars == <<vars, hist>>

MCInit ==
    /\ Init
    /\ flips = 0 /\ sessions = 0 /\ records = 0
    /\ unwatched = {} /\ past = {}

MCConnected ==
    /\ sessions < MaxSessions
    /\ SocketConnected
    /\ sessions' = sessions + 1
    /\ UNCHANGED <<flips, records, unwatched, past>>

MCDisconnected ==
    /\ SocketDisconnected
    /\ past' = {}
    /\ UNCHANGED <<flips, sessions, records, unwatched>>

MCCodeTimeout ==
    /\ CodeTimeout
    /\ records' = IF inputCode # {} THEN records + 1 ELSE records
    /\ UNCHANGED <<flips, sessions, unwatched, past>>

MCDeviceInput(i) ==
    /\ flips < MaxFlips
    /\ DeviceInput(i)
    /\ flips' = flips + 1
    /\ unwatched' = IF devEvents THEN unwatched ELSE unwatched \cup {i}
    /\ UNCHANGED <<sessions, records, past>>

MCDeviceAnswers ==
    /\ DeviceAnswers
    /\ unwatched' = IF Head(toDev) = "RD" THEN {} ELSE unwatched
    /\ UNCHANGED <<flips, sessions, records, past>>

MCEventPast(late) ==
    /\ RecvEventPast(late)
    /\ past' = past \cup {i \in Inputs : i \in inputs' <=> i \notin inputs}
    /\ UNCHANGED <<flips, sessions, records, unwatched>>

MCEventLive ==
    /\ RecvEventLive
    /\ past' = {}
    /\ UNCHANGED <<flips, sessions, records, unwatched>>

MCOther ==
    /\ \/ \E p \in Properties : SetProperty(p)
       \/ ConnectTimeout
       \/ ConnectFails
       \/ RecvOK
       \/ RecvEvtOK
       \/ RecvRD
       \/ RecvTime
    /\ UNCHANGED hist

MCNext ==
    \/ MCConnected
    \/ MCDisconnected
    \/ MCCodeTimeout
    \/ \E i \in Inputs : MCDeviceInput(i)
    \/ MCDeviceAnswers
    \/ \E late \in BOOLEAN : MCEventPast(late)
    \/ MCEventLive
    \/ MCOther

MCSpec == MCInit /\ [][MCNext]_mcVars

-----------------------------------------------------------------------------
\* One physical change is recorded as at most one produced part, and a new
\* session adds at most one record of a part already there (its first reading is
\* reported as a change): the single-shot icsTimer and the reset of inputCode
\* keep a code from being recorded again, also over a lost connection.
RecordsBounded == records <= flips + sessions

\* Once the inputs are read, an input agrees with the device's line as soon as
\* no report of it is in flight.  The exception is the gap the login leaves: a
\* line that moved after "RD" was answered and before "EVT,ON" took effect.
MirrorsDevice ==
    inputsRead =>
        \A i \in Inputs :
            \/ i \in unwatched
            \/ \E k \in 1..Len(toKe) : toKe[k].type = "EVT" /\ toKe[k].input = i
            \/ i \in inputs <=> i \in devInputs

\* The code waiting to be recorded is that of the inputs, but for the inputs
\* whose events were taken as past ones.
CodeFollowsInputs ==
    \A i \in Inputs : i \in past \/ (i \in inputCode <=> i \in inputs)
=============================================================================
