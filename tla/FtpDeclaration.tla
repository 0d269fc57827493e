--------------------------- MODULE FtpDeclaration ---------------------------
(***************************************************************************)
(* The hourly declaration of production: the client's main thread asks for *)
(* the parts made, writes them into the device's one QBuffer and has QFtp  *)
(* append it to a new file; what commandFinished says of the transfer is   *)
(* declared to the server.  QFtp runs in a thread of its own and talks to  *)
(* the FTP server through a control and a data connection.                 *)
(*                                                                         *)
(* A slot is a step.  QFtp and its parts QFtpPI and QFtpDTP are one record, *)
(* and a slot is an operator from records to records.  No list has more    *)
(* than the 16 KB of a block; the minute in a file's name is always new.   *)
(***************************************************************************)
EXTENDS Naturals, Sequences

CONSTANTS MaxLists,     \* bound: lists of parts
          MaxRows       \* bound: parts in a list

ASSUME BoundsAssumption == MaxLists \in Nat /\ MaxRows \in Nat \ {0}

Lists == 1..MaxLists
NoList == 0             \* and no command: those of transfers are counted like the lists
Commands == {[kind |-> k, id |-> NoList] : k \in {"ConnectToHost", "Login"}}
                \cup {[kind |-> "Put", id |-> n] : n \in Lists}
RawCommands == {"USER", "PASS", "TYPE", "SIZE", "PASV", "ALLO", "APPE"}

VARIABLES
    lists,      \* lists received so far
    sizes,      \* history: their lengths
    due,        \* the list whose zero timer runs
    setting,    \* putBuf() has returned this command, the buffer does not yet name it
    ftp,        \* QFtp, the buffer and what is declared, see Ftp
    files,      \* the files the server has confirmed: the lists their rows are from
    overrun     \* history: a list came while a command was not yet done

vars == <<lists, sizes, due, setting, ftp, files, overrun>>
mainVars == <<lists, sizes, due, setting, overrun>>

Ftp ==
    [rows : Seq(Lists), pos : Nat,              \* QBuffer: the list each row is from
     task : Lists \cup {NoList},                \* its properties
     command : Lists \cup {NoList},
     declared : SUBSET [task : Lists, written : BOOLEAN],
     pending : Seq(Commands),                   \* QFtpPrivate
     state : {"Unconnected", "Connecting", "Connected", "LoggedIn"},
     kick : BOOLEAN,                            \* _q_startNextCommand is queued
     dropped : SUBSET Lists,                    \* history: transfers never answered
     socket : {"closed", "opening", "open"},    \* QFtpPI
     pi : {"Begin", "Idle", "Waiting"},
     cmds : Seq(RawCommands),
     cur : RawCommands \cup {"none"},
     waitForDtpToConnect : BOOLEAN,
     dtp : {"none", "connecting", "open"},      \* QFtpDTP
     device : BOOLEAN,                          \* data.dev is set
     begun : BOOLEAN, sent : Seq(Lists),        \* the transfer was begun, and with what
     refused : SUBSET Lists,                    \* history: answered by 550
     alive : BOOLEAN]

TypeOK ==
    /\ lists \in 0..MaxLists /\ sizes \in [1..lists -> 1..MaxRows]
    /\ {due, setting} \subseteq Lists \cup {NoList}
    /\ ftp \in Ftp /\ ftp.pos <= Len(ftp.rows)
    /\ DOMAIN files \subseteq Lists /\ \A n \in DOMAIN files : files[n] \in Seq(Lists)
    /\ overrun \in BOOLEAN

Init ==
    /\ lists = 0 /\ sizes = <<>> /\ due = NoList /\ setting = NoList
    /\ ftp = [rows |-> <<>>, pos |-> 0, task |-> NoList, command |-> NoList, declared |-> {},
              pending |-> <<>>, state |-> "Unconnected", kick |-> FALSE, dropped |-> {},
              socket |-> "closed", pi |-> "Begin", cmds |-> <<>>, cur |-> "none",
              waitForDtpToConnect |-> FALSE, dtp |-> "none", device |-> FALSE,
              begun |-> FALSE, sent |-> <<>>, refused |-> {}, alive |-> TRUE]
    /\ files = <<>> /\ overrun = FALSE
-----------------------------------------------------------------------------
(* QFtpPrivate and QFtpPI *)

RawOf(c) == IF c.kind = "Login" THEN <<"USER", "PASS">>
            ELSE <<"TYPE", "SIZE", "PASV", "ALLO", "APPE">>

\* Mutant: the buffer is cleared but not closed.
commandFinishedOpen(f, failed) ==
    LET c == Head(f.pending)
    IN  IF c.id # NoList /\ c.id = f.command
        THEN [f EXCEPT !.rows = <<>>,
                       !.declared = @ \cup {[task |-> f.task, written |-> ~failed]}]
        ELSE f

\* The client's slot, run in QFtp's thread.
commandFinished(f, failed) ==
    LET c == Head(f.pending)
    IN  IF c.id # NoList /\ c.id = f.command
        THEN [f EXCEPT !.rows = <<>>, !.pos = 0,
                       !.declared = @ \cup {[task |-> f.task, written |-> ~failed]}]
        ELSE f

\* An error ends the command under way, is silent about those behind it and drops them.
piError(f) ==
    LET c == Head(f.pending)
        cleared == [f EXCEPT !.cmds = <<>>, !.dtp = "none", !.device = FALSE,
                             !.cur = "none", !.pi = "Idle", !.begun = FALSE]
    IN  IF f.pending = <<>> \/ (c.kind = "Put" /\ f.cur = "ALLO") THEN f
        ELSE [commandFinished(cleared, TRUE) EXCEPT
                 !.pending = <<>>,
                 !.dropped = @ \cup ({Tail(f.pending)[i].id : i \in 1..Len(Tail(f.pending))}
                                        \ {NoList})]

\* The first raw command; none is sent before the data connection is there.
firstCmd(f) ==
    IF f.waitForDtpToConnect THEN f
    ELSE [f EXCEPT !.cur = Head(f.cmds), !.cmds = Tail(f.cmds), !.pi = "Waiting"]

sendCommands(f, raw) ==
    CASE f.cmds # <<>> -> f
      [] f.cmds = <<>> /\ f.socket = "open" /\ f.pi = "Idle" ->
            firstCmd([f EXCEPT !.cmds = raw])
      [] OTHER -> piError(f)

\* A connection already open or opening is not opened again, and nothing will end the
\* command.
startNextCommand(f) ==
    IF f.pending = <<>> THEN f
    ELSE LET c == Head(f.pending)
         IN  CASE c.kind = "ConnectToHost" ->
                    [f EXCEPT !.state = "Connecting",
                              !.socket = IF @ = "closed" THEN "opening" ELSE @]
               [] c.kind = "Login" -> sendCommands(f, RawOf(c))
               [] c.kind = "Put" -> sendCommands([f EXCEPT !.device = TRUE], RawOf(c))

\* Mutant: the next command waits for another event.
piFinishedStops(f) ==
    IF f.pending = <<>> THEN f
    ELSE [commandFinished(f, FALSE) EXCEPT !.pending = Tail(@)]

piFinished(f) ==
    IF f.pending = <<>> THEN f
    ELSE startNextCommand([commandFinished(f, FALSE) EXCEPT !.pending = Tail(@)])

startNextCmd(f) ==
    IF f.waitForDtpToConnect \/ f.cmds # <<>> THEN firstCmd(f)
    ELSE piFinished([f EXCEPT !.cur = "none", !.begun = FALSE])

Success(f) == startNextCmd([f EXCEPT !.pi = "Idle"])
Failure(f) == startNextCmd([piError(f) EXCEPT !.pi = "Idle"])
-----------------------------------------------------------------------------
(* The main thread *)

\* The answer to the hourly query.  An open buffer is opened again: its rows stay, and
\* are written over from the start.  Within the hour a transfer may be stalled, but the
\* server has closed a data connection that nobody uses.
NewList(n) ==
    /\ ftp.alive /\ lists < MaxLists /\ due = NoList /\ setting = NoList
    /\ ftp.dtp = "open" => ftp.pending # <<>>
    /\ lists' = lists + 1 /\ due' = lists' /\ sizes' = Append(sizes, n)
    /\ ftp' = [ftp EXCEPT !.task = lists', !.pos = n,
                  !.rows = [i \in 1..n |-> lists'] \o SubSeq(@, n + 1, Len(@))]
    /\ overrun' = (overrun \/ ftp.pending # <<>>)
    /\ UNCHANGED <<setting, files>>

\* putBuf() and addCommand(): the connection is asked for first if there is none.
putBuf ==
    /\ ftp.alive /\ due # NoList
    /\ LET put == [kind |-> "Put", id |-> due]
           new == IF ftp.state = "Unconnected"
                  THEN <<[kind |-> "ConnectToHost", id |-> NoList],
                         [kind |-> "Login", id |-> NoList], put>>
                  ELSE <<put>>
       IN  ftp' = [ftp EXCEPT !.pending = @ \o new, !.kick = @ \/ ftp.pending = <<>>]
    /\ due' = NoList /\ setting' = due
    /\ UNCHANGED <<lists, sizes, overrun, files>>

\* The buffer is told its command only when putBuf() has returned.
SetCommand ==
    /\ ftp.alive /\ setting # NoList
    /\ ftp' = [ftp EXCEPT !.command = setting]
    /\ setting' = NoList
    /\ UNCHANGED <<lists, sizes, due, overrun, files>>
-----------------------------------------------------------------------------
(* QFtp's thread and the FTP server *)

\* No answer of the network is so fast that it falls between putBuf() and SetCommand;
\* Kick may.
Network == ftp.alive /\ setting = NoList

Kick ==
    /\ ftp.alive /\ ftp.kick
    /\ ftp' = startNextCommand([ftp EXCEPT !.kick = FALSE])
    /\ UNCHANGED <<mainVars, files>>

\* A host not found, a refusal and a timeout of Qt's end the command.  Any other error of
\* the socket, as of a host that cannot be reached, ends nothing: the state stays
\* "Connecting" and the command stays at the head.
Connect ==
    /\ Network /\ ftp.socket = "opening"
    /\ \/ ftp' = [ftp EXCEPT !.socket = "open", !.state = "Connected", !.pi = "Begin"]
       \/ ftp' = piError([ftp EXCEPT !.socket = "closed", !.state = "Unconnected"])
       \/ ftp' = [ftp EXCEPT !.socket = "closed"]
    /\ UNCHANGED <<mainVars, files>>

Greeting ==
    /\ Network /\ ftp.socket = "open" /\ ftp.pi = "Begin"
    /\ ftp' = piFinished([ftp EXCEPT !.pi = "Idle"])
    /\ UNCHANGED <<mainVars, files>>

Waiting == Network /\ ftp.socket = "open" /\ ftp.pi = "Waiting"

\* A command that is refused, or fails later.
ReplyFailure ==
    /\ Waiting
    /\ ftp' = Failure(ftp)
    /\ UNCHANGED <<mainVars, files>>

ReplyLogin ==
    /\ Waiting
    /\ \/ ftp.cur = "USER" /\ ftp' = Success(ftp)
       \/ ftp.cur = "USER" /\ ftp' = Success([ftp EXCEPT !.cmds = <<>>, !.state = "LoggedIn"])
       \/ ftp.cur = "PASS" /\ ftp' = Success([ftp EXCEPT !.state = "LoggedIn"])
    /\ UNCHANGED <<mainVars, files>>

\* Mutant: the buffer is not set back to its start.
ReplySizeStays ==
    /\ Waiting /\ ftp.cur = "SIZE"
    /\ ftp' = IF ftp.device THEN Success(ftp) ELSE [ftp EXCEPT !.alive = FALSE]
    /\ UNCHANGED <<mainVars, files>>

\* The new file is not there: 550 is read as "213 0", and the buffer, which stands behind
\* the rows just written, is set to its start.  Without a device that is a null pointer.
ReplySize ==
    /\ Waiting /\ ftp.cur = "SIZE"
    /\ ftp' = IF ftp.device THEN Success([ftp EXCEPT !.pos = 0])
              ELSE [ftp EXCEPT !.alive = FALSE]
    /\ UNCHANGED <<mainVars, files>>

\* The reply to PASV starts the data connection, those to TYPE and ALLO do nothing more.
ReplyTransfer ==
    /\ Waiting
    /\ \/ ftp.cur \in {"TYPE", "ALLO"} /\ ftp' = Success(ftp)
       \/ /\ ftp.cur = "PASV"
          /\ ftp' = Success([ftp EXCEPT !.waitForDtpToConnect = TRUE, !.dtp = "connecting"])
    /\ UNCHANGED <<mainVars, files>>

\* writeData() sends what the buffer holds from where it stands.
ReplyAppend ==
    /\ Waiting /\ ftp.cur = "APPE" /\ ~ftp.begun
    /\ ftp' = [ftp EXCEPT !.begun = TRUE, !.pos = Len(ftp.rows),
                  !.sent = IF ftp.device THEN SubSeq(ftp.rows, ftp.pos + 1, Len(ftp.rows))
                           ELSE <<>>]
    /\ UNCHANGED <<mainVars, files>>

\* A file that may not be written: 550, which is read as "213 0" here too.
ReplyRefused ==
    /\ Waiting /\ ftp.cur = "APPE" /\ ~ftp.begun
    /\ ftp' = Success([ftp EXCEPT !.refused = @ \cup {Head(ftp.pending).id}])
    /\ UNCHANGED <<mainVars, files>>

\* The server confirms the file when the data connection has ended.
ReplyDone ==
    /\ Waiting /\ ftp.cur = "APPE" /\ ftp.begun /\ ftp.dtp = "none"
    /\ LET n == Head(ftp.pending).id
       IN  files' = [m \in DOMAIN files \cup {n} |-> IF m = n THEN ftp.sent ELSE files[m]]
    /\ ftp' = Success(ftp)
    /\ UNCHANGED mainVars

DataConnected ==
    /\ Network /\ ftp.dtp = "connecting"
    /\ ftp' = startNextCmd([ftp EXCEPT !.dtp = "open", !.waitForDtpToConnect = FALSE])
    /\ UNCHANGED <<mainVars, files>>

\* A refused data connection is an error, one that times out is not; in both cases
\* waitForDtpToConnect stays.
DataFails ==
    /\ Network /\ ftp.dtp = "connecting"
    /\ ftp' \in {piError([ftp EXCEPT !.dtp = "none"]), [ftp EXCEPT !.dtp = "none"]}
    /\ UNCHANGED <<mainVars, files>>

\* All is written: the socket is closed.  The server closes the data connection it did
\* not use, whatever command is under way then.
DataClosed ==
    /\ Network /\ ftp.dtp = "open"
    /\ ftp.begun \/ (ftp.refused # {} /\ ftp.cur \in {"none", "TYPE", "SIZE", "PASV"})
    /\ ftp' = [ftp EXCEPT !.dtp = "none", !.device = FALSE]
    /\ UNCHANGED <<mainVars, files>>

\* The server closes the control connection, mostly because it was idle.  The command
\* under way, if any, is not ended.
ControlClosed ==
    /\ Network /\ ftp.socket = "open"
    /\ ftp' = [ftp EXCEPT !.socket = "closed", !.state = "Unconnected"]
    /\ UNCHANGED <<mainVars, files>>

Reply ==
    \/ ReplyFailure \/ ReplyLogin \/ ReplySize \/ ReplyTransfer
    \/ ReplyAppend \/ ReplyRefused \/ ReplyDone

Next ==
    \/ \E n \in 1..MaxRows : NewList(n)
    \/ putBuf \/ SetCommand
    \/ Kick \/ Connect \/ Greeting \/ Reply
    \/ DataConnected \/ DataFails \/ DataClosed \/ ControlClosed

Spec == Init /\ [][Next]_vars

\* Both event loops serve their events, a connection attempt ends, and the server answers
\* what it is asked.
Fairness ==
    /\ WF_vars(putBuf) /\ WF_vars(SetCommand) /\ WF_vars(Kick)
    /\ WF_vars(Connect) /\ WF_vars(Greeting) /\ WF_vars(Reply)
    /\ WF_vars(DataConnected) /\ WF_vars(DataClosed)

FairSpec == Spec /\ Fairness
-----------------------------------------------------------------------------
(* Properties *)

Written(n) == [task |-> n, written |-> TRUE] \in ftp.declared
NotWritten(n) == [task |-> n, written |-> FALSE] \in ftp.declared

\* As long as no list comes before the last transfer has ended, a list is declared once,
\* and as written only if the server refused its file by 550 or has all its rows in it,
\* with no rows behind them but those of a list that was dropped without an answer.
DeclaredIsWritten ==
    ~overrun => \A n \in Lists :
        /\ ~(Written(n) /\ NotWritten(n))
        /\ Written(n) /\ n \notin ftp.refused =>
              /\ n \in DOMAIN files /\ Len(files[n]) >= sizes[n]
              /\ \A i \in 1..Len(files[n]) :
                    IF i <= sizes[n] THEN files[n][i] = n ELSE files[n][i] \in ftp.dropped

\* The command at the head is under way, and no event is left that would end it: the
\* connection was closed under it or its attempt failed with an error nobody answers, or
\* a data connection that failed is still waited for.
Stalled ==
    /\ ftp.pending # <<>> /\ ~ftp.kick /\ ftp.dtp # "connecting"
    /\ \/ ftp.socket = "closed"
       \/ /\ ftp.waitForDtpToConnect /\ ftp.dtp = "none"
          /\ Head(ftp.pending).kind # "ConnectToHost"

\* A transfer ends and is declared one way or the other, also after others that failed,
\* unless an error of the connection or login before it dropped it, QFtp has stalled, or
\* the next list came before.
PutEnds ==
    \A n \in Lists :
        (lists = n) ~> \/ Written(n) \/ NotWritten(n) \/ n \in ftp.dropped
                       \/ Stalled \/ overrun \/ ~ftp.alive
=============================================================================
