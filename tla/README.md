# Andon project: verification development

TLA+ models of the Andon production-floor system (`src/` of this repository,
Qt 5 / C++), the TLC runs that check them and the TLAPS proofs about them.
Paths below are relative to the repository root, so `src/shared_classes/...` is
the directory of that name in the checkout.

## 1. The system

An **Andon server** keeps a Firebird database and serves it over JSON-RPC, a web
page and mail/SMS. Every work station runs an **Andon client**, which the server
finds by UDP, which loads its screen from the database, and which holds the TCP
sessions to the machines of its station: KBX100 input/output modules, Sherlock
cameras, PLCs. Each program guards itself by a single-instance lock and a
watchdog process.

All of it is Qt: one event loop per process, slots that run to completion,
timers, sockets, and — the difficult part — *nested* event loops where a caller
waits for a reply while everything else goes on running.

| Component | Source | State it keeps | Operations | What makes it correct |
|---|---|---|---|---|
| KBX100 session | `shared_classes/ketcp_object` | configuration, socket state, three timers, time base, inputs, input code | set ip/port/pass, connect/lose, actResps, code timer | comes back after every failure, ready once per session, inputs mirror the device, a part is recorded once |
| Single instance | `shared_classes/single_apprun` | system semaphore, shared memory holding a pid | constructor, isRunning, killProcess | at most one instance goes on; a dead instance locks nobody out |
| Watchdog | `shared_classes/watchdog`, `common_functions.h` | RPC server, client socket, child process | listen, startProcess, restart, reboot, query | the watched process is restarted, not doubled |
| SMS service | `andon_server/sms_service` | request counter, pending status polls, modem | sendSMSFECT, NetworkRequest, reply handler | each request counted down once, status reported, bounded retries |
| Escalation | `andon_server/server_jsonrpc` | per-call timers | StartSms, StopSms, Pause/Resume/Cancel | a stopped call sends nothing more; an unanswered one escalates |
| Query cache | `shared_classes/dbwrapper` | map of query items, error counters, open flag, timers | query2method, executeProc, sql2Query, clean timer | a cached answer is fresh; the cache is bounded; errors are reported |
| Web page cache | `andon_server/webui` | pages by query | receiveText, clean timer | a page answers the request it is sent for |
| Discovery | `andon_server/broadcastsender`, `andon_client/broadcastreceiver` | address list, socket, last server | run, addClients, broadcast, receive | a running client and server find each other |
| Client session | `andon_client/main.cpp`, `client_jsonrpc`, `main_callbacks` | RPC client, pending replies, devices | ServerFound, query, ServerExecute | one connection, a reply reaches its asker, restart of the server survived |
| Interface loader | `andon_client/client_interface` | widgets, scripts, load steps, screens | loadInterface, StepFinished, updateButtons, proccessPressed | the screen is complete before it is announced |
| FTP declaration | `andon_client/main.cpp` 214-313, `shared_classes/qftp` | buffer, command, task; QFtp's command queue, control and data connections | hourly list, putBuf, replies, commandFinished | what is declared as written is in the file, whole |
| Sherlock camera | `shared_classes/serlock_manager` | socket, two timers, state machine, handlers | connect, run, lines, timer | commands meet a camera that is ready, inspections go on after a lost answer |
| OPC UA server / client | `opcua_server`, `andon_client/opcua_client` | node tree | add node, write, read | nodes follow device signals |
| Auto declaration, PLC station | `auto_declaration`, `andon_client/plc_station` | snap7 session | read DB block, declare | each part declared |
| Reports, mail, logging, I/O thread, keyboard, WebSocket bridge | `excel_report`, `sendemail`, `message_handler`, `iostreamtheard`, `widgetkeyboard`, `websocket` | little | format and forward | — |
| Vendored code | `lib/*`, `qtxlsx`, `mongoose`, `qttelnet`, `WebUI` | — | — | out of scope: third party |

Interactions: the server's UDP datagram starts the client session; the session's
queries fill the interface loader and create the KBX100, Sherlock and FTP
objects; these write production records back through `ClientRpcUtility` →
JSON-RPC → `ServerRpcService` → `DBWrapper`; buttons on the screen start
escalations in `ServerRpcService`, which emits `SendSMS` to `Sms_service`; SMS
status updates go to `DBWrapper`; both programs hold a `SingleAppRun` and start a
`Watchdog`.

Hard behaviours: reconnects with state left over from the last session, replies
that arrive after their asker gave up, nested event loops that re-enter a slot,
handlers connected anew at each connect, processes killed between two steps of a
lock protocol, shared buffers of overlapping transfers, caches keyed by less than
the request. Each one is listed with its line in `PROJECT.json` under `hazards`.

## 2. Plan

In the order of what the system is for: record each produced part, keep one
instance running, get messages out, then everything that moves data between
them.

| # | Module | Models | State |
|---|---|---|---|
| 1 | `KeTcp`, abstract `KeSession` | KBX100 session and device | done, proved |
| 2 | `SingleApp` | single-instance guard of both programs | done, proved |
| 3 | `SmsService` | gateway requests and status polls | done, proved |
| 4 | `ClientSession` | discovery, `ServerFound`, queries with a handler, load steps of the interface, errors and renewal, as one composition | done, proved |
| 5 | `ClientQuery` | `query()`: nested event loops, their timers and connections that block | done, proved |
| 6 | `DbCache` | query items and the page cache over them | done, proved |
| 7 | `FtpDeclaration` | the hourly list through QFtp | done, proved |
| 8 | `Sherlock` | sessions of the camera, handlers per connection | done, proved |

"Proved" is said of the safety properties of a module's runs: each of them is a theorem.
Liveness is left to the runs. What is left to add are theorems beyond the runs: what
remains true of the declarations when a list does come too early (`DeclaredIsWritten`
and `ListsAnswered` say nothing then), what of an inspection a slow camera still gets
right, and contracts like `KeSession` for the message service and the query cache, with
proofs that the modules implement them.

The escalation and the watchdog were planned as modules and are not worth one:
see section 7.

Abstract specifications: what a device session promises its listeners is a
module of its own (`KeSession`). What a cache promises its readers (an answer is
the last execution's and young enough) and what `query()` promises its caller
(it returns within a bound) are stated as invariants over the histories kept for
them, since each is one formula.

## 3. Modules and the code

### KeTcp: one KBX100 device

A slot of the class runs to completion, so each slot is an action. The state is
that of the object (configuration, socket state, which of the three timers is
active, whether the system time is known, whether `inputs` has been read, the
set bits of `inputs` and `inputCode`, the signals of this session) plus the two
directions of the TCP connection and the device.

| Action | Code |
|---|---|
| `SetProperty` | `setDeviceIp`, `setPort`, `setPass` and the `startConnecting` they call |
| `ConnectTimeout` | `connectTimer` |
| `SocketConnected`, `SocketDisconnected` | the two slots of the socket, with the commands sent and what is reset |
| `ConnectFails` | external: no slot of the class reacts to it |
| `RecvOK`, `RecvEvtOK`, `RecvRD`, `RecvTime`, `RecvEventLive`, `RecvEventPast` | `actResps` by kind of line, with `setSysTime`, `emitIfReady` and the slots of `watchCodesStart` it triggers |
| `CodeTimeout` | the stabilisation timer, and the production record |
| `DeviceAnswers`, `DeviceInput` | external: commands answered in order, input lines that change |

`KeSession` is the contract: signals come in a legal order. `MCKeTcp` adds history
(input changes, sessions, records, changes made while the device did not report
them) and with it the properties that compare the object to the device.

Data abstracted: an input word is the set of its high bits; a system time is
known or not, and whether the stamp of an event agrees with it is a choice; a
line arrives whole.

### SingleApp: the guard of both programs

A process is `waiting` for the semaphore, `inside` it, `creating` the segment,
`deciding` (the user's question, or a forced start), `killing` or `running`. The
places are the points where other processes can interleave. The kernel objects
are Windows': a semaphore or segment lives while a process has a handle to it,
and the end of a process closes its handles and releases nothing. `taskkill` is
started detached, so that it takes effect at any later time (`KillArrives`).
`MCSingleApp` adds the history variable `overlap`.

### SmsService: requests to the SMS gateway

For each accepted call of `sendSMSFECT()` there is one chain: a request waits
(`timer`), is on the network (`net`), and the handler of `finished` ends it
(`done`) or waits 30 s for a status query (`poll`). `reuestsCount`, `IdSms` and
`Iteration` are the source's. Time is ticks of the 3 s in `NetworkRequest()`; a
timer that has run out fires before the next tick. Qt's default timers are
coarse (5 %), so two requests one tick apart keep their order only up to a delay
of about 20 requests. The gateway is external: it answers a message with an id,
an error, other text or nothing, and a query with a status, an error, other text
or nothing, each with or without an HTTP error. `MCSmsService` adds the history of
the order requests were made in and of the queries sent.

### ClientSession: from the server's name to a working screen

The client is one event loop, and a query whose connection fails calls its
handlers before it returns; these ask further queries. One step of the loop may
thus run the whole load, so that each function of the code (`Failed`, `Ask`,
`LoadPart`, `StepFinished`, `InterfaceLoaded`, `ServerFound` ...) is an operator
from client states to client states, and an action composes them. `bad` names the
queries of the step whose connection fails and `refused` how.

| Action | Code |
|---|---|
| `NameHeard` | a datagram with the server's name: `UdpReceiver`, then `ServerFound` or the slot that an error connected instead |
| `Renew` | the datagram `renewInterface` |
| `Answer`, `AnswerEmpty`, `AnswerLost` | the reply to a query: its handler, an invalid reply, the reply that times out |
| `AskAgain` | the timer of the active buttons, and the events scripts ask for |
| `RestartAges` | a minute passes since `LAST_SERVER_RESTART` |
| `Crash` | external: a deleted object is used |

### ClientQuery: waiting in nested event loops

A call first connects in `waitForConnected()`, which blocks the thread (`Call`, until
`query`, `queryFails` or `ServerExecute`): meanwhile no handler runs, every loop is held
and timers become due (`TickConnecting`). Calls of `ServerExecute()` with a handler
connect in the same way and wait for no answer. `loops` is the stack of event loops,
innermost last, of the calls of `query()` that are connected. `Finished` is the reply,
valid or an error, connected to `quit()` of its own loop. The single-shot
timer is bound to no object and refers to a place on the stack: `TimerFires` while
its loop is there, `StaleTimerFires` afterwards, with every outcome the build can
produce (nothing, a crash, another loop quit). `Return` ends the innermost loop
only, and has an answer only if the reply was valid. `Tick` lets time pass in a loop
when what is due has been handled. Whatever else a handler does takes no time.

### DbCache: the server's two caches

`query2method`, `executeProc`, the clean timer (`Clean`) and the timeout a failed
statement leaves behind (`Timeout`) are those of `DBWrapper`; `receiveText` and
`PageClean` those of `WebuiThread`, which calls `DBWrapper` within the slot.
Everything runs in the main event loop, each operation is a step. A statement is
an element of `Queries`, a result is data that is not looked at: what matters is
its age, and whether the last execution gave it. `cashed` and `sent` remember the
last answer each cache gave.

### FtpDeclaration: the hourly list

The main thread receives a list, fills the device's one `QBuffer`, and 0 ms
later calls `putBuf()` (`NewList`, `putBuf`, `SetCommand`: the buffer is told its
command only when `putBuf()` has returned). `QFtp` is one record: its command queue
(`QFtpPrivate`), the raw commands on the control connection (`QFtpPI`) and the data
connection (`QFtpDTP`); slots are operators from records to records. The FTP
server is external: it answers what it is asked, refuses any command, closes an
idle connection. An attempt to connect succeeds, fails with an error that ends the
command, or fails with one of the errors `QFtpPI::error()` ignores (`Connect`).
`Stalled` describes the records in which nothing ends the command at the head any more. The rows of a list are its number, so that a file shows whose
rows it has.

### Sherlock: the camera

`VisuonRun` makes the state machine of a session and connects one more handler of
lines; `Handled` gives a line to every handler in turn, and `Handle` is what the
signal it emits does to the machine at once. `Start` is the queued start of a
machine that has finished. The camera is external: it obeys, refuses, forgets,
and goes on with an inspection when the connection is lost. `slow` is chosen at
the start: whether it may take longer to answer than the timer.

Definitions marked `Mutant` are forms the code could plausibly have had; each one
breaks the property named for it in `PROJECT.json`.

## 4. Runs

| Run | Bounds | Shows |
|---|---|---|
| `ketcp` | 2 inputs, 4 changes, 3 sessions, no change while 4 lines are under way | `SessionSafe` (comes back, logs in in order, one `ready()`, codes of its own session), mirror of the inputs, records, contract |
| `ketcp_live` | 1 input, 2 lines | reconnects after every loss; a session that asked for the time becomes ready |
| `ketcp_stale_timer` | same | **violated**: a session lost with a time request outstanding is the last that becomes ready |
| `single_app` | 3 processes, crashes | the segment is created once; the newest instance survives; two stay only after an overlap of starts or a crash between storing the pid and killing; starts that do not overlap learn whether an instance runs |
| `single_app_two` | 3 processes, no crash | **violated**: overlapping starts leave two instances |
| `single_app_hang` | 3 processes, no crash | **violated**: a start waits for ever for the semaphore |
| `sms` | 3 messages, a wait of 4 ticks | exact counter, order, at most four queries, ids kept, every message done with |
| `client_session` | 2 servers, 3 faults | one session and the way back to it, the interface created once and complete, buttons after screens, shown in the end, enabled again after errors |
| `client_query` | 3 calls, a timeout of 2 ticks, 1 tick to connect | waits are bounded by a connection and a timeout per call, a query gives up early only on an error reply or when cut by a stale timer, every query returns |
| `db` | 1 statement by every method, 3 calls, times of 2 to 3 ticks, a day of 7 | cached answers are good and young, pages fresh although their clock wraps, both caches emptied and the database closed |
| `ftp` | 3 lists of up to 2 rows | what is declared as written is in the file, and every transfer is declared unless an error drops it or QFtp stalls |
| `sherlock` | 3 sessions, 2 commands or lines under way when the timer fires | EXEC reaches only a camera that is ready, inspections go on, the connection comes back |

Why the bounds are enough. Two inputs are what it takes for one bit to be right
while another is wrong, three sessions for state to skip a session; four lines
hold the whole login with an event between its parts. With three processes an
instance is replaced by a second one while a third overlaps. Three messages
are the fewest of which one waits, one overtakes and one has a reply in between;
the wait between queries only has to be longer than the largest delay, 3 ticks
there as 10 in the code. A second server is what makes the receiver deaf, and
three faults break a session, its repair and one query of the repair. Three calls
nest three deep, or leave a stale timer for the loop of a later one, or let a call
that connects hold two loops; a timeout longer than the connection lets a timer be on
time or late. The caches need one
statement asked for three times (a failure, a success, the answer from the
cash); queries do not influence each other except by emptying the map, which
its methods show as well. A day of 7 ticks is just longer than twice the page
life, the least the code needs. Three lists give a transfer one that failed
before it and one behind it; two rows tell a whole list from a part. Three
sessions of the camera make three handlers of each line.
Deadlock is not checked where the system really stops: input changes and
sessions used up, all processes ended, all messages done, all lists sent, the
client crashed or without faults and queries left.

### Fairness

- `KeTcp`: the event loop serves timers that are due and lines that have arrived
  (weak fairness of `ConnectTimeout`, `Receives`, `CodeTimeout`); the operating
  system decides each connection attempt; the device answers. Strong fairness of
  `SocketConnected` is the assumption that attempts repeated for ever do not all
  fail: without it no program could reconnect.
- `SingleApp`: a process that can go on does, and the semaphore wakes a waiter
  (`Enter`). Nothing is assumed of the user's answer, of `taskkill` or of the end
  of an instance.
- `SmsService`: timers fire, time goes on, and a request on the network ends some
  day, by an answer or by the error of the connection. `QNetworkAccessManager` is
  given no timeout of its own, so a gateway that holds a connection open for ever
  is outside this assumption: its request then stays counted.

- `ClientSession`: the server repeats its broadcast, and every query is answered or
  times out. No answer need have data.
- `ClientQuery`: the event loop handles what is due, `waitForConnected()` returns (it
  has a timeout of 30 s) and time goes on; no answer need ever come.
- `DbCache`: the event loop serves its timers and time goes on.
- `FtpDeclaration`: both event loops serve their events, connection attempts end
  one way or another, answered by QFtp or not, and the server answers what it is asked, by success or refusal. Two
  assumptions about time are in the guards: no answer of the network falls
  between two statements of the main thread, and a data connection nobody uses is
  closed within the hour between two lists.
- `Sherlock`: the event loop serves timers and lines; attempts to connect end and do
  not fail for ever; a camera that is asked again and again obeys some day
  (strong fairness of each answer). `Recovers` is claimed of a camera that answers
  within the timer's 5 s or not at all.

## 5. Proofs

TLAPS checks the theorems below for every value of the constants.

| Module | Theorems | Assumptions |
|---|---|---|
| `KeTcp_proofs` | `TypeCorrect`, `SessionSafeHolds`, `NeverStuckHolds`, `ReadyOnceHolds`, `LoginOrderHolds`, `CodeOfThisSessionHolds`, `RecordsBoundedHolds`, `CodeFollowsInputsHolds`, `MirrorsDeviceHolds`, `SessionRefined` | `QueueAssumption`: the bound is a natural number |
| `SingleApp_proofs` | `TypeCorrect`, `CreateSucceedsHolds`, `NewestSurvivesHolds`, `OneUnlessOverlapHolds` | `ProcsAssumption`: `NoProc` is not a process |
| `SmsService_proofs` | `TypeCorrect`, `CountExactHolds`, `IdKeptHolds`, `OrderKeptHolds`, `QueriesBoundedHolds` | `CallsAssumption`, `PollAssumption`: finitely many messages, a wait of at least a tick |
| `ClientSession_proofs` | `TypeCorrect`, `SessionSafeHolds`, `SingleSession`, `DisabledScreenWaits`, `InterfaceComplete`, `ScreensBeforeButtons` | `SessionAssumption`: `NoServer` is not a server, a bound on the faults |
| `ClientQuery_proofs` | `TypeCorrect`, `WaitIsBounded`, `NothingIsTimeout` | `QueryAssumption`: a timeout and a number of calls, at least 1, a time to connect |
| `DbCache_proofs` | `TypeCorrect`, `CashedAnswersAreGood`, `PagesAreFresh` | `TimesAssumption`: times are naturals, the update interval is no longer than the clean interval, which twice is less than a day |
| `FtpDeclaration_proofs` | `TypeCorrect`, `DeclaredIsWrittenHolds`, `ListsAnsweredHolds`, `StalledForEver` | `BoundsAssumption`: a number of lists, a length of at least 1 |
| `Sherlock_proofs` | `TypeCorrect`, `ExecWhenReadyHolds` | `BoundsAssumption`: a number of sessions, a bound on what is under way |

- **KeTcp.** `NeverStuck` is not inductive alone: the step that loses a
  connection needs that a socket is in use only by a configured object
  (`TimerInv`). `ReadyOnce`, `LoginOrder` and `CodeOfThisSession` need `SessionInv`:
  an object without a connection has forgotten its session (`ForgottenInv`), and
  before the first reading "RD" or its answer leads everything that is on its way
  (`OrderInv`, `ReadLeads`). The order of a login is a property of the two
  queues together, which is why the properties are not inductive by themselves.
  `SessionRefined` maps the object to `KeSession` and shows with `SessionInv` that
  each step is one of the contract's or a stutter. The theorems about the device
  are of `MCSpec`, the specification with its history. `RecordInv` counts: what was
  recorded, waits in `icsTimer`, or is on its way as an event or a reading is at most
  the changes and sessions there were; every step moves one unit to the right place,
  and `ReadInv` (one reading a session) keeps a login from counting twice. `MirrorInv`
  says for every input that the last line in flight about it says what the device's
  line is, or, with none in flight, that the object's bit already is: a property of
  every position of the queue, of which `MirrorsDevice` is the case of an empty one.
- **SingleApp.** `LockInv`: the holder of the semaphore is unique and its count is
  then 0, and nobody is attached while one creates the segment. `StoredInv`:
  only processes that stored their pid can be named by the segment, be read by
  another, or be killed; each stores it once, so the one named now has not been
  condemned. `OneInv`: without an overlap an instance nobody is about to kill is
  recorded, by the segment or by the one process that has replaced the record and not
  yet killed. Once nobody is killing and nobody is condemned, any two instances are
  therefore both the recorded one. The theorem is of `MCSpec`, which keeps the history
  of overlaps.
- **SmsService.** `CountExact` is inductive with the types, by counting the set of
  requests under way. `IdKept` needs that a row has an id only if the requests of its
  message carry it (`RowInv`). `OrderKept` needs that a request made since the last
  reply has fewer ticks left than the counter says (`OrderInv`), and
  `QueriesBounded` that the queries sent follow `Iteration` (`QueryInv`).
- **ClientSession.** Since an action composes operators on client states, the lemmas
  are about operators: each keeps the parts `Session` (which slots listen, and that
  a session was started only by the first), `Fresh` (what an untouched client
  looks like) and `Loaded` (steps, data and the interface agree), or changes them
  in a way the next one needs. `CreatedComplete` follows from `Loaded`: the interface
  is created when all four steps are counted, and a step is counted when its
  data came.
- **ClientQuery.** `WaitBounded` is not inductive: a wait may grow as long as the
  innermost query's timer has time left, or a call connects. `Armed` ties timer and wait
  of a query together (exactly while the timer has time left, from below when it is
  late); `Nested` says that of two queries on the stack the outer has spent at most one
  connection and one timeout (a `Turn`) more per call between them, and `Held` the same
  of the call that connects. Time passes in a loop only if the innermost one waits: its
  timer bounds it, and all others through `Nested`; while a call connects `Held` does.
- **DbCache.** An item is `Sound` if without an error it holds its last execution's
  result, no older than the item. `PagesYoung` says that the age of a page and the
  time to the next cleaning add up to at most two clean intervals, so that the
  clock never wraps while a page lives.
- **FtpDeclaration.** The slots of QFtp are operators on records, so the lemmas are about
  operators: an error ends the command and drops those behind it (`Failed`), an answer
  sends the next raw command (`Moved`) or ends the command and starts the next one
  (`Passed`, `Started`); one lemma per action says which. `Talk` ties the two
  connections to the command queue: the raw command under way belongs to the command
  at the head and is followed by the rest of its sequence, a data connection is
  awaited only after PASV, the control connection is opened only for a command that
  asks for it, which also stays at the head when the attempt ended unanswered
  (`Opening`). The types need it, since a confirmed or refused file is named by the
  head of the queue. `DeclaredInv` holds while no list came too early (`~overrun`): one
  transfer at most, the last of the commands (`One`); its rows lead the buffer and
  those of dropped lists follow (`RowsOf`); at each raw command the buffer stands where
  the transfer needs it and the device is set (`SentOf`); its list is not yet declared
  (`DeclaredOf`), and every other one is declared or dropped (`Answered`). The delicate
  step is an open data connection: it must not be left over from a refused file when a
  transfer begins, which is the assumption on time in the guard of `NewList`; without
  that guard the proof fails there. `StalledForEver` is about what `PutEnds` excepts: by
  `Talk` a record that has stalled waits for no event of the network and has no start
  queued, so that every later step leaves it stalled and declares nothing.
- **Sherlock.** A line goes through as many handlers as there were sessions, by a
  recursive function. The library's induction theorems cannot be used, as they have an
  operator for a parameter; `HandledOnce` takes the least number of handlers that do
  not do what one does (`Least`, from the library's well-foundedness of the naturals)
  and shows that it cannot be there. With it a line is one step of the machine, and
  `CalmInv` says what is under way in each of its states while the camera answers in
  time: at most the one command sent on entering the state, an INITOK only as the
  last line to a machine in INIT, and EXEC only to a camera that is ready.

Only model-checked are the liveness properties (`Reconnects`, `AskedBecomesReady`,
`LoneStartServed`, `Settled`, `Shown`, `Reenabled`, `Returns`, `Released`, `PutEnds`,
`Recovers`), which the provers do not handle. The invariants the proofs rest on
were model-checked on the instances of the runs before they were proved. Of the bounds
(lists, sessions, messages, faults, calls) the proofs use only that they are natural numbers,
or at least 1.

## 6. Findings

Disagreements between the code and what it says of itself are quoted in
`PROJECT.json`. Three are shown by a run of their own: the outstanding time
request that survives a lost session (`ketcp_object.cpp:423`), two instances after
overlapping starts (`single_apprun.h:72`), and the semaphore not released
(`single_apprun.h:74`). The others were met while modelling; the models contain
their effects, and the properties except or bound them:

- SMS: the gateway's answer is read only when the request failed (`sms_service.cpp:35`).
- Client session: a refusing server is restarted only within a minute of the last
  restart (`main.cpp:75`); the load is lost when a first query fails inside the call
  (`main.cpp:610`); `renewInterface` takes the client apart and does not put it
  together again (`main.cpp:726`).
- Queries: the timer outlives its loop (`client_rpcutility.cpp:140`); `query()` without
  a connection ends the client (`client_rpcutility.cpp:40`).
- Caches: errors are not counted (`dbwrapper.cpp:279`), the limit is not applied
  (`dbwrapper.cpp:161`), a page is served in another method's form
  (`serverwebthread.h:140`).
- FTP: a refused data connection, a control connection lost under a command
  (`qftp.cpp:1279`) or one that could not be made for a reason nobody answers
  (`qftp.cpp:924`) ends declaring until the restart; a file refused by 550 is declared as written
  (`qftp.cpp:944`); rows of a dropped list end up behind those of the next
  (`main.cpp:283`); a null pointer after an overrun (`qftp.cpp:1132`).
- Camera: a part is recorded once for every session so far (`serlock_manager.cpp:165`);
  a first INIT without an answer is never repeated (`serlock_manager.cpp:218`).
- Escalation: no call ever starts (`server_rpcservice.cpp:139`).

## 7. Not modelled

- KeTcp: the password reply, the ADC, temperature, counter, relay and output
  lines and their setters, whose values nothing in the session reads; the split
  of a line over two TCP segments.
- SingleApp: reuse of a pid by Windows; the lock of the segment (each access is a
  step).
- SmsService: `SendSMS()` and its modem helpers, which nothing calls; texts and their
  encoding.
- ClientSession: the scripts of a station, which come from the database; the
  chain of pressed buttons and the layout, which run them; `query()` called while the
  interface loads, and the time its queries take to connect; the sender's list of stations.
- DbCache: the pack functions; the web server around the page cache.
- FtpDeclaration: QFtp commands `putBuf()` does not use, `abort()`, active mode, lists
  over 16 KB, malformed replies.
- Sherlock: `sendFailed`, which the socket of a session does not cause; the database
  record of a result.
- Escalation: `StartSms` reads an object from an array, so `ThreadsMap` is empty for
  ever, and Stop, Pause, Resume and Cancel find nothing. A faithful model has one
  state; a model of the threads and timers behind it would be of code that
  cannot run. The composition of `SmsService` with it falls away for the same reason:
  its environment may ask for any message at any time.
- Watchdog: nothing starts the second process; what a forced start does to a running
  instance is in `SingleApp`.
- The OPC UA mirror and the PLC reader, which have hardly any control of their own;
  formatting, mail, logging and the console; the superseded `KeTcpClient`; the
  generated web interface.
- Third-party libraries, which are most of the lines of the repository (the OPC UA
  headers, two copies of the spreadsheet library, mongoose, snap7, telnet): of
  them only the part of QFtp that the declaration depends on is modelled. The
  share of the whole repository the models cover is small for that reason.
