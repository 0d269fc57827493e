--------------------------- MODULE ClientSession ---------------------------
(***************************************************************************)
(* The session of a station: the server heard by UDP (UdpReceiver), the    *)
(* start of the session (ServerFound), the queries that load the interface *)
(* (ClientRpcUtility) and the steps of the loader (InterfaceManager).      *)
(*                                                                         *)
(* The client is one event loop.  A query whose connection fails calls its *)
(* handlers before it returns, and these ask the next queries: a step of   *)
(* the loop may run the whole load.  Its effect is composed of operators   *)
(* from client states to client states, one per function of the code.      *)
(***************************************************************************)
EXTENDS Naturals, FiniteSets

CONSTANTS Servers,      \* addresses that broadcast the server's name to this station
          NoServer,
          MaxFaults     \* bound: failed connections, lost and useless replies

ASSUME SessionAssumption == NoServer \notin Servers /\ MaxFaults \in Nat

Parts   == {"screens", "properties", "scripts", "widgets"}
Events  == {"update", "event"}          \* asked again and again
First   == {"screens", "devices", "ftp", "websocket"}       \* asked by ServerFound
Queries == Parts \cup First \cup {"buttons"} \cup Events

\* What the handler of an answer may ask.
After(q) == CASE q = "screens" -> {"properties", "scripts", "widgets"}
              [] q \in Parts \ {"screens"} -> {"buttons"}
              [] OTHER -> {}

StepOf == [screens |-> 1, properties |-> 2, scripts |-> 3, widgets |-> 4]

VARIABLES client,   \* the objects of the client, see Client
          alive     \* the process runs

vars == <<client, alive>>

Client ==
    [found : BOOLEAN,                       \* UdpReceiver::isserverfound
     heard : Servers \cup {NoServer},       \* UdpReceiver::SvrHost
     hooks : {"main", "error"},             \* which slots listen to UdpReceiver
     session : Servers \cup {NoServer},     \* ServerAddress of ServerFound
     sessions : Nat,                        \* calls of ServerFound
     rpc : {"none", "live", "deleted"},
     recent : BOOLEAN,                      \* LAST_SERVER_RESTART under 60 s ago
     starts : Nat,                          \* times a server process was started
     enabled : BOOLEAN,
     shown : BOOLEAN,
     steps : SUBSET (1..4),
     created : Nat,                         \* emissions of interfaceCreated
     loadedHook : BOOLEAN,                  \* interfaceLoaded is connected
     createdHook : BOOLEAN,                 \* interfaceCreated is connected
     timer : BOOLEAN,                       \* updateTimer is active
     data : [Parts -> {"none", "empty", "full"}],
     devices : BOOLEAN,                     \* the devices were created
     pending : SUBSET (Queries \ Events),   \* asked and not answered
     broken : SUBSET Parts,                 \* failed, or answered by no data
     faults : Nat,
     misused : BOOLEAN]                     \* a deleted ClientRpcUtility was called

TypeOK == alive \in BOOLEAN /\ client \in Client /\ client.faults <= MaxFaults

Init ==
    /\ alive = TRUE
    /\ client = [found |-> FALSE, heard |-> NoServer, hooks |-> "main",
                 session |-> NoServer, sessions |-> 0, rpc |-> "none",
                 recent |-> FALSE, starts |-> 0, enabled |-> FALSE, shown |-> FALSE,
                 steps |-> {}, created |-> 0,
                 loadedHook |-> FALSE, createdHook |-> FALSE, timer |-> FALSE,
                 data |-> [q \in Parts |-> "none"], devices |-> FALSE,
                 pending |-> {}, broken |-> {}, faults |-> 0, misused |-> FALSE]

-----------------------------------------------------------------------------
(* Queries.  bad are the queries of this step of the event loop whose connection   *)
(* fails, refused says whether it is refused or fails otherwise.                   *)

Fault(c, q) == [c EXCEPT !.faults = @ + 1, !.broken = @ \cup ({q} \cap Parts)]

\* Mutant: the slots of main() stay connected.
FailedKeepsHooks(c, q, refused) ==
    [Fault(c, q) EXCEPT !.enabled = FALSE, !.found = FALSE,
                        !.starts = IF c.recent /\ refused THEN @ + 1 ELSE @]

\* Mutant: the receiver is not started again.
FailedDeaf(c, q, refused) ==
    [Fault(c, q) EXCEPT !.enabled = FALSE, !.hooks = "error",
                        !.starts = IF c.recent /\ refused THEN @ + 1 ELSE @]

\* The signals error() and connectionRefusedError(): the screen is disabled, the
\* receiver is cut off from main() and waits for this session's server; a server
\* that refused is started anew when the last start is recent.
Failed(c, q, refused) ==
    [Fault(c, q) EXCEPT !.enabled = FALSE, !.hooks = "error", !.found = FALSE,
                        !.starts = IF c.recent /\ refused THEN @ + 1 ELSE @]

\* Mutant: what is asked again and again is kept.
AskKeepsEvents(c, q, bad, refused) ==
    CASE c.rpc = "deleted" -> [c EXCEPT !.misused = TRUE]
      [] c.rpc # "deleted" /\ q \notin bad -> [c EXCEPT !.pending = @ \cup {q}]
      [] OTHER -> Failed(c, q, refused)

\* ServerExecute() with a handler that makes nothing of an invalid answer.  The
\* answers to Events change only texts on the screen and are not kept.
Ask(c, q, bad, refused) ==
    CASE c.rpc = "deleted" -> [c EXCEPT !.misused = TRUE]
      [] c.rpc # "deleted" /\ q \notin bad -> [c EXCEPT !.pending = @ \cup ({q} \ Events)]
      [] OTHER -> Failed(c, q, refused)

-----------------------------------------------------------------------------
(* InterfaceManager *)

\* interfaceCreated: the buttons that are active.
InterfaceCreated(c, bad, refused) ==
    LET d == [c EXCEPT !.created = @ + 1]
    IN  IF d.createdHook THEN Ask(d, "buttons", bad, refused) ELSE d

\* Mutant: the part asked last is taken for the last to come.
StepFinishedByLast(c, n, bad, refused) ==
    LET d == [c EXCEPT !.steps = @ \cup {n}]
    IN  IF n = 4 THEN InterfaceCreated(d, bad, refused) ELSE d

\* StepFinished() for the steps after the first.
StepFinished(c, n, bad, refused) ==
    LET d == [c EXCEPT !.steps = @ \cup {n}]
    IN  IF d.steps = 1..4 THEN InterfaceCreated(d, bad, refused) ELSE d

\* Mutant: the screen is shown without a look at its contents.
LoadPartShows(c, q, content, bad, refused) ==
    StepFinished([c EXCEPT !.data[q] = content, !.shown = @ \/ q = "widgets"],
                 StepOf[q], bad, refused)

\* loadProperties(), loadScripts() and loadWidgets() with the lambda around it.
LoadPart(c, q, content, bad, refused) ==
    StepFinished([c EXCEPT !.data[q] = content,
                           !.shown = @ \/ (q = "widgets" /\ c.data["screens"] = "full")],
                 StepOf[q], bad, refused)

\* A query whose handler gets an invalid answer, and loads it, when it fails.
AskPart(c, q, bad, refused) ==
    LET d == Ask(c, q, bad, refused)
    IN  IF d.faults > c.faults THEN LoadPart(d, q, "empty", bad, refused) ELSE d

\* Mutant: the next signal is connected only when all three were answered.
InterfaceLoadedUnhooked(c, bad, refused) ==
    LET p == AskPart(c, "properties", bad, refused)
        s == AskPart(p, "scripts", bad, refused)
        w == AskPart(s, "widgets", bad, refused)
    IN  [w EXCEPT !.createdHook = w.steps = 1..4]

\* The slot of interfaceLoaded: three queries, then the next signal is connected.
InterfaceLoaded(c, bad, refused) ==
    LET p == AskPart(c, "properties", bad, refused)
        s == AskPart(p, "scripts", bad, refused)
        w == AskPart(s, "widgets", bad, refused)
    IN  [w EXCEPT !.createdHook = TRUE]

\* loadInterface() and StepFinished(1).
LoadInterface(c, content, bad, refused) ==
    LET d == [c EXCEPT !.data["screens"] = content, !.steps = @ \cup {1}]
    IN  IF d.loadedHook THEN InterfaceLoaded(d, bad, refused) ELSE d

-----------------------------------------------------------------------------
(* The session *)

\* A new interface and RPC client.
NewSession(c, s) ==
    [c EXCEPT !.session = s, !.sessions = @ + 1, !.rpc = "live", !.recent = TRUE, !.enabled = TRUE]

\* ServerFound(): the new session, four queries, and only then the connection of
\* interfaceLoaded.
ServerFound(c, s, bad, refused) ==
    LET new == NewSession(c, s)
        i == Ask(new, "screens", bad, refused)
        l == IF i.faults > new.faults THEN LoadInterface(i, "empty", bad, refused) ELSE i
        d == Ask(l, "devices", bad, refused)
        f == Ask(d, "ftp", bad, refused)
        w == Ask(f, "websocket", bad, refused)
    IN  [w EXCEPT !.loadedHook = TRUE]

Bounded == client'.faults <= MaxFaults

\* The server's name arrives.  Datagrams are lost, repeated and late: a name may
\* arrive at any time.
NameHeard(s) ==
    /\ alive /\ ~client.found
    /\ LET c == [client EXCEPT !.found = TRUE, !.heard = s]
       IN  IF c.hooks = "main"
           THEN \E bad \in SUBSET First, refused \in BOOLEAN :
                    client' = ServerFound(c, s, bad, refused)
           ELSE client' = [c EXCEPT !.enabled = @ \/ s = c.session]
    /\ Bounded
    /\ UNCHANGED alive

\* "renewInterface" arrives.  The engine is no child of the application: its search
\* returns null, and the call on it is undefined; the interface is none either, and stays.
Renew ==
    /\ alive /\ client.hooks = "main"
    /\ \/ alive' = FALSE /\ UNCHANGED client
       \/ /\ client' = [client EXCEPT !.rpc = IF @ = "live" THEN "deleted" ELSE @]
          /\ UNCHANGED alive

\* An answer with data arrives and its handler runs.  Active buttons are copies of one
\* that the screens, properties and widgets make; the first of them starts the timer.
Answer(q) ==
    /\ alive /\ q \in client.pending
    /\ LET c == [client EXCEPT !.pending = @ \ {q}]
       IN  \E bad \in SUBSET After(q), refused \in BOOLEAN :
             client' = CASE q = "screens" -> LoadInterface(c, "full", bad, refused)
                         [] q \in Parts \ {"screens"} -> LoadPart(c, q, "full", bad, refused)
                         [] q = "devices" -> [c EXCEPT !.devices = TRUE]
                         [] q = "buttons" ->
                               [c EXCEPT !.timer = @ \/ \A p \in Parts \ {"scripts"} : c.data[p] = "full"]
                         [] OTHER -> c
    /\ Bounded
    /\ UNCHANGED alive

\* The answer of a server that could not read its database: valid, and no data.
AnswerEmpty(q) ==
    /\ alive /\ q \in client.pending
    /\ LET c == Fault([client EXCEPT !.pending = @ \ {q}], q)
       IN  \E bad \in SUBSET After(q), refused \in BOOLEAN :
             client' = CASE q = "screens" -> LoadInterface(c, "empty", bad, refused)
                         [] q \in Parts \ {"screens"} -> LoadPart(c, q, "empty", bad, refused)
                         [] OTHER -> c
    /\ Bounded
    /\ UNCHANGED alive

\* The server ends or the answer is an error: the handler is not called, and no timer
\* ends the wait.
AnswerLost(q) ==
    /\ alive /\ q \in client.pending
    /\ client' = Fault([client EXCEPT !.pending = @ \ {q}], q)
    /\ Bounded
    /\ UNCHANGED alive

\* The timer of the buttons fires, or a device reports an event.
AskAgain(q) ==
    /\ alive
    /\ q = "update" => client.timer
    /\ q = "event" => client.devices
    /\ \E bad \in SUBSET {q}, refused \in BOOLEAN :
          client' = Ask(client, q, bad, refused)
    /\ Bounded
    /\ UNCHANGED alive

\* More than 60 s have passed since LAST_SERVER_RESTART.
RestartAges ==
    /\ alive /\ client.recent
    /\ client' = [client EXCEPT !.recent = FALSE]
    /\ UNCHANGED alive

\* A call through a deleted object may end the process, now or later.
Crash ==
    /\ alive /\ client.misused
    /\ alive' = FALSE
    /\ UNCHANGED client

Next ==
    \/ \E s \in Servers : NameHeard(s)
    \/ Renew
    \/ \E q \in Queries \ Events : Answer(q) \/ AnswerEmpty(q) \/ AnswerLost(q)
    \/ \E q \in Events : AskAgain(q)
    \/ RestartAges
    \/ Crash

Spec == Init /\ [][Next]_vars

-----------------------------------------------------------------------------
(* Fairness: a server broadcasts its name every three seconds, so that one is   *)
(* heard whenever the receiver waits, also that of the session's server; what a *)
(* server is asked it answers, or the answer is lost.                           *)
Fairness ==
    /\ \A s \in Servers : WF_vars(NameHeard(s))
    /\ \A q \in Queries \ Events : WF_vars(Answer(q) \/ AnswerLost(q))

FairSpec == Spec /\ Fairness

-----------------------------------------------------------------------------
(* Properties *)

\* ServerFound() runs once: after an error the receiver no longer starts a session,
\* so that no second interface, device or timer comes into being beside the first.
OneSession == client.sessions <= 1

\* A disabled screen can still be enabled: the receiver waits for a server, unless the
\* one it found since is another server than the session's, and then it is deaf.
DisabledWaits ==
    client.session # NoServer /\ ~client.enabled /\ client.found
        => client.heard # client.session

\* Whatever is lost, repeated or late, the client keeps its one session and the way back to it.
SessionSafe == OneSession /\ DisabledWaits

\* The interface is created once, from all four parts, and a part is missing from it
\* only when its own query failed: answers may come in any order.
CreatedComplete ==
    /\ client.created <= 1
    /\ client.created = 1 => \A q \in Parts : client.data[q] # "none"
    /\ \A q \in Parts : client.data[q] = "empty" => q \in client.broken

\* A button is given its text and scripts after the screens it is on were built, and
\* the screen is shown only with buttons on it.
ScreensFirst ==
    /\ client.data["widgets"] # "none" => client.data["screens"] # "none"
    /\ client.shown => client.data["screens"] = "full"

\* Without a fault or a renewal the station shows its interface and then asks for the
\* active buttons: each signal is connected before an answer emits it.
Shown ==
    <>((client.shown /\ "buttons" \in client.pending) \/ client.faults > 0 \/ client.rpc = "deleted" \/ ~alive)

\* A screen disabled by an error is enabled again once the network lets it, unless
\* another server was heard first.
Reenabled ==
    (client.session # NoServer /\ ~client.enabled)
        ~> (client.enabled \/ client.heard # client.session \/ ~alive)
=============================================================================
