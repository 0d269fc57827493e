---------------------------- MODULE ClientQuery ----------------------------
(***************************************************************************)
(* ClientRpcUtility::query() as scripts of the client call it: each call   *)
(* waits for its answer in an event loop of its own, in which any handler  *)
(* may call query() again.  The loops nest: one returns only when those    *)
(* started inside it have.  Before its loop a call connects to the server, *)
(* in a function that blocks the thread: no handler runs and no timer      *)
(* fires until it returns.  Calls of ServerExecute() with a handler, which *)
(* buttons, devices and timers make, connect in the same way but wait for  *)
(* no answer.  Calls are numbered in their order; connecting takes time    *)
(* and loops do, whatever else a handler does takes none.                  *)
(***************************************************************************)
EXTENDS Naturals, Sequences, FiniteSets

CONSTANTS MaxCalls,     \* bound: calls of query() and ServerExecute()
          Timeout,      \* JSONRPC_REPLY_TIMEOUT in ticks
          Connect       \* the time waitForConnected() takes at most, in ticks

ASSUME QueryAssumption ==
    MaxCalls \in Nat \ {0} /\ Timeout \in Nat \ {0} /\ Connect \in Nat

Ids == 1..MaxCalls

VARIABLES
    alive,      \* the process runs
    last,       \* number of calls so far
    blocked,    \* the kind of the last call if it is connecting
    loops,      \* the event loops, innermost last: query and whether quit() was called
    reply,      \* of each query: what has arrived
    timers,     \* single shots that have not fired: query, ticks left, and the place of
                \* its loop on the stack, which the lambda holds by reference
    connect,    \* ticks each call took to connect
    wait,       \* ticks each query spent in its loop
    result,     \* what each query() returned
    cut         \* queries whose loop the timer of another one has quit

vars == <<alive, last, blocked, loops, reply, timers, connect, wait, result, cut>>

Loop  == [id : Ids, quit : BOOLEAN]
Timer == [id : Ids, left : 0..Timeout, at : Ids]

TypeOK ==
    /\ alive \in BOOLEAN
    /\ last \in 0..MaxCalls
    /\ blocked \in {"no", "query", "handler"} /\ (blocked # "no" => last > 0)
    /\ loops \in Seq(Loop) /\ Len(loops) <= last
    /\ timers \subseteq Timer
    /\ reply \in [Ids -> {"none", "asked", "valid", "invalid"}]
    /\ cut \subseteq 1..last
    /\ connect \in [Ids -> 0..Connect] /\ wait \in [Ids -> Nat]
    /\ result \in [Ids -> {"none", "answer", "nothing"}]

Init ==
    /\ alive = TRUE
    /\ last = 0 /\ blocked = "no"
    /\ loops = <<>>
    /\ timers = {} /\ cut = {}
    /\ reply = [i \in Ids |-> "none"]
    /\ connect = [i \in Ids |-> 0] /\ wait = [i \in Ids |-> 0]
    /\ result = [i \in Ids |-> "none"]

Waiting == {loops[d].id : d \in DOMAIN loops}

\* The thread is in an event loop, so that handlers run.
Handling == alive /\ blocked = "no"

-----------------------------------------------------------------------------
\* query() or ServerExecute() with a handler is called and begins to connect.
Call(kind) ==
    /\ Handling /\ last < MaxCalls
    /\ last' = last + 1 /\ blocked' = kind
    /\ UNCHANGED <<alive, loops, reply, timers, connect, wait, result, cut>>

\* Mutant: the wait is twice as long.
queryLong ==
    /\ alive /\ blocked = "query"
    /\ blocked' = "no"
    /\ reply' = [reply EXCEPT ![last] = "asked"]
    /\ loops' = Append(loops, [id |-> last, quit |-> FALSE])
    /\ timers' = timers \cup {[id |-> last, left |-> 2 * Timeout, at |-> Len(loops')]}
    /\ UNCHANGED <<alive, last, connect, wait, result, cut>>

\* query() is connected: the request is sent, the timer is armed and bound to no
\* object, and the loop runs.
query ==
    /\ alive /\ blocked = "query"
    /\ blocked' = "no"
    /\ reply' = [reply EXCEPT ![last] = "asked"]
    /\ loops' = Append(loops, [id |-> last, quit |-> FALSE])
    /\ timers' = timers \cup {[id |-> last, left |-> Timeout, at |-> Len(loops')]}
    /\ UNCHANGED <<alive, last, connect, wait, result, cut>>

\* query() when the connection fails: ServerExecute() calls the handler it was not
\* given, and nothing catches what that throws.
queryFails ==
    /\ alive /\ blocked = "query"
    /\ alive' = FALSE
    /\ UNCHANGED <<last, blocked, loops, reply, timers, connect, wait, result, cut>>

\* ServerExecute() with a handler returns, connected or not; its handler runs then or
\* when the answer comes.
ServerExecute ==
    /\ alive /\ blocked = "handler"
    /\ blocked' = "no"
    /\ UNCHANGED <<alive, last, loops, reply, timers, connect, wait, result, cut>>

Quit(ids) == [d \in DOMAIN loops |->
                [loops[d] EXCEPT !.quit = @ \/ loops[d].id \in ids]]

\* Mutant: the innermost loop is quit.
FinishedInnermost(i) ==
    /\ Handling /\ reply[i] = "asked"
    /\ \E kind \in {"valid", "invalid"} : reply' = [reply EXCEPT ![i] = kind]
    /\ loops' = IF loops = <<>> THEN loops ELSE Quit({loops[Len(loops)].id})
    /\ UNCHANGED <<alive, last, blocked, timers, connect, wait, result, cut>>

\* finished() of a reply, which has a result or is an error: connected to quit() of its
\* own loop, if that is still there.
Finished(i) ==
    /\ Handling /\ reply[i] = "asked"
    /\ \E kind \in {"valid", "invalid"} : reply' = [reply EXCEPT ![i] = kind]
    /\ loops' = Quit({i})
    /\ UNCHANGED <<alive, last, blocked, timers, connect, wait, result, cut>>

\* Mutant: the innermost loop is quit.
TimerFiresInnermost(t) ==
    /\ Handling /\ t.left = 0 /\ t.id \in Waiting
    /\ timers' = timers \ {t}
    /\ loops' = Quit({loops[Len(loops)].id})
    /\ UNCHANGED <<alive, last, blocked, reply, connect, wait, result, cut>>

\* The timer fires while its loop waits.
TimerFires(t) ==
    /\ Handling /\ t.left = 0 /\ t.id \in Waiting
    /\ timers' = timers \ {t}
    /\ loops' = Quit({t.id})
    /\ UNCHANGED <<alive, last, blocked, reply, connect, wait, result, cut>>

\* The timer fires when its loop is gone.  The reference is to a place on the stack:
\* what is there is not a loop any more and the call does nothing or ends the process,
\* or it is the loop of a later query at the same depth, and that one quits.
StaleTimerFires(t) ==
    /\ Handling /\ t.left = 0 /\ t.id \notin Waiting
    /\ timers' = timers \ {t}
    /\ \/ UNCHANGED <<alive, loops, cut>>
       \/ alive' = FALSE /\ UNCHANGED <<loops, cut>>
       \/ /\ t.at \in DOMAIN loops
          /\ loops' = Quit({loops[t.at].id})
          /\ cut' = cut \cup {loops[t.at].id}
          /\ UNCHANGED alive
    /\ UNCHANGED <<last, blocked, reply, connect, wait, result>>

\* exec() of the innermost loop returns, and query() with it: only a reply that came and
\* is valid has something to return.
Return ==
    /\ Handling /\ loops # <<>>
    /\ LET l == loops[Len(loops)]
       IN  /\ l.quit
           /\ result' = [result EXCEPT ![l.id] =
                            IF reply[l.id] = "valid" THEN "answer" ELSE "nothing"]
    /\ loops' = SubSeq(loops, 1, Len(loops) - 1)
    /\ UNCHANGED <<alive, last, blocked, reply, timers, connect, wait, cut>>

-----------------------------------------------------------------------------
(* Time *)

Waited == [i \in Ids |-> IF i \in Waiting THEN wait[i] + 1 ELSE wait[i]]

\* Mutant: time passes a timer that is due.
TickLate ==
    /\ Handling /\ timers # {}
    /\ timers' = {[t EXCEPT !.left = @ - 1] : t \in timers}
    /\ wait' = Waited
    /\ UNCHANGED <<alive, last, blocked, loops, reply, connect, result, cut>>

\* In an event loop, time passes once the timers due have fired and the loop that was
\* quit has returned.
Tick ==
    /\ Handling /\ \A t \in timers : t.left > 0
    /\ loops # <<>> => ~loops[Len(loops)].quit
    /\ timers # {}
    /\ timers' = {[t EXCEPT !.left = @ - 1] : t \in timers}
    /\ wait' = Waited
    /\ UNCHANGED <<alive, last, blocked, loops, reply, connect, result, cut>>

\* In waitForConnected() time passes for every loop, and timers become due that fire
\* only afterwards.
TickConnecting ==
    /\ alive /\ blocked # "no" /\ connect[last] < Connect
    /\ connect' = [connect EXCEPT ![last] = @ + 1]
    /\ timers' = {[t EXCEPT !.left = IF @ = 0 THEN 0 ELSE @ - 1] : t \in timers}
    /\ wait' = Waited
    /\ UNCHANGED <<alive, last, blocked, loops, reply, result, cut>>

Next ==
    \/ \E kind \in {"query", "handler"} : Call(kind)
    \/ query \/ queryFails \/ ServerExecute \/ Return
    \/ Tick \/ TickConnecting
    \/ \E i \in Ids : Finished(i)
    \/ \E t \in timers : TimerFires(t) \/ StaleTimerFires(t)

Spec == Init /\ [][Next]_vars

\* The event loop handles what is due, waitForConnected() returns and time goes on; no
\* answer need ever come.
Fairness ==
    /\ WF_vars(query \/ queryFails \/ ServerExecute)
    /\ WF_vars(Return)
    /\ WF_vars(Tick)
    /\ WF_vars(\E t \in timers : TimerFires(t) \/ StaleTimerFires(t))

FairSpec == Spec /\ Fairness

-----------------------------------------------------------------------------
(* Properties *)

\* A query waits longer than the time to connect and its timeout only by what the calls
\* made while it waits take: each of them, with a handler or without, may hold it for
\* as long again, however early its answer came.
WaitBounded ==
    \A i \in Waiting : connect[i] + wait[i] <= (Connect + Timeout) * (1 + last - i)

\* A query gives up early only when its reply was an error, or the timer of a finished
\* query at its depth cut it.
EarlyOnlyIfCut ==
    \A i \in 1..last : result[i] = "nothing" =>
        wait[i] >= Timeout \/ reply[i] = "invalid" \/ i \in cut

\* Every query returns: no order of answers, timers and connections leaves a loop running.
Returns == \A i \in Ids : i \in Waiting ~> (i \notin Waiting \/ ~alive)
=============================================================================
