----------------------------- MODULE SmsService -----------------------------
(***************************************************************************)
(* The SMS service of the server: class Sms_service                        *)
(* (src/andon_server/sms_service), which asks an HTTP gateway to send a    *)
(* message and then queries what became of it.                             *)
(*                                                                         *)
(* Everything that happens for one call of sendSMSFECT() is a chain: a     *)
(* request waits on its timer, is on the network, and its reply may start  *)
(* the timer that leads to the next request.  Calls meet in reuestsCount,  *)
(* which sets the delay of the next request.  Time advances in ticks of    *)
(* the 3000 ms that NetworkRequest() multiplies.                           *)
(***************************************************************************)
EXTENDS Naturals, FiniteSets

CONSTANTS
    Calls,      \* the accepted calls of sendSMSFECT()
    PollTicks   \* the 30 s between a reply and the status query it starts

ASSUME CallsAssumption == IsFiniteSet(Calls)
ASSUME PollAssumption == PollTicks \in Nat \ {0}

VARIABLES
    place,          \* where each call's chain is
    left,           \* the ticks left on its timer, if it is on one
    IdSms,          \* whether its request carries the id the gateway gave
    Iteration,      \* the property Iteration of its request
    reuestsCount,   \* the source's name
    row             \* what SmsStatusUpdate() told the database about each call

vars == <<place, left, IdSms, Iteration, reuestsCount, row>>

Places == {"idle", "timer", "net", "poll", "done"}
OnTimer == {"timer", "poll"}

\* A row of the database: whether it has the id, and the status.
Rows == [id : BOOLEAN, status : {"none", "sent", "moving", "final", "err"}]

TypeOK ==
    /\ place \in [Calls -> Places]
    /\ left \in [Calls -> Nat]
    /\ IdSms \in [Calls -> BOOLEAN]
    /\ Iteration \in [Calls -> 0..3]
    /\ reuestsCount \in Nat
    /\ row \in [Calls -> Rows]

Init ==
    /\ place = [c \in Calls |-> "idle"]
    /\ left = [c \in Calls |-> 0]
    /\ IdSms = [c \in Calls |-> FALSE]
    /\ Iteration = [c \in Calls |-> 0]
    /\ reuestsCount = 0
    /\ row = [c \in Calls |-> [id |-> FALSE, status |-> "none"]]

-----------------------------------------------------------------------------
(* Requests *)

\* Mutant: the delay does not grow with the requests under way.
RequestUnspaced(c) ==
    /\ place' = [place EXCEPT ![c] = "timer"]
    /\ left' = [left EXCEPT ![c] = 0]
    /\ reuestsCount' = reuestsCount + 1

\* The request starts its timer behind those under way.
NetworkRequest(c) ==
    /\ place' = [place EXCEPT ![c] = "timer"]
    /\ left' = [left EXCEPT ![c] = reuestsCount]
    /\ reuestsCount' = reuestsCount + 1

\* A text for a number that begins with 8, at a first attempt, as every caller
\* makes it; other calls return at once.
sendSMSFECT(c) ==
    /\ place[c] = "idle"
    /\ NetworkRequest(c)
    /\ UNCHANGED <<IdSms, Iteration, row>>

\* Mutant: a request is sent only when no other is under way.
TimeoutAlone(c) ==
    /\ place[c] = "timer" /\ left[c] = 0
    /\ reuestsCount = 1
    /\ place' = [place EXCEPT ![c] = "net"]
    /\ UNCHANGED <<left, IdSms, Iteration, reuestsCount, row>>

\* nrTimer: manager->get().
Timeout(c) ==
    /\ place[c] = "timer" /\ left[c] = 0
    /\ place' = [place EXCEPT ![c] = "net"]
    /\ UNCHANGED <<left, IdSms, Iteration, reuestsCount, row>>

\* stTimer and st2Timer: the next status query.
PollTimeout(c) ==
    /\ place[c] = "poll" /\ left[c] = 0
    /\ NetworkRequest(c)
    /\ UNCHANGED <<IdSms, Iteration, row>>

-----------------------------------------------------------------------------
(* The handler of QNetworkAccessManager::finished *)

\* What the gateway answers (external): a message gets an id, an error or text
\* that is neither; a status query a status instead of the id.  Statuses 2 and 3
\* are the ones that change.  The body may be empty.
Bodies(query) ==
    {"none", "err", "wrong"} \cup IF query THEN {"moving", "final"} ELSE {"ID"}

\* The reply ends the chain.
Finish(c) ==
    /\ place' = [place EXCEPT ![c] = "done"]
    /\ UNCHANGED <<left, IdSms, Iteration>>

StartPoll(c) ==
    /\ place' = [place EXCEPT ![c] = "poll"]
    /\ left' = [left EXCEPT ![c] = PollTicks]

SmsStatusUpdate(c, id, status) ==
    row' = [row EXCEPT ![c] = [id |-> id, status |-> status]]

\* Mutant: the id is reported and not handed on to the status query.
IDReplyForgets(c) ==
    /\ SmsStatusUpdate(c, TRUE, "sent")
    /\ StartPoll(c)
    /\ UNCHANGED <<IdSms, Iteration>>

\* "ID: n": reported with status -1.
IDReply(c) ==
    /\ SmsStatusUpdate(c, TRUE, "sent")
    /\ IdSms' = [IdSms EXCEPT ![c] = TRUE]
    /\ Iteration' = [Iteration EXCEPT ![c] = 0]
    /\ StartPoll(c)

\* Mutant: the iterations are not counted.
StatusReplyUncounted(c, moving) ==
    /\ SmsStatusUpdate(c, TRUE, IF moving THEN "moving" ELSE "final")
    /\ IF moving /\ Iteration[c] < 3
       THEN StartPoll(c) /\ UNCHANGED <<IdSms, Iteration>>
       ELSE Finish(c)

\* "ID: n Status: m": queried again while the status is 2 or 3, three times.
StatusReply(c, moving) ==
    /\ SmsStatusUpdate(c, TRUE, IF moving THEN "moving" ELSE "final")
    /\ IF moving /\ Iteration[c] < 3
       THEN /\ Iteration' = [Iteration EXCEPT ![c] = @ + 1]
            /\ StartPoll(c)
            /\ UNCHANGED IdSms
       ELSE Finish(c)

\* "Err: n" is reported with its number, any other text with -1, and the id the
\* request carried.
ErrReply(c, status) ==
    /\ SmsStatusUpdate(c, IdSms[c], status)
    /\ Finish(c)

Handle(c, body) ==
    \/ body = "ID" /\ IDReply(c)
    \/ body = "moving" /\ StatusReply(c, TRUE)
    \/ body = "final" /\ StatusReply(c, FALSE)
    \/ body = "err" /\ ErrReply(c, "err")
    \/ body = "wrong" /\ ErrReply(c, "sent")

\* Mutant: a reply nobody reads stays counted.
finishedLeaks(c, error, body) ==
    /\ place[c] = "net"
    /\ body \in Bodies(IdSms[c])
    /\ IF error /\ body # "none"
       THEN /\ Handle(c, body)
            /\ reuestsCount' = IF reuestsCount > 0 THEN reuestsCount - 1 ELSE 0
       ELSE Finish(c) /\ UNCHANGED <<reuestsCount, row>>

\* The body is read only when reply->error() > 0: the statement that test guarded
\* is commented out, and the next one, which reads the body, took its place.
finished(c, error, body) ==
    /\ place[c] = "net"
    /\ body \in Bodies(IdSms[c])
    /\ IF error /\ body # "none" THEN Handle(c, body) ELSE Finish(c) /\ UNCHANGED row
    /\ reuestsCount' = IF reuestsCount > 0 THEN reuestsCount - 1 ELSE 0

-----------------------------------------------------------------------------
\* Mutant: time goes on while a timer that has run out does not fire.
TickLate ==
    /\ \E c \in Calls : place[c] \in OnTimer
    /\ left' = [c \in Calls |-> IF place[c] \in OnTimer THEN left[c] - 1 ELSE left[c]]
    /\ UNCHANGED <<place, IdSms, Iteration, reuestsCount, row>>

\* A timer that has run out fires before time goes on.
Tick ==
    /\ \E c \in Calls : place[c] \in OnTimer
    /\ \A c \in Calls : place[c] \in OnTimer => left[c] > 0
    /\ left' = [c \in Calls |-> IF place[c] \in OnTimer THEN left[c] - 1 ELSE left[c]]
    /\ UNCHANGED <<place, IdSms, Iteration, reuestsCount, row>>

Reply(c) ==
    \E error \in BOOLEAN, body \in Bodies(TRUE) \cup Bodies(FALSE) :
        finished(c, error, body)

Next ==
    \/ \E c \in Calls : \/ sendSMSFECT(c) \/ Timeout(c) \/ PollTimeout(c)
                        \/ Reply(c)
    \/ Tick

Spec == Init /\ [][Next]_vars

(* Fairness: the event loop fires timers, time passes, and Qt finishes every    *)
(* request it has sent: with an answer, or with the error of a lost connection. *)
Fairness ==
    /\ WF_vars(Tick)
    /\ \A c \in Calls : WF_vars(Timeout(c) \/ PollTimeout(c) \/ Reply(c))

-----------------------------------------------------------------------------
(* Properties *)

UnderWay == {c \in Calls : place[c] \in {"timer", "net"}}

\* The counter that spaces the requests is the number of them that wait or are on
\* the network, whatever order replies and timers come in: the test for zero in
\* the handler never hides a miscount.
CountExact == reuestsCount = Cardinality(UnderWay)

\* A row that has the gateway's id keeps it: a failed status query, which reports
\* the id its request carried, does not overwrite it with 0.
IdKept == [][\A c \in Calls : row[c].id => row'[c].id]_vars

\* Every message that was taken is done with some day, and its place in the count
\* is free again.
Settled == \A c \in Calls : place[c] = "timer" ~> place[c] = "done"
=============================================================================
