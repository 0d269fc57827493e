-------------------------- MODULE SmsService_proofs --------------------------
(***************************************************************************)
(* Proofs about SmsService for any number of messages and any length of    *)
(* the wait between status queries.  Each part of the invariant stands on   *)
(* its own: the counter counts (CountExact), a row knows no more than the   *)
(* request that is under way (RowInv), a request made since the last reply  *)
(* has fewer ticks left than the counter says (OrderInv), and a chain has   *)
(* sent as many queries as its Iteration says (QueryInv).                   *)
(***************************************************************************)
EXTENDS MCSmsService, FiniteSetTheorems, TLAPS

\* A row has the id only if the requests of its message carry it.
RowInv == \A c \in Calls : row[c].id => IdSms[c]

OrderInv ==
    /\ fresh \subseteq Waiting
    /\ \A c \in fresh : left[c] < reuestsCount
    /\ ahead \subseteq Waiting \X Waiting
    /\ OrderKept

\* The status queries a chain has sent, given where it is.
QueryInv ==
    /\ queries \in [Calls -> Nat]
    /\ \A c \in Calls :
        /\ ~ IdSms[c] => queries[c] = 0 /\ place[c] # "poll"
        /\ place[c] = "idle" => ~ IdSms[c]
        /\ place[c] = "poll" => queries[c] <= Iteration[c]
        /\ queries[c] <= Iteration[c] + 1

-----------------------------------------------------------------------------
(* Types *)

\* The initial state has the types.
LEMMA TypeInit == Init => TypeOK
  BY DEF Init, TypeOK, Places, Rows

\* A request keeps the types of what it changes.
LEMMA RequestTypes ==
    ASSUME TypeOK, NEW c \in Calls, NetworkRequest(c)
    PROVE  /\ place' \in [Calls -> Places]
           /\ left' \in [Calls -> Nat]
           /\ reuestsCount' \in Nat
  BY DEF NetworkRequest, TypeOK, Places

\* What the handler does with a body keeps the types of what it changes.
LEMMA HandleTypes ==
    ASSUME TypeOK, NEW c \in Calls, NEW body, Handle(c, body)
    PROVE  /\ place' \in [Calls -> Places]
           /\ left' \in [Calls -> Nat]
           /\ IdSms' \in [Calls -> BOOLEAN]
           /\ Iteration' \in [Calls -> 0..3]
           /\ row' \in [Calls -> Rows]
<1> USE PollAssumption DEF TypeOK, Places, Rows, SmsStatusUpdate, StartPoll, Finish
<1>1. CASE IDReply(c)
  BY <1>1 DEF IDReply
<1>2. ASSUME NEW moving \in BOOLEAN, StatusReply(c, moving)
      PROVE  /\ place' \in [Calls -> Places]
             /\ left' \in [Calls -> Nat]
             /\ IdSms' \in [Calls -> BOOLEAN]
             /\ Iteration' \in [Calls -> 0..3]
             /\ row' \in [Calls -> Rows]
  <2>1. CASE moving /\ Iteration[c] < 3
    <3>1. Iteration[c] + 1 \in 0..3
      BY <2>1
    <3>2. QED
      BY <1>2, <2>1, <3>1 DEF StatusReply
  <2>2. CASE ~ (moving /\ Iteration[c] < 3)
    BY <1>2, <2>2 DEF StatusReply
  <2>3. QED
    BY <2>1, <2>2
<1>3. ASSUME NEW status \in {"err", "sent"}, ErrReply(c, status)
      PROVE  /\ place' \in [Calls -> Places]
             /\ left' \in [Calls -> Nat]
             /\ IdSms' \in [Calls -> BOOLEAN]
             /\ Iteration' \in [Calls -> 0..3]
             /\ row' \in [Calls -> Rows]
  BY <1>3 DEF ErrReply
<1>4. QED
  BY <1>1, <1>2, <1>3 DEF Handle

\* Every step keeps the types.
LEMMA TypeStep == TypeOK /\ [Next]_vars => TypeOK'
<1> SUFFICES ASSUME TypeOK, [Next]_vars PROVE TypeOK'
  OBVIOUS
<1>1. CASE UNCHANGED vars
  BY <1>1 DEF vars, TypeOK
<1>2. ASSUME NEW c \in Calls, sendSMSFECT(c) PROVE TypeOK'
  BY <1>2, RequestTypes DEF sendSMSFECT, TypeOK
<1>3. ASSUME NEW c \in Calls, Timeout(c) PROVE TypeOK'
  BY <1>3 DEF Timeout, TypeOK, Places
<1>4. ASSUME NEW c \in Calls, PollTimeout(c) PROVE TypeOK'
  BY <1>4, RequestTypes DEF PollTimeout, TypeOK
<1>5. ASSUME NEW c \in Calls, NEW error \in BOOLEAN, NEW body, finished(c, error, body)
      PROVE TypeOK'
  <2>1. reuestsCount' \in Nat
    BY <1>5 DEF finished, TypeOK
  <2>2. CASE Handle(c, body)
    BY <2>1, <2>2, HandleTypes DEF TypeOK
  <2>3. CASE Finish(c) /\ UNCHANGED row
    BY <2>1, <2>3 DEF Finish, TypeOK, Places
  <2>4. QED
    BY <1>5, <2>2, <2>3 DEF finished
<1>6. CASE Tick
  <2>1. \A c \in Calls : place[c] \in OnTimer => left[c] - 1 \in Nat
    BY <1>6 DEF Tick, TypeOK
  <2>2. left' \in [Calls -> Nat]
    BY <1>6, <2>1 DEF Tick, TypeOK
  <2>3. QED
    BY <1>6, <2>2 DEF Tick, TypeOK
<1>7. QED
  BY <1>1, <1>2, <1>3, <1>4, <1>5, <1>6 DEF Next, Reply

\* The variables keep their types in every behaviour of the service: no timer runs
\* past its end, and the counter never wraps below zero.
THEOREM TypeCorrect == Spec => []TypeOK
<1>1. QED
  BY TypeInit, TypeStep, PTL DEF Spec

-----------------------------------------------------------------------------
(* The counter *)

\* The requests under way are finitely many.
LEMMA UnderWayFinite == IsFiniteSet(UnderWay) /\ Cardinality(UnderWay) \in Nat
<1>1. UnderWay \subseteq Calls
  BY DEF UnderWay
<1>2. IsFiniteSet(UnderWay)
  BY <1>1, CallsAssumption, FS_Subset
<1>3. QED
  BY <1>2, FS_CardinalityType

\* A request that joins those under way is counted.
LEMMA RequestCounted ==
    ASSUME TypeOK, CountExact, NEW c \in Calls, c \notin UnderWay, NetworkRequest(c)
    PROVE  CountExact'
<1>1. UnderWay' = UnderWay \cup {c}
  BY DEF NetworkRequest, UnderWay, TypeOK
<1>2. Cardinality(UnderWay \cup {c}) = Cardinality(UnderWay) + 1
  BY UnderWayFinite, FS_AddElement
<1>3. QED
  BY <1>1, <1>2 DEF CountExact, NetworkRequest

\* Every step keeps the count exact.
LEMMA CountStep == TypeOK /\ CountExact /\ [Next]_vars => CountExact'
<1> SUFFICES ASSUME TypeOK, CountExact, [Next]_vars PROVE CountExact'
  OBVIOUS
<1>1. ASSUME UnderWay' = UnderWay, reuestsCount' = reuestsCount PROVE CountExact'
  BY <1>1 DEF CountExact
<1>2. CASE UNCHANGED vars
  BY <1>1, <1>2 DEF vars, UnderWay
<1>3. ASSUME NEW c \in Calls, sendSMSFECT(c) PROVE CountExact'
  BY <1>3, RequestCounted DEF sendSMSFECT, UnderWay
<1>4. ASSUME NEW c \in Calls, Timeout(c) PROVE CountExact'
  <2>1. UnderWay' = UnderWay
    BY <1>4 DEF Timeout, UnderWay, TypeOK
  <2>2. QED
    BY <1>1, <1>4, <2>1 DEF Timeout
<1>5. ASSUME NEW c \in Calls, PollTimeout(c) PROVE CountExact'
  BY <1>5, RequestCounted DEF PollTimeout, UnderWay
<1>6. ASSUME NEW c \in Calls, NEW error, NEW body, finished(c, error, body)
      PROVE CountExact'
  <2>1. c \in UnderWay
    BY <1>6 DEF finished, UnderWay
  <2>2. place' = [place EXCEPT ![c] = "poll"] \/ place' = [place EXCEPT ![c] = "done"]
    BY <1>6 DEF finished, Handle, IDReply, StatusReply, ErrReply, StartPoll, Finish
  <2>3. UnderWay' = UnderWay \ {c}
    BY <2>2 DEF UnderWay, TypeOK
  <2>4. Cardinality(UnderWay \ {c}) = Cardinality(UnderWay) - 1
    BY <2>1, UnderWayFinite, FS_RemoveElement
  <2>5. Cardinality(UnderWay) # 0
    BY <2>1, UnderWayFinite, FS_EmptySet
  <2>6. reuestsCount' = reuestsCount - 1
    BY <1>6, <2>5, UnderWayFinite DEF finished, CountExact
  <2>7. QED
    BY <2>3, <2>4, <2>6 DEF CountExact
<1>7. CASE Tick
  BY <1>1, <1>7 DEF Tick, UnderWay
<1>8. QED
  BY <1>2, <1>3, <1>4, <1>5, <1>6, <1>7 DEF Next, Reply

\* The initial count is exact.
LEMMA CountInit == Init => CountExact
<1> SUFFICES ASSUME Init PROVE CountExact
  OBVIOUS
<1>1. UnderWay = {}
  BY DEF Init, UnderWay
<1>2. QED
  BY <1>1, FS_EmptySet DEF Init, CountExact

\* In every behaviour reuestsCount is the number of requests that wait or are on
\* the network, so the delays of NetworkRequest() follow what is under way.
THEOREM CountExactHolds == Spec => []CountExact
<1>1. QED
  BY TypeInit, TypeStep, CountInit, CountStep, PTL DEF Spec

-----------------------------------------------------------------------------
(* The rows of the database *)

\* No row has an id at the start.
LEMMA RowInit == Init => RowInv
  BY DEF Init, RowInv

\* Every step leaves the rows to the ids their requests carry, and no row loses
\* its id.
LEMMA RowStep ==
    TypeOK /\ RowInv /\ [Next]_vars
        => RowInv' /\ (\A c \in Calls : row[c].id => row'[c].id)
<1> SUFFICES ASSUME TypeOK, RowInv, [Next]_vars
             PROVE  RowInv' /\ (\A c \in Calls : row[c].id => row'[c].id)
  OBVIOUS
<1>1. ASSUME row' = row, IdSms' = IdSms
      PROVE RowInv' /\ (\A c \in Calls : row[c].id => row'[c].id)
  BY <1>1 DEF RowInv
<1>2. CASE UNCHANGED vars
  BY <1>1, <1>2 DEF vars
<1>3. ASSUME NEW c \in Calls, sendSMSFECT(c) \/ Timeout(c) \/ PollTimeout(c)
      PROVE RowInv' /\ (\A d \in Calls : row[d].id => row'[d].id)
  BY <1>1, <1>3 DEF sendSMSFECT, Timeout, PollTimeout
<1>4. ASSUME NEW c \in Calls, NEW error, NEW body, finished(c, error, body)
      PROVE RowInv' /\ (\A d \in Calls : row[d].id => row'[d].id)
  <2>1. CASE IDReply(c)
    BY <2>1 DEF IDReply, SmsStatusUpdate, RowInv, TypeOK
  <2>2. ASSUME NEW moving \in BOOLEAN, IdSms[c], StatusReply(c, moving)
        PROVE RowInv' /\ (\A d \in Calls : row[d].id => row'[d].id)
    <3>1. IdSms' = IdSms
      BY <2>2 DEF StatusReply, Finish
    <3>2. row' = [row EXCEPT ![c] =
                    [id |-> TRUE, status |-> IF moving THEN "moving" ELSE "final"]]
      BY <2>2 DEF StatusReply, SmsStatusUpdate
    <3>3. QED
      BY <2>2, <3>1, <3>2 DEF RowInv, TypeOK
  <2>3. ASSUME NEW status, ErrReply(c, status)
        PROVE RowInv' /\ (\A d \in Calls : row[d].id => row'[d].id)
    BY <2>3 DEF ErrReply, SmsStatusUpdate, Finish, RowInv, TypeOK
  <2>4. CASE Finish(c) /\ UNCHANGED row
    BY <1>1, <2>4 DEF Finish
  <2>5. body \in {"moving", "final"} => IdSms[c]
    BY <1>4 DEF finished, Bodies
  <2>6. QED
    BY <1>4, <2>1, <2>2, <2>3, <2>4, <2>5 DEF finished, Handle
<1>5. CASE Tick
  BY <1>1, <1>5 DEF Tick
<1>6. QED
  BY <1>2, <1>3, <1>4, <1>5 DEF Next, Reply

\* A row that has the gateway's id keeps it, whatever later queries are answered.
THEOREM IdKeptHolds == Spec => IdKept
<1>1. TypeOK /\ RowInv /\ [Next]_vars => [\A c \in Calls : row[c].id => row'[c].id]_vars
  BY RowStep
<1>2. QED
  BY <1>1, TypeInit, TypeStep, RowInit, RowStep, PTL DEF Spec, IdKept

-----------------------------------------------------------------------------
(* The order of the requests, with the history of MCSmsService *)

\* A step of the specification with its history is one without it.
LEMMA StepProjects == [MCNext]_mcVars => [Next]_vars
  BY DEF MCNext, mcVars

\* Nothing waits at the start.
LEMMA OrderInit == MCInit => OrderInv
  BY DEF MCInit, OrderInv, OrderKept

\* A request that is made takes its place behind those it must not overtake.
LEMMA OrderRequest ==
    ASSUME TypeOK, OrderInv, MCNext, NEW c \in Calls, place[c] # "timer",
           NetworkRequest(c)
    PROVE  OrderInv'
<1>1. Waiting' = Waiting \cup {c} /\ c \notin Waiting
  BY DEF NetworkRequest, Waiting, TypeOK
<1>2. reuestsCount' = reuestsCount + 1 /\ reuestsCount \in Nat
  BY DEF NetworkRequest, TypeOK
<1>3. fresh' = fresh \cup {c}
  BY <1>1, <1>2 DEF MCNext, OrderInv
<1>4. ahead' = ahead \cup (fresh \X {c})
  <2>1. ahead' = (ahead \cup (fresh \X {c})) \cap (Waiting' \X Waiting')
    BY <1>1 DEF MCNext
  <2>2. fresh \subseteq Waiting' /\ ahead \subseteq Waiting' \X Waiting'
    BY <1>1 DEF OrderInv
  <2>3. QED
    BY <1>1, <2>1, <2>2
<1>5. /\ left'[c] = reuestsCount
      /\ \A d \in Calls : left'[d] \in Nat /\ (d # c => left'[d] = left[d])
  BY DEF NetworkRequest, TypeOK
<1>6. \A d \in fresh' : left'[d] < reuestsCount'
  <2>1. TAKE d \in fresh'
  <2>2. CASE d = c
    BY <1>2, <1>5, <2>2
  <2>3. CASE d # c
    <3>1. d \in fresh /\ d \in Calls
      BY <1>3, <2>3 DEF OrderInv, Waiting
    <3>2. left[d] < reuestsCount /\ left'[d] = left[d] /\ left[d] \in Nat
      BY <1>5, <2>3, <3>1 DEF OrderInv, TypeOK
    <3>3. QED
      BY <1>2, <3>2
  <2>4. QED
    BY <2>2, <2>3
<1>7. OrderKept'
  <2> SUFFICES ASSUME NEW a \in Calls, NEW b \in Calls, <<a, b>> \in ahead'
               PROVE  left'[a] < left'[b]
    BY DEF OrderKept
  <2>1. CASE <<a, b>> \in ahead
    <3>1. a # c /\ b # c
      BY <1>1, <2>1 DEF OrderInv
    <3>2. QED
      BY <1>5, <2>1, <3>1 DEF OrderInv, OrderKept
  <2>2. CASE a \in fresh /\ b = c
    <3>1. a # c
      BY <1>1, <2>2 DEF OrderInv
    <3>2. QED
      BY <1>5, <2>2, <3>1 DEF OrderInv
  <2>3. QED
    BY <1>4, <2>1, <2>2
<1>8. fresh' \subseteq Waiting' /\ ahead' \subseteq Waiting' \X Waiting'
  BY <1>1, <1>3, <1>4 DEF OrderInv
<1>9. QED
  BY <1>6, <1>7, <1>8 DEF OrderInv

\* A request that leaves, with a timer or a reply, disturbs no other.
LEMMA OrderLeave ==
    ASSUME TypeOK, TypeOK', OrderInv, MCNext, Waiting' \subseteq Waiting,
           \A d \in Waiting' : left'[d] = left[d],
           reuestsCount' = reuestsCount \/ reuestsCount' < reuestsCount
    PROVE  OrderInv'
<1>1. fresh' \subseteq fresh \cap Waiting' /\ ahead' \subseteq ahead \cap (Waiting' \X Waiting')
  BY DEF MCNext
<1>2. \A d \in fresh' : left'[d] < reuestsCount'
  <2>1. CASE reuestsCount' < reuestsCount
    <3>1. fresh' = {}
      BY <2>1 DEF MCNext
    <3>2. QED
      BY <3>1
  <2>2. CASE reuestsCount' = reuestsCount
    BY <1>1, <2>2 DEF OrderInv
  <2>3. QED
    BY <2>1, <2>2
<1>3. OrderKept'
  BY <1>1 DEF OrderInv, OrderKept
<1>4. QED
  BY <1>1, <1>2, <1>3 DEF OrderInv

\* When time goes on, the requests that wait come closer together by nothing.
LEMMA OrderTick ==
    ASSUME TypeOK, OrderInv, MCNext, Tick
    PROVE  OrderInv'
<1>1. Waiting' = Waiting /\ reuestsCount' = reuestsCount
  BY DEF Tick, Waiting
<1>2. fresh' = fresh /\ ahead' = ahead
  <2>1. reuestsCount \in Nat
    BY DEF TypeOK
  <2>2. QED
    BY <1>1, <2>1 DEF MCNext, OrderInv
<1>3. \A d \in Waiting : left[d] \in Nat /\ left'[d] = left[d] - 1
  BY DEF Tick, Waiting, OnTimer, TypeOK
<1>4. \A d \in fresh' : left'[d] < reuestsCount'
  <2>1. TAKE d \in fresh'
  <2>2. left[d] < reuestsCount /\ reuestsCount \in Nat /\ d \in Waiting
    BY <1>2 DEF OrderInv, TypeOK
  <2>3. QED
    BY <1>1, <1>3, <2>2
<1>5. OrderKept'
  <2> SUFFICES ASSUME NEW a \in Calls, NEW b \in Calls, <<a, b>> \in ahead'
               PROVE  left'[a] < left'[b]
    BY DEF OrderKept
  <2>1. a \in Waiting /\ b \in Waiting /\ left[a] < left[b]
    BY <1>2 DEF OrderInv, OrderKept
  <2>2. QED
    BY <1>3, <2>1
<1>6. QED
  BY <1>1, <1>2, <1>4, <1>5 DEF OrderInv

\* Every step keeps the order.
LEMMA OrderStep == TypeOK /\ TypeOK' /\ OrderInv /\ [MCNext]_mcVars => OrderInv'
<1> SUFFICES ASSUME TypeOK, TypeOK', OrderInv, [MCNext]_mcVars PROVE OrderInv'
  OBVIOUS
<1>1. CASE UNCHANGED mcVars
  BY <1>1 DEF mcVars, vars, OrderInv, OrderKept, Waiting
<1>2. CASE MCNext
  <2>1. ASSUME NEW c \in Calls, sendSMSFECT(c) \/ PollTimeout(c) PROVE OrderInv'
    BY <1>2, <2>1, OrderRequest DEF sendSMSFECT, PollTimeout
  <2>2. ASSUME NEW c \in Calls, Timeout(c) PROVE OrderInv'
    <3>1. Waiting' \subseteq Waiting
      BY <2>2 DEF Timeout, Waiting, TypeOK
    <3>2. QED
      BY <1>2, <2>2, <3>1, OrderLeave DEF Timeout
  <2>3. ASSUME NEW c \in Calls, NEW error, NEW body, finished(c, error, body)
        PROVE OrderInv'
    <3>1. place' = [place EXCEPT ![c] = "poll"] \/ place' = [place EXCEPT ![c] = "done"]
      BY <2>3 DEF finished, Handle, IDReply, StatusReply, ErrReply, StartPoll, Finish
    <3>2. Waiting' = Waiting /\ c \notin Waiting
      BY <2>3, <3>1 DEF finished, Waiting, TypeOK
    <3>3. left' = left \/ left' = [left EXCEPT ![c] = PollTicks]
      BY <2>3 DEF finished, Handle, IDReply, StatusReply, ErrReply, StartPoll, Finish
    <3>4. \A d \in Waiting' : left'[d] = left[d]
      BY <3>2, <3>3 DEF TypeOK, Waiting
    <3>5. reuestsCount' = reuestsCount \/ reuestsCount' < reuestsCount
      BY <2>3 DEF finished, TypeOK
    <3>6. QED
      BY <1>2, <3>2, <3>4, <3>5, OrderLeave
  <2>4. CASE Tick
    BY <1>2, <2>4, OrderTick
  <2>5. QED
    BY <1>2, <2>1, <2>2, <2>3, <2>4 DEF MCNext, Next, Reply
<1>3. QED
  BY <1>1, <1>2

\* Of two messages that wait, the one asked for first is sent first unless a reply
\* came in between, for any number of messages.
THEOREM OrderKeptHolds == MCSpec => []OrderKept
<1>1. MCInit => Init
  BY DEF MCInit
<1>2. OrderInv => OrderKept
  BY DEF OrderInv
<1>3. QED
  BY <1>1, <1>2, TypeInit, TypeStep, OrderInit, OrderStep, StepProjects, PTL DEF MCSpec

-----------------------------------------------------------------------------
(* The status queries *)

\* No query has been sent at the start.
LEMMA QueryInit == MCInit => QueryInv
  BY DEF MCInit, Init, QueryInv

\* Every step keeps what a chain has sent within its Iteration.
LEMMA QueryStep == TypeOK /\ TypeOK' /\ QueryInv /\ [MCNext]_mcVars => QueryInv'
<1> SUFFICES ASSUME TypeOK, TypeOK', QueryInv, [MCNext]_mcVars PROVE QueryInv'
  OBVIOUS
<1>1. CASE UNCHANGED mcVars
  BY <1>1 DEF mcVars, vars, QueryInv
<1>2. CASE MCNext
  <2>1. queries' = [c \in Calls |->
                      IF c \in Waiting' \ Waiting /\ IdSms[c]
                      THEN queries[c] + 1 ELSE queries[c]]
    BY <1>2 DEF MCNext
  <2>2. ASSUME NEW c \in Calls, sendSMSFECT(c) \/ PollTimeout(c) PROVE QueryInv'
    <3>1. Waiting' \ Waiting = {c} /\ place' = [place EXCEPT ![c] = "timer"]
      BY <2>2 DEF sendSMSFECT, PollTimeout, NetworkRequest, Waiting, TypeOK
    <3>2. IdSms' = IdSms /\ Iteration' = Iteration
      BY <2>2 DEF sendSMSFECT, PollTimeout
    <3>3. IdSms[c] => queries[c] <= Iteration[c]
      BY <2>2 DEF sendSMSFECT, PollTimeout, QueryInv
    <3>4. QED
      BY <2>1, <3>1, <3>2, <3>3 DEF QueryInv, TypeOK
  <2>3. ASSUME NEW c \in Calls, Timeout(c) PROVE QueryInv'
    <3>1. Waiting' \ Waiting = {}
      BY <2>3 DEF Timeout, Waiting, TypeOK
    <3>2. queries' = queries
      BY <2>1, <3>1 DEF QueryInv
    <3>3. QED
      BY <2>3, <3>2 DEF Timeout, QueryInv, TypeOK
  <2>4. ASSUME NEW c \in Calls, NEW error, NEW body, finished(c, error, body)
        PROVE QueryInv'
    <3>1. place' = [place EXCEPT ![c] = "poll"] \/ place' = [place EXCEPT ![c] = "done"]
      BY <2>4 DEF finished, Handle, IDReply, StatusReply, ErrReply, StartPoll, Finish
    <3>2. Waiting' \ Waiting = {}
      BY <3>1 DEF Waiting, TypeOK
    <3>3. queries' = queries
      BY <2>1, <3>2 DEF QueryInv
    <3>4. CASE body = "ID" /\ IDReply(c)
      <4>1. queries[c] = 0
        BY <2>4, <3>4 DEF finished, Bodies, QueryInv
      <4>2. QED
        BY <3>3, <3>4, <4>1 DEF IDReply, StartPoll, QueryInv, TypeOK
    <3>5. ASSUME NEW moving, IdSms[c], StatusReply(c, moving)
          PROVE QueryInv'
      <4>1. CASE moving /\ Iteration[c] < 3
        BY <3>3, <3>5, <4>1 DEF StatusReply, StartPoll, QueryInv, TypeOK
      <4>2. CASE ~ (moving /\ Iteration[c] < 3)
        BY <3>3, <3>5, <4>2 DEF StatusReply, Finish, QueryInv, TypeOK
      <4>3. QED
        BY <4>1, <4>2
    <3>6. CASE Finish(c)
      BY <2>4, <3>3, <3>6 DEF finished, Finish, QueryInv, TypeOK
    <3>7. body \in {"moving", "final"} => IdSms[c]
      BY <2>4 DEF finished, Bodies
    <3>8. QED
      BY <2>4, <3>4, <3>5, <3>6, <3>7 DEF finished, Handle, ErrReply
  <2>5. CASE Tick
    <3>1. queries' = queries
      BY <2>1, <2>5 DEF Tick, Waiting, QueryInv
    <3>2. QED
      BY <2>5, <3>1 DEF Tick, QueryInv
  <2>6. QED
    BY <1>2, <2>2, <2>3, <2>4, <2>5 DEF MCNext, Next, Reply
<1>3. QED
  BY <1>1, <1>2

\* A message is queried at most four times, however the gateway answers.
THEOREM QueriesBoundedHolds == MCSpec => []QueriesBounded
<1>1. MCInit => Init
  BY DEF MCInit
<1>2. TypeOK /\ QueryInv => QueriesBounded
  BY DEF TypeOK, QueryInv, QueriesBounded
<1>3. QED
  BY <1>1, <1>2, TypeInit, TypeStep, QueryInit, QueryStep, StepProjects, PTL DEF MCSpec
=============================================================================
