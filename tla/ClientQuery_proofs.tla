------------------------- MODULE ClientQuery_proofs -------------------------
(* Theorems about the nested waits of ClientRpcUtility::query(), see ClientQuery. *)
EXTENDS ClientQuery, TLAPS, SequenceTheorems

Id(d) == loops[d].id
Depths == 1..Len(loops)

\* The calls whose connection is made or has failed.
Made == IF blocked = "no" THEN last ELSE last - 1

\* The most a call takes by itself, and what it has taken.
Turn == Connect + Timeout
Spent(i) == connect[i] + wait[i]

\* Queries lie on the stack in the order of their calls.
Stack ==
    /\ Len(loops) <= Made
    /\ \A d \in Depths : Id(d) <= Made
    /\ \A d, e \in Depths : d < e => Id(d) < Id(e)

\* A timer and the time in the loop make up the timeout, or the timer is late; what is
\* not yet connected has not waited.
Armed ==
    /\ \A i \in Ids : last < i => connect[i] = 0
    /\ \A i \in Ids : Made < i => wait[i] = 0 /\ result[i] = "none"
    /\ \A t \in timers : t.id <= Made
    /\ \A t \in timers : \A d \in Depths : t.id = Id(d) =>
          /\ t.left + wait[t.id] >= Timeout
          /\ t.left > 0 => t.left + wait[t.id] = Timeout
    /\ \A d \in Depths : loops[d].quit \/ \E t \in timers : t.id = Id(d)
    /\ \A d \in Depths : loops[d].quit =>
          reply[Id(d)] \in {"valid", "invalid"} \/ Id(d) \in cut \/ wait[Id(d)] >= Timeout

\* A call made while a query waits adds at most its own turn to that wait.
Nested ==
    \A d, e \in Depths : d < e => Spent(Id(d)) <= Spent(Id(e)) + Turn * (Id(e) - Id(d))

\* So does the one that connects.
Held ==
    blocked # "no" => \A d \in Depths : Spent(Id(d)) <= connect[last] + Turn * (last - Id(d))

Bounded == \A d \in Depths : Spent(Id(d)) <= Turn * (1 + last - Id(d))

Inv == TypeOK /\ Stack /\ Armed /\ Nested /\ Held /\ Bounded /\ EarlyOnlyIfCut

-----------------------------------------------------------------------------
(* Multiples of a turn, and the stack *)

LEMMA Multiples ==
    /\ Turn \in Nat
    /\ \A n \in Nat : Turn * n \in Nat
    /\ \A m, n \in Nat : Turn * (m + n) = Turn * m + Turn * n
    /\ \A m, n \in Nat : m <= n => Turn * m <= Turn * n
    /\ \A n \in Nat \ {0} : Turn <= Turn * n
<1>0. Turn \in Nat
  BY QueryAssumption DEF Turn
<1>1. \A n \in Nat : Turn * n \in Nat
  BY <1>0, SMT
<1>2. \A m, n \in Nat : Turn * (m + n) = Turn * m + Turn * n
  BY <1>0, SMT
<1>3. ASSUME NEW m \in Nat, NEW n \in Nat, m <= n
      PROVE  Turn * m <= Turn * n
  <2>1. n - m \in Nat /\ n = m + (n - m)
    BY <1>3
  <2>2. Turn * n = Turn * m + Turn * (n - m)
    BY <1>2, <2>1
  <2> QED BY <1>1, <2>1, <2>2
<1>4. Turn * 1 = Turn
  BY <1>0
<1>5. \A n \in Nat \ {0} : Turn <= Turn * n
  BY <1>3, <1>4
<1> QED BY <1>0, <1>1, <1>2, <1>3, <1>5

LEMMA StackType ==
    ASSUME TypeOK
    PROVE  /\ Len(loops) \in Nat /\ DOMAIN loops = Depths
           /\ \A d \in Depths : loops[d] \in Loop /\ Id(d) \in Ids /\ loops[d].quit \in BOOLEAN
<1>1. loops \in Seq(Loop)
  BY DEF TypeOK
<1>2. Len(loops) \in Nat /\ DOMAIN loops = Depths /\ loops \in [Depths -> Loop]
  BY <1>1, LenProperties DEF Depths
<1> QED BY <1>2 DEF Loop, Id

\* The calls and the times are natural numbers.
LEMMA Numbers ==
    ASSUME TypeOK
    PROVE  /\ last \in Nat /\ Made \in Nat /\ Made <= last /\ last <= MaxCalls
           /\ \A i \in Ids : /\ i \in Nat /\ i >= 1
                             /\ connect[i] \in Nat /\ connect[i] <= Connect
                             /\ wait[i] \in Nat /\ Spent(i) \in Nat
<1>1. last \in Nat /\ last <= MaxCalls /\ (blocked # "no" => last > 0)
  BY QueryAssumption DEF TypeOK
<1>2. Made \in Nat /\ Made <= last
  BY <1>1 DEF Made
<1>3. \A i \in Ids : /\ i \in Nat /\ i >= 1
                     /\ connect[i] \in Nat /\ connect[i] <= Connect /\ wait[i] \in Nat
  BY QueryAssumption DEF TypeOK, Ids
<1> QED BY <1>1, <1>2, <1>3 DEF Spent

LEMMA QuitLoops ==
    ASSUME TypeOK, NEW ids
    PROVE  /\ Quit(ids) \in Seq(Loop) /\ Len(Quit(ids)) = Len(loops)
           /\ \A d \in Depths : /\ Quit(ids)[d].id = Id(d)
                                /\ Quit(ids)[d].quit <=> loops[d].quit \/ Id(d) \in ids
<1> DEFINE q == Quit(ids)
<1>1. q = [d \in Depths |-> [loops[d] EXCEPT !.quit = @ \/ loops[d].id \in ids]]
  BY StackType DEF Quit
<1>2. \A d \in Depths : [loops[d] EXCEPT !.quit = @ \/ loops[d].id \in ids] \in Loop
  BY StackType DEF Loop
<1>3. q \in [1..Len(loops) -> Loop]
  BY <1>1, <1>2 DEF Depths
<1>4. q \in Seq(Loop)
  BY <1>3, StackType, SeqDef
<1>5. Len(q) = Len(loops)
  BY <1>3, <1>4, StackType, LenProperties
<1>6. \A d \in Depths : q[d].id = Id(d) /\ (q[d].quit <=> loops[d].quit \/ Id(d) \in ids)
  BY <1>1, StackType DEF Loop, Id
<1> QED BY <1>4, <1>5, <1>6

LEMMA WaitingIds == ASSUME TypeOK PROVE Waiting = {Id(d) : d \in Depths}
BY StackType DEF Waiting, Id

-----------------------------------------------------------------------------
(* The actions *)

LEMMA InitInv == Init => Inv
<1> SUFFICES ASSUME Init PROVE Inv
  OBVIOUS
<1>1. TypeOK
  BY QueryAssumption, EmptySeq DEF Init, TypeOK, Ids
<1>2. Depths = {}
  BY DEF Init, Depths
<1>3. Len(loops) <= Made
  BY EmptySeq DEF Init, Made
<1> QED BY <1>1, <1>2, <1>3 DEF Init, Inv, Stack, Armed, Nested, Held, Bounded, EarlyOnlyIfCut

\* Answers and timers quit loops and nothing more.
LEMMA QuitKeeps ==
    ASSUME Inv, TypeOK', NEW ids,
           Len(loops') = Len(loops),
           \A d \in Depths : /\ loops'[d].id = Id(d)
                             /\ loops'[d].quit <=> loops[d].quit \/ Id(d) \in ids,
           UNCHANGED <<last, blocked, connect, wait, result>>,
           \A i \in Ids : reply[i] \in {"valid", "invalid"} => reply'[i] = reply[i],
           cut \subseteq cut', timers' \subseteq timers,
           \A t \in timers \ timers' : t.id \in ids \/ t.id \notin Waiting,
           \A d \in Depths : Id(d) \in ids =>
              reply'[Id(d)] \in {"valid", "invalid"} \/ Id(d) \in cut' \/ wait[Id(d)] >= Timeout
    PROVE  Inv'
<1>0. TypeOK
  BY DEF Inv
<1>1. Depths' = Depths /\ \A d \in Depths : Id(d)' = Id(d) /\ Id(d) \in Ids
  BY <1>0, StackType DEF Depths, Id
<1>1a. Made' = Made
  BY DEF Made
<1>1b. \A i : Spent(i)' = Spent(i)
  BY DEF Spent
<1>2. Stack'
  BY <1>1, <1>1a DEF Inv, Stack
<1>3. Nested' /\ Held' /\ Bounded'
  BY <1>1, <1>1b DEF Inv, Nested, Held, Bounded
<1>4. EarlyOnlyIfCut'
  <2>1. 1..last \subseteq Ids
    BY <1>0, Numbers, QueryAssumption DEF Ids
  <2> QED BY <2>1 DEF Inv, EarlyOnlyIfCut
<1>5. Armed'
  <2>1. /\ \A i \in Ids : last' < i => connect'[i] = 0
        /\ \A i \in Ids : Made' < i => wait'[i] = 0 /\ result'[i] = "none"
    BY <1>1a DEF Inv, Armed
  <2>2. \A t \in timers' : t.id <= Made'
    BY <1>1a DEF Inv, Armed
  <2>3. \A t \in timers' : \A d \in Depths' : t.id = Id(d)' =>
           /\ t.left + wait'[t.id] >= Timeout
           /\ t.left > 0 => t.left + wait'[t.id] = Timeout
    BY <1>1 DEF Inv, Armed
  <2>4. ASSUME NEW d \in Depths, ~loops'[d].quit
        PROVE  \E t \in timers' : t.id = Id(d)
    <3>1. ~loops[d].quit /\ Id(d) \notin ids
      BY <2>4
    <3>2. PICK t \in timers : t.id = Id(d)
      BY <3>1 DEF Inv, Armed
    <3>3. t.id \in Waiting
      BY <3>2, WaitingIds DEF Inv
    <3> QED BY <3>1, <3>2, <3>3
  <2>5. ASSUME NEW d \in Depths, loops'[d].quit
        PROVE  \/ reply'[Id(d)] \in {"valid", "invalid"}
               \/ Id(d) \in cut' \/ wait'[Id(d)] >= Timeout
    BY <1>1, <2>5 DEF Inv, Armed
  <2> QED BY <1>1, <2>1, <2>2, <2>3, <2>4, <2>5 DEF Armed
<1> QED BY <1>2, <1>3, <1>4, <1>5 DEF Inv

LEMMA FinishedInv ==
    ASSUME Inv, NEW i \in Ids, Finished(i)
    PROVE  Inv'
<1>1. TypeOK
  BY DEF Inv
<1>2. PICK kind \in {"valid", "invalid"} : reply' = [reply EXCEPT ![i] = kind]
  BY DEF Finished
<1>3. /\ loops' = Quit({i}) /\ reply[i] = "asked"
      /\ UNCHANGED <<alive, last, blocked, timers, connect, wait, result, cut>>
  BY DEF Finished
<1>4. TypeOK'
  BY <1>1, <1>2, <1>3, QuitLoops DEF TypeOK
<1>5. /\ reply'[i] \in {"valid", "invalid"}
      /\ \A j \in Ids : reply[j] \in {"valid", "invalid"} => reply'[j] = reply[j]
  BY <1>1, <1>2, <1>3 DEF TypeOK
<1>6. /\ Len(loops') = Len(loops)
      /\ \A d \in Depths : /\ loops'[d].id = Id(d)
                           /\ loops'[d].quit <=> loops[d].quit \/ Id(d) \in {i}
  BY <1>1, <1>3, QuitLoops
<1>7. \A d \in Depths : Id(d) \in {i} => reply'[Id(d)] \in {"valid", "invalid"}
  BY <1>5
<1> QED BY <1>3, <1>4, <1>5, <1>6, <1>7, QuitKeeps

LEMMA TimerFiresInv ==
    ASSUME Inv, NEW t \in timers, TimerFires(t)
    PROVE  Inv'
<1>1. TypeOK
  BY DEF Inv
<1>2. /\ loops' = Quit({t.id}) /\ timers' = timers \ {t} /\ t.left = 0
      /\ UNCHANGED <<alive, last, blocked, reply, connect, wait, result, cut>>
  BY DEF TimerFires
<1>3. TypeOK'
  BY <1>1, <1>2, QuitLoops DEF TypeOK
<1>4. \A d \in Depths : Id(d) \in {t.id} => wait[Id(d)] >= Timeout
  <2> SUFFICES ASSUME NEW d \in Depths, Id(d) = t.id PROVE wait[Id(d)] >= Timeout
    OBVIOUS
  <2>1. t.left + wait[t.id] >= Timeout
    BY DEF Inv, Armed
  <2>2. wait[t.id] \in Nat
    BY <1>1, StackType DEF TypeOK
  <2> QED BY <1>2, <2>1, <2>2, QueryAssumption
<1> QED BY <1>1, <1>2, <1>3, <1>4, QuitLoops, QuitKeeps DEF Inv

LEMMA StaleTimerInv ==
    ASSUME Inv, NEW t \in timers, StaleTimerFires(t)
    PROVE  Inv'
<1>1. TypeOK
  BY DEF Inv
<1>2. /\ timers' = timers \ {t} /\ t.id \notin Waiting
      /\ UNCHANGED <<last, blocked, reply, connect, wait, result>>
  BY DEF StaleTimerFires
<1>3. CASE loops' = loops /\ cut' = cut /\ alive' \in BOOLEAN
  <2>1. TypeOK'
    BY <1>1, <1>2, <1>3 DEF TypeOK
  <2> DEFINE none == {}
  <2>2. \A i : i \notin none
    OBVIOUS
  <2> HIDE DEF none
  <2>3. Len(loops') = Len(loops)
    BY <1>3
  <2>4. \A d \in Depths : loops'[d].id = Id(d) /\ (loops'[d].quit <=> loops[d].quit \/ Id(d) \in none)
    BY <1>3, <2>2 DEF Id
  <2> QED BY <1>2, <1>3, <2>1, <2>2, <2>3, <2>4, QuitKeeps
<1>4. CASE /\ t.at \in DOMAIN loops /\ alive' = alive
           /\ loops' = Quit({loops[t.at].id}) /\ cut' = cut \cup {loops[t.at].id}
  <2> DEFINE i == loops[t.at].id
  <2>1. i = Id(t.at) /\ t.at \in Depths /\ i \in Ids /\ i <= Made
    BY <1>1, <1>4, StackType DEF Inv, Stack, Id
  <2> HIDE DEF i
  <2>2. i \in 1..last
    BY <1>1, <2>1, Numbers
  <2>3. loops' = Quit({i}) /\ cut' = cut \cup {i}
    BY <1>4 DEF i
  <2>4. TypeOK'
    <3>1. loops' \in Seq(Loop) /\ Len(loops') = Len(loops)
      BY <1>1, <2>3, QuitLoops
    <3>2. cut' \subseteq 1..last
      BY <1>1, <2>2, <2>3 DEF TypeOK
    <3> QED BY <1>1, <1>2, <1>4, <3>1, <3>2 DEF TypeOK
  <2> QED BY <1>1, <1>2, <2>3, <2>4, QuitLoops, QuitKeeps
<1> QED BY <1>1, <1>3, <1>4 DEF StaleTimerFires, TypeOK

\* A call that begins to connect is not yet on the stack.
LEMMA CallInv ==
    ASSUME Inv, NEW kind \in {"query", "handler"}, Call(kind)
    PROVE  Inv'
<1>1. TypeOK /\ Stack /\ Armed /\ Nested /\ Held /\ Bounded /\ EarlyOnlyIfCut
  BY DEF Inv
<1>2. /\ last < MaxCalls /\ last' = last + 1 /\ blocked = "no" /\ blocked' = kind /\ kind # "no"
      /\ UNCHANGED <<alive, loops, reply, timers, connect, wait, result, cut>>
  BY DEF Call, Handling
<1>3. last \in Nat /\ Made = last /\ Made' = last /\ last' \in Ids
  <2>1. last \in Nat
    BY <1>1, Numbers
  <2>2. last + 1 \in Ids
    BY <1>2, <2>1, QueryAssumption DEF Ids
  <2> QED BY <1>2, <2>1, <2>2 DEF Made
<1>4. TypeOK'
  <2>1. last' \in 0..MaxCalls /\ last' > 0 /\ 1..last \subseteq 1..last' /\ last <= last'
    BY <1>1, <1>2, <1>3, QueryAssumption
  <2>2. Len(loops) <= last'
    BY <1>1, <2>1, <1>3, StackType DEF TypeOK
  <2> QED BY <1>1, <1>2, <2>1, <2>2 DEF TypeOK
<1>5. Depths' = Depths /\ \A d \in Depths : Id(d)' = Id(d)
  BY <1>2 DEF Depths, Id
<1>6. \A i : Spent(i)' = Spent(i)
  BY <1>2 DEF Spent
<1>7. Stack'
  BY <1>1, <1>2, <1>3, <1>5 DEF Stack
<1>8. Armed'
  <2>1. \A i \in Ids : last' < i => connect'[i] = 0
    BY <1>1, <1>2, <1>3 DEF Armed, Ids
  <2> QED BY <1>1, <1>2, <1>3, <1>5, <2>1 DEF Armed
<1>9. \A d \in Depths : /\ 1 + last - Id(d) \in Nat /\ last' - Id(d) = 1 + last - Id(d)
                        /\ 1 + last' - Id(d) \in Nat /\ 1 + last - Id(d) <= 1 + last' - Id(d)
                        /\ Spent(Id(d)) \in Nat
  <2>1. \A d \in Depths : Id(d) \in Ids /\ Id(d) <= last
    BY <1>1, <1>3, StackType DEF Stack
  <2>2. \A d \in Depths : Id(d) \in Nat /\ Spent(Id(d)) \in Nat
    BY <1>1, <2>1, Numbers
  <2> QED BY <1>2, <1>3, <2>1, <2>2
<1>10. Nested'
  BY <1>1, <1>5, <1>6 DEF Nested
<1>11. Held'
  <2>1. connect'[last'] = 0
    BY <1>1, <1>2, <1>3 DEF Armed
  <2>2. ASSUME NEW d \in Depths
        PROVE  Spent(Id(d)) <= 0 + Turn * (last' - Id(d))
    BY <1>1, <1>9, Multiples DEF Bounded
  <2> QED BY <1>5, <1>6, <2>1, <2>2 DEF Held
<1>12. Bounded'
  <2>1. ASSUME NEW d \in Depths
        PROVE  Spent(Id(d)) <= Turn * (1 + last' - Id(d))
    <3>1. Turn * (1 + last - Id(d)) <= Turn * (1 + last' - Id(d))
      BY <1>9, Multiples
    <3>2. Turn * (1 + last - Id(d)) \in Nat /\ Turn * (1 + last' - Id(d)) \in Nat
      BY <1>9, Multiples
    <3>3. Spent(Id(d)) <= Turn * (1 + last - Id(d))
      BY <1>1 DEF Bounded
    <3> QED BY <1>9, <3>1, <3>2, <3>3
  <2> QED BY <1>5, <1>6, <2>1 DEF Bounded
<1>13. EarlyOnlyIfCut'
  <2>1. \A i \in 1..last' : i \in 1..last \/ i = last'
    BY <1>2, <1>3
  <2>2. result[last'] = "none"
    BY <1>1, <1>2, <1>3 DEF Armed
  <2> QED BY <1>1, <1>2, <2>1, <2>2 DEF EarlyOnlyIfCut
<1> QED BY <1>4, <1>7, <1>8, <1>10, <1>11, <1>12, <1>13 DEF Inv

\* A call with a handler leaves nothing on the stack.
LEMMA ServerExecuteInv ==
    ASSUME Inv, ServerExecute
    PROVE  Inv'
<1>1. TypeOK /\ Stack /\ Armed /\ Nested /\ Held /\ Bounded /\ EarlyOnlyIfCut
  BY DEF Inv
<1>2. /\ blocked = "handler" /\ blocked' = "no"
      /\ UNCHANGED <<alive, last, loops, reply, timers, connect, wait, result, cut>>
  BY DEF ServerExecute
<1>3. TypeOK'
  BY <1>1, <1>2 DEF TypeOK
<1>4. /\ Depths' = Depths /\ \A d \in Depths : Id(d)' = Id(d) /\ Id(d) \in Ids
      /\ \A i : Spent(i)' = Spent(i)
  BY <1>1, <1>2, StackType DEF Depths, Id, Spent
<1>5. Made' = last /\ Made <= Made' /\ \A i \in Ids : Made' < i => Made < i
  BY <1>1, <1>2, Numbers DEF Made
<1>6. Stack'
  <2>1. Len(loops) \in Nat /\ Made \in Nat /\ last \in Nat /\ \A d \in Depths : Id(d) \in Nat
    BY <1>1, <1>4, StackType, Numbers
  <2>2. Len(loops) <= last /\ \A d \in Depths : Id(d) <= last
    BY <1>1, <1>5, <2>1 DEF Stack
  <2> QED BY <1>1, <1>2, <1>4, <1>5, <2>2 DEF Stack
<1>7. Armed'
  <2>1. \A t \in timers : t.id <= Made'
    <3>1. \A t \in timers : t.id \in Ids
      BY <1>1 DEF TypeOK, Timer
    <3> QED BY <1>1, <1>5, <3>1, Numbers DEF Armed
  <2> QED BY <1>1, <1>2, <1>4, <1>5, <2>1 DEF Armed
<1>8. Nested' /\ Held' /\ Bounded'
  BY <1>1, <1>2, <1>4 DEF Nested, Held, Bounded
<1>9. EarlyOnlyIfCut'
  BY <1>1, <1>2 DEF EarlyOnlyIfCut
<1> QED BY <1>3, <1>6, <1>7, <1>8, <1>9 DEF Inv

\* The query that has connected is the last call, and comes upon the stack.
LEMMA queryInv ==
    ASSUME Inv, query
    PROVE  Inv'
<1>0. PICK n, k : n = last /\ k = Len(loops) + 1
  OBVIOUS
<1> DEFINE l == [id |-> n, quit |-> FALSE]
           t == [id |-> n, left |-> Timeout, at |-> k]
<1>1. TypeOK /\ Stack /\ Armed /\ Nested /\ Held /\ Bounded /\ EarlyOnlyIfCut
  BY DEF Inv
<1>2. /\ blocked = "query" /\ blocked' = "no"
      /\ loops' = Append(loops, l) /\ reply' = [reply EXCEPT ![n] = "asked"]
      /\ UNCHANGED <<alive, last, connect, wait, result, cut>>
  BY <1>0 DEF query
<1>3. /\ last \in Nat /\ n \in Ids /\ n \in Nat /\ Made = n - 1 /\ Made' = n /\ Made' = last
  BY <1>0, <1>1, <1>2, QueryAssumption DEF TypeOK, Made, Ids
<1>4. \A d \in Depths : Id(d) \in Ids /\ Id(d) \in Nat /\ Id(d) <= Made /\ Id(d) < n
  <2>1. \A d \in Depths : Id(d) \in Ids /\ Id(d) <= Made
    BY <1>1, StackType DEF Stack
  <2>2. \A d \in Depths : Id(d) \in Nat
    BY <1>1, <2>1, Numbers
  <2> QED BY <1>3, <2>1, <2>2
<1>5. Len(loops) \in Nat /\ k \in Ids /\ k <= last
  <2>1. Len(loops) \in Nat /\ Len(loops) <= Made
    BY <1>1, StackType DEF Stack
  <2> QED BY <1>0, <1>3, <2>1, QueryAssumption DEF Ids
<1>6. l \in Loop /\ t \in Timer
  BY <1>3, <1>5, QueryAssumption DEF Loop, Timer
<1>7. /\ loops' \in Seq(Loop) /\ Len(loops') = k /\ loops'[k] = l
      /\ \A d \in Depths : loops'[d] = loops[d]
  BY <1>0, <1>1, <1>2, <1>6, AppendProperties DEF TypeOK, Depths
<1>8. timers' = timers \cup {t}
  BY <1>0, <1>7 DEF query
<1>9. /\ Depths' = Depths \cup {k} /\ k \notin Depths /\ \A d \in Depths : d < k
      /\ \A d \in Depths : Id(d)' = Id(d)
      /\ Id(k)' = n /\ loops'[k].quit = FALSE
  BY <1>0, <1>5, <1>7 DEF Depths, Id
<1>10. /\ wait[n] = 0 /\ result[n] = "none" /\ Spent(n) = connect[n]
       /\ connect[n] \in Nat /\ connect[n] <= Connect
  <2>1. wait[n] = 0 /\ result[n] = "none"
    BY <1>1, <1>3 DEF Armed
  <2>2. connect[n] \in Nat /\ connect[n] <= Connect
    BY <1>1, <1>3, Numbers
  <2> QED BY <2>1, <2>2 DEF Spent
<1>11. TypeOK'
  <2>1. reply' \in [Ids -> {"none", "asked", "valid", "invalid"}]
    BY <1>1, <1>2 DEF TypeOK
  <2>2. Len(loops') <= last'
    BY <1>2, <1>5, <1>7
  <2> QED BY <1>1, <1>2, <1>6, <1>7, <1>8, <2>1, <2>2 DEF TypeOK
<1> HIDE DEF l, t
<1>12. Stack'
  <2>1. \A d \in Depths' : Id(d)' <= Made'
    BY <1>3, <1>4, <1>9
  <2>2. ASSUME NEW d \in Depths', NEW e \in Depths', d < e
        PROVE  Id(d)' < Id(e)'
    <3>1. d \in Depths
      BY <1>9, <1>5, <2>2 DEF Depths, Ids
    <3>2. CASE e \in Depths
      BY <1>1, <1>9, <2>2, <3>1, <3>2 DEF Stack
    <3>3. CASE e = k
      BY <1>4, <1>9, <3>1, <3>3
    <3> QED BY <1>9, <3>2, <3>3
  <2>3. Len(loops') <= Made'
    BY <1>3, <1>5, <1>7
  <2> QED BY <2>1, <2>2, <2>3 DEF Stack
<1>13. Armed'
  <2>1. /\ \A i \in Ids : last' < i => connect'[i] = 0
        /\ \A i \in Ids : Made' < i => wait'[i] = 0 /\ result'[i] = "none"
    BY <1>1, <1>2, <1>3 DEF Armed, Ids
  <2>2. \A x \in timers : x.id \in Nat /\ x.id <= Made /\ x.id < n
    <3>1. \A x \in timers : x.id \in Ids /\ x.id <= Made
      BY <1>1 DEF Armed, TypeOK, Timer
    <3>2. \A x \in timers : x.id \in Nat
      BY <1>1, <3>1, Numbers
    <3> QED BY <1>3, <3>1, <3>2
  <2>3. t.id = n /\ t.left = Timeout
    BY DEF t
  <2>4. \A x \in timers' : x.id <= Made'
    BY <1>3, <1>8, <2>2, <2>3
  <2>5. ASSUME NEW x \in timers', NEW d \in Depths', x.id = Id(d)'
        PROVE  /\ x.left + wait'[x.id] >= Timeout
               /\ x.left > 0 => x.left + wait'[x.id] = Timeout
    <3>1. CASE x = t
      BY <1>2, <1>10, <2>3, <3>1, QueryAssumption
    <3>2. CASE x \in timers
      <4>1. d \in Depths
        BY <1>3, <1>9, <2>2, <2>5, <3>2
      <4> QED BY <1>1, <1>2, <1>9, <2>5, <3>2, <4>1 DEF Armed
    <3> QED BY <1>8, <3>1, <3>2
  <2>6. \A d \in Depths' : loops'[d].quit \/ \E x \in timers' : x.id = Id(d)'
    <3>1. t \in timers'
      BY <1>8
    <3>2. \A d \in Depths : loops[d].quit \/ \E x \in timers : x.id = Id(d)
      BY <1>1 DEF Armed
    <3> QED BY <1>7, <1>8, <1>9, <2>3, <3>1, <3>2
  <2>7. ASSUME NEW d \in Depths', loops'[d].quit
        PROVE  \/ reply'[Id(d)'] \in {"valid", "invalid"}
               \/ Id(d)' \in cut' \/ wait'[Id(d)'] >= Timeout
    <3>1. d \in Depths
      BY <1>9, <2>7
    <3>2. Id(d)' = Id(d) /\ reply'[Id(d)] = reply[Id(d)]
      BY <1>1, <1>2, <1>4, <1>9, <3>1 DEF TypeOK
    <3> QED BY <1>1, <1>2, <1>7, <2>7, <3>1, <3>2 DEF Armed
  <2> QED BY <2>1, <2>4, <2>5, <2>6, <2>7 DEF Armed
<1>14. \A i : Spent(i)' = Spent(i)
  BY <1>2 DEF Spent
<1>15. Nested'
  <2> SUFFICES ASSUME NEW d \in Depths', NEW e \in Depths', d < e
               PROVE  Spent(Id(d)') <= Spent(Id(e)') + Turn * (Id(e)' - Id(d)')
    BY <1>14 DEF Nested
  <2>1. d \in Depths
    BY <1>9, <1>5 DEF Depths, Ids
  <2>2. CASE e \in Depths
    BY <1>1, <1>9, <2>1, <2>2 DEF Nested
  <2>3. CASE e = k
    <3>1. Spent(Id(d)) <= connect[n] + Turn * (n - Id(d))
      BY <1>0, <1>1, <1>2, <2>1 DEF Held
    <3> QED BY <1>9, <1>10, <2>1, <2>3, <3>1
  <2> QED BY <1>9, <2>2, <2>3
<1>16. Held'
  BY <1>2 DEF Held
<1>17. Bounded'
  <2>1. connect[n] <= Turn * (1 + last - n)
    <3>1. 1 + last - n = 1 /\ Turn * 1 = Turn
      BY <1>0, <1>3, Multiples
    <3>2. connect[n] <= Turn
      BY <1>10, QueryAssumption DEF Turn
    <3> QED BY <3>1, <3>2
  <2> QED BY <1>1, <1>2, <1>9, <1>10, <1>14, <2>1 DEF Bounded
<1>18. EarlyOnlyIfCut'
  <2>1. ASSUME NEW i \in 1..last, result[i] = "nothing"
        PROVE  wait[i] >= Timeout \/ reply'[i] = "invalid" \/ i \in cut
    <3>1. i # n /\ i \in Ids
      BY <1>1, <1>10, <2>1, Numbers, QueryAssumption DEF Ids
    <3>2. reply'[i] = reply[i]
      BY <1>1, <1>2, <3>1 DEF TypeOK
    <3> QED BY <1>1, <2>1, <3>2 DEF EarlyOnlyIfCut
  <2> QED BY <1>2, <2>1 DEF EarlyOnlyIfCut
<1> QED BY <1>11, <1>12, <1>13, <1>15, <1>16, <1>17, <1>18 DEF Inv

LEMMA ReturnInv ==
    ASSUME Inv, Return
    PROVE  Inv'
<1>0. PICK k, i : k = Len(loops) /\ i = Id(k)
  OBVIOUS
<1>1. TypeOK /\ Stack /\ Armed /\ Nested /\ Held /\ Bounded /\ EarlyOnlyIfCut
  BY DEF Inv
<1>2. loops \in Seq(Loop) /\ loops # <<>>
  BY <1>1 DEF Return, TypeOK
<1>3. k \in Nat \ {0} /\ k \in Depths
  BY <1>0, <1>2, EmptySeq DEF Depths
<1>4. /\ loops[k].quit /\ loops' = SubSeq(loops, 1, k - 1)
      /\ result' = [result EXCEPT ![i] = IF reply[i] = "valid" THEN "answer" ELSE "nothing"]
      /\ UNCHANGED <<alive, last, blocked, reply, timers, connect, wait, cut>>
  BY <1>0 DEF Return, Id
<1>5. /\ loops' \in Seq(Loop) /\ Len(loops') = k - 1
      /\ \A d \in 1..(k - 1) : loops'[d] = loops[d]
  <2>1. \A d \in 1..(k - 1) : loops[d] \in Loop
    BY <1>0, <1>1, <1>3, StackType DEF Depths
  <2>2. 1 \in Int /\ k - 1 \in Int
    BY <1>3
  <2>3. /\ SubSeq(loops, 1, k - 1) \in Seq(Loop)
        /\ Len(SubSeq(loops, 1, k - 1)) = IF 1 <= k - 1 THEN (k - 1) - 1 + 1 ELSE 0
        /\ \A d \in 1..((k - 1) - 1 + 1) : SubSeq(loops, 1, k - 1)[d] = loops[1 + d - 1]
    BY <2>1, <2>2, SubSeqProperties
  <2> QED BY <1>3, <1>4, <2>3
<1>6. i \in Ids /\ i <= Made /\ Made' = Made
  BY <1>0, <1>1, <1>3, <1>4, StackType DEF Stack, Made
<1>7. Len(loops') <= Len(loops) /\ Len(loops') <= last' /\ Len(loops') <= Made'
  BY <1>0, <1>1, <1>3, <1>4, <1>5, <1>6, Numbers DEF TypeOK, Stack
<1>8. TypeOK'
  BY <1>1, <1>4, <1>5, <1>7 DEF TypeOK
<1>9. /\ Depths' \subseteq Depths /\ \A d \in Depths' : Id(d)' = Id(d) /\ loops'[d] = loops[d]
      /\ \A j : Spent(j)' = Spent(j)
  BY <1>0, <1>3, <1>4, <1>5 DEF Depths, Id, Spent
<1>10. Stack'
  BY <1>1, <1>6, <1>7, <1>9 DEF Stack
<1>11. Armed'
  <2>1. \A j \in Ids : Made' < j => wait'[j] = 0 /\ result'[j] = "none"
    <3>1. \A j \in Ids : Made < j => j # i
      BY <1>1, <1>6, Numbers
    <3> QED BY <1>1, <1>4, <1>6, <3>1 DEF Armed, TypeOK
  <2>2. /\ \A j \in Ids : last' < j => connect'[j] = 0
        /\ \A t \in timers' : t.id <= Made'
    BY <1>1, <1>4, <1>6 DEF Armed
  <2>3. \A t \in timers' : \A d \in Depths' : t.id = Id(d)' =>
           /\ t.left + wait'[t.id] >= Timeout
           /\ t.left > 0 => t.left + wait'[t.id] = Timeout
    BY <1>1, <1>4, <1>9 DEF Armed
  <2>4. ASSUME NEW d \in Depths'
        PROVE  loops'[d].quit \/ \E t \in timers' : t.id = Id(d)'
    <3>1. d \in Depths /\ Id(d)' = Id(d) /\ loops'[d] = loops[d]
      BY <1>9
    <3>2. loops[d].quit \/ \E t \in timers : t.id = Id(d)
      BY <1>1, <3>1 DEF Armed
    <3> QED BY <1>4, <3>1, <3>2
  <2>5. \A d \in Depths' : loops'[d].quit =>
           \/ reply'[Id(d)'] \in {"valid", "invalid"}
           \/ Id(d)' \in cut' \/ wait'[Id(d)'] >= Timeout
    BY <1>1, <1>4, <1>9 DEF Armed
  <2> QED BY <2>1, <2>2, <2>3, <2>4, <2>5 DEF Armed
<1>12. Nested' /\ Held' /\ Bounded'
  BY <1>1, <1>4, <1>9 DEF Nested, Held, Bounded
<1>13. EarlyOnlyIfCut'
  <2> SUFFICES ASSUME NEW j \in 1..last, result'[j] = "nothing"
               PROVE  wait[j] >= Timeout \/ reply[j] = "invalid" \/ j \in cut
    BY <1>4 DEF EarlyOnlyIfCut
  <2>1. CASE j # i
    <3>1. result'[j] = result[j]
      BY <1>4, <2>1
    <3> QED BY <1>1, <3>1 DEF EarlyOnlyIfCut
  <2>2. CASE j = i
    <3>1. reply[i] # "valid"
      BY <1>1, <1>4, <1>6, <2>2 DEF TypeOK
    <3>2. reply[i] \in {"valid", "invalid"} \/ i \in cut \/ wait[i] >= Timeout
      BY <1>0, <1>1, <1>3, <1>4 DEF Armed
    <3> QED BY <2>2, <3>1, <3>2
  <2> QED BY <2>1, <2>2
<1> QED BY <1>8, <1>10, <1>11, <1>12, <1>13 DEF Inv

\* Time passes for every loop on the stack, and for nothing else.
LEMMA WaitedIs ==
    ASSUME Inv, wait' = Waited
    PROVE  /\ \A i \in Ids : wait[i] \in Nat /\ wait'[i] \in Nat /\ wait'[i] >= wait[i]
           /\ \A d \in Depths : Id(d) \in Ids /\ wait'[Id(d)] = wait[Id(d)] + 1
           /\ \A i \in Ids : Made < i => wait'[i] = 0
           /\ wait' \in [Ids -> Nat]
<1>1. TypeOK /\ Stack /\ Armed
  BY DEF Inv
<1>2. \A i \in Ids : /\ wait[i] \in Nat
                     /\ wait'[i] = IF i \in Waiting THEN wait[i] + 1 ELSE wait[i]
  BY <1>1 DEF TypeOK, Waited
<1>3. \A d \in Depths : Id(d) \in Ids /\ Id(d) \in Waiting /\ Id(d) <= Made
  BY <1>1, StackType, WaitingIds DEF Stack
<1>4. \A i \in Ids : Made < i => i \notin Waiting
  BY <1>1, <1>3, WaitingIds, Numbers
<1>5. wait' \in [Ids -> Nat]
  BY <1>1 DEF TypeOK, Waited
<1> QED BY <1>1, <1>2, <1>3, <1>4, <1>5 DEF Armed

\* A timer that goes on or is late keeps its query and its part of the timeout.
LEMMA TimerAges ==
    ASSUME NEW t \in Timer, NEW g,
           g = [t EXCEPT !.left = IF @ = 0 THEN 0 ELSE @ - 1]
    PROVE  /\ g \in Timer /\ g.id = t.id /\ t.id \in Ids
           /\ t.left \in Nat /\ g.left = IF t.left = 0 THEN 0 ELSE t.left - 1
<1>1. t.left \in 0..Timeout
  BY DEF Timer
<1>2. (IF t.left = 0 THEN 0 ELSE t.left - 1) \in 0..Timeout
  BY <1>1, QueryAssumption
<1> QED BY <1>1, <1>2, QueryAssumption DEF Timer

\* What both ways in which time passes have in common.
LEMMA TimePasses ==
    ASSUME Inv, wait' = Waited,
           timers' = {[t EXCEPT !.left = IF @ = 0 THEN 0 ELSE @ - 1] : t \in timers},
           UNCHANGED <<alive, last, blocked, loops, reply, result, cut>>,
           connect' \in [Ids -> 0..Connect],
           \A i \in Ids : Made < i \/ connect'[i] = connect[i],
           \A i \in Ids : last < i => connect'[i] = connect[i]
    PROVE  /\ TypeOK' /\ Stack' /\ Armed' /\ Nested' /\ EarlyOnlyIfCut'
           /\ Depths' = Depths
           /\ \A d \in Depths : /\ Id(d)' = Id(d) /\ Spent(Id(d))' = Spent(Id(d)) + 1
                                /\ Id(d) \in Nat /\ Id(d) <= last /\ Spent(Id(d)) \in Nat
<1>1. TypeOK /\ Stack /\ Armed /\ Nested /\ EarlyOnlyIfCut
  BY DEF Inv
<1> DEFINE Aged(t) == [t EXCEPT !.left = IF @ = 0 THEN 0 ELSE @ - 1]
<1>2. \A t \in timers : /\ Aged(t) \in Timer /\ Aged(t).id = t.id /\ t.id \in Ids
                        /\ t.left \in Nat /\ Aged(t).left = IF t.left = 0 THEN 0 ELSE t.left - 1
  BY <1>1, TimerAges DEF TypeOK
<1>3. timers' = {Aged(t) : t \in timers}
  OBVIOUS
<1> HIDE DEF Aged
<1>4. TypeOK'
  BY <1>1, <1>2, <1>3, WaitedIs DEF TypeOK
<1>5. Depths' = Depths /\ \A d \in Depths : Id(d)' = Id(d)
  BY DEF Depths, Id
<1>6. Made' = Made
  BY DEF Made
<1>7. \A d \in Depths : /\ Id(d) \in Ids /\ Id(d) \in Nat /\ Id(d) <= Made /\ Id(d) <= last
                        /\ connect'[Id(d)] = connect[Id(d)]
                        /\ wait'[Id(d)] = wait[Id(d)] + 1
                        /\ wait[Id(d)] \in Nat /\ connect[Id(d)] \in Nat
  <2>1. \A d \in Depths : Id(d) \in Ids /\ Id(d) <= Made
    BY <1>1, StackType DEF Stack
  <2> QED BY <1>1, <2>1, Numbers, WaitedIs
<1>8. \A d \in Depths : Spent(Id(d))' = Spent(Id(d)) + 1 /\ Spent(Id(d)) \in Nat
  BY <1>5, <1>7 DEF Spent
<1>9. Stack'
  BY <1>1, <1>5, <1>6 DEF Stack
<1>10. Armed'
  <2>1. /\ \A i \in Ids : last' < i => connect'[i] = 0
        /\ \A i \in Ids : Made' < i => wait'[i] = 0 /\ result'[i] = "none"
    BY <1>1, <1>6, WaitedIs DEF Armed
  <2>2. \A t \in timers' : t.id <= Made'
    BY <1>1, <1>2, <1>3, <1>6 DEF Armed
  <2>3. ASSUME NEW x \in timers', NEW d \in Depths, x.id = Id(d)
        PROVE  /\ x.left + wait'[x.id] >= Timeout
               /\ x.left > 0 => x.left + wait'[x.id] = Timeout
    <3>1. PICK t \in timers : x = Aged(t)
      BY <1>3
    <3>2. x.id = t.id /\ t.left \in Nat /\ x.left = IF t.left = 0 THEN 0 ELSE t.left - 1
      BY <1>2, <3>1
    <3>3. /\ t.left + wait[t.id] >= Timeout
          /\ t.left > 0 => t.left + wait[t.id] = Timeout
      BY <1>1, <2>3, <3>2 DEF Armed
    <3>4. wait[t.id] \in Nat /\ wait'[t.id] = wait[t.id] + 1
      BY <1>7, <2>3, <3>2
    <3>5. CASE t.left = 0
      BY <3>2, <3>3, <3>4, <3>5, QueryAssumption
    <3>6. CASE t.left # 0
      BY <3>2, <3>3, <3>4, <3>6, QueryAssumption
    <3> QED BY <3>5, <3>6
  <2>4. ASSUME NEW d \in Depths
        PROVE  loops[d].quit \/ \E t \in timers' : t.id = Id(d)
    BY <1>1, <1>2, <1>3 DEF Armed
  <2>5. ASSUME NEW d \in Depths, loops[d].quit
        PROVE  reply[Id(d)] \in {"valid", "invalid"} \/ Id(d) \in cut \/ wait'[Id(d)] >= Timeout
    <3>1. reply[Id(d)] \in {"valid", "invalid"} \/ Id(d) \in cut \/ wait[Id(d)] >= Timeout
      BY <1>1, <2>5 DEF Armed
    <3> QED BY <1>7, <3>1, QueryAssumption
  <2> QED BY <1>5, <2>1, <2>2, <2>3, <2>4, <2>5 DEF Armed
<1>11. Nested'
  <2> SUFFICES ASSUME NEW d \in Depths, NEW e \in Depths, d < e
               PROVE  Spent(Id(d))' <= Spent(Id(e))' + Turn * (Id(e) - Id(d))
    BY <1>5 DEF Nested
  <2>1. Spent(Id(d)) <= Spent(Id(e)) + Turn * (Id(e) - Id(d))
    BY <1>1 DEF Nested
  <2>2. Id(e) - Id(d) \in Nat
    BY <1>1, <1>7 DEF Stack
  <2>3. Turn * (Id(e) - Id(d)) \in Nat
    BY <2>2, Multiples
  <2> QED BY <1>8, <2>1, <2>3
<1>12. EarlyOnlyIfCut'
  <2> SUFFICES ASSUME NEW i \in 1..last, result[i] = "nothing"
               PROVE  wait'[i] >= Timeout \/ reply[i] = "invalid" \/ i \in cut
    BY DEF EarlyOnlyIfCut
  <2>1. i \in Ids
    BY <1>1, Numbers, QueryAssumption DEF Ids
  <2>2. wait[i] >= Timeout \/ reply[i] = "invalid" \/ i \in cut
    BY <1>1 DEF EarlyOnlyIfCut
  <2> QED BY <2>1, <2>2, WaitedIs, QueryAssumption
<1> QED BY <1>4, <1>5, <1>7, <1>8, <1>9, <1>10, <1>11, <1>12

\* In an event loop, the innermost query bounds all others.
LEMMA TickInv ==
    ASSUME Inv, Tick
    PROVE  Inv'
<1>1. TypeOK /\ Stack /\ Armed /\ Nested /\ Held /\ Bounded /\ EarlyOnlyIfCut
  BY DEF Inv
<1>2. /\ blocked = "no" /\ wait' = Waited
      /\ UNCHANGED <<alive, last, blocked, loops, reply, connect, result, cut>>
  BY DEF Tick, Handling
<1>3. timers' = {[t EXCEPT !.left = IF @ = 0 THEN 0 ELSE @ - 1] : t \in timers}
  <2>1. \A t \in timers : t.left > 0 /\ t.left # 0
    BY <1>1, QueryAssumption DEF Tick, TypeOK, Timer
  <2>2. \A t \in timers : [t EXCEPT !.left = @ - 1]
                             = [t EXCEPT !.left = IF @ = 0 THEN 0 ELSE @ - 1]
    BY <2>1
  <2> QED BY <2>2 DEF Tick
<1>4. connect' \in [Ids -> 0..Connect]
  BY <1>1, <1>2 DEF TypeOK
<1>5. /\ TypeOK' /\ Stack' /\ Armed' /\ Nested' /\ EarlyOnlyIfCut'
      /\ Depths' = Depths
      /\ \A d \in Depths : /\ Id(d)' = Id(d) /\ Spent(Id(d))' = Spent(Id(d)) + 1
                           /\ Id(d) \in Nat /\ Id(d) <= last /\ Spent(Id(d)) \in Nat
  BY <1>2, <1>3, <1>4, TimePasses
<1>6. Held'
  BY <1>2 DEF Held
<1>7. last \in Nat
  BY <1>1, Numbers
<1>8. Bounded'
  <2> SUFFICES ASSUME NEW d \in Depths
               PROVE  Spent(Id(d))' <= Turn * (1 + last - Id(d))
    BY <1>2, <1>5 DEF Bounded
  <2>1. PICK k : k = Len(loops)
    OBVIOUS
  <2>2. k \in Depths /\ k \in Nat /\ loops # <<>> /\ d <= k /\ d \in Nat
    BY <1>1, <2>1, StackType, EmptySeq DEF Depths
  <2>3. ~loops[k].quit
    BY <2>1, <2>2 DEF Tick
  <2>4. PICK t \in timers : t.id = Id(k)
    BY <1>1, <2>2, <2>3 DEF Armed
  <2>5. t.left > 0 /\ t.left \in Nat
    BY <1>1, QueryAssumption DEF Tick, TypeOK, Timer
  <2>6. t.left + wait[Id(k)] = Timeout
    BY <1>1, <2>2, <2>4, <2>5 DEF Armed
  <2>7. Spent(Id(k))' <= Turn
    <3>1. Id(k) \in Ids
      BY <1>1, <2>2, StackType
    <3>2. wait[Id(k)] \in Nat /\ connect[Id(k)] \in Nat /\ connect[Id(k)] <= Connect
      BY <1>1, <3>1, Numbers
    <3>3. Spent(Id(k)) = connect[Id(k)] + wait[Id(k)]
      BY DEF Spent
    <3>4. Spent(Id(k))' = Spent(Id(k)) + 1
      BY <1>5, <2>2
    <3>5. wait[Id(k)] + 1 <= Timeout
      BY <2>5, <2>6, <3>2, QueryAssumption
    <3>6. connect[Id(k)] + wait[Id(k)] + 1 <= Connect + Timeout
      BY <3>2, <3>5, QueryAssumption
    <3> QED BY <3>3, <3>4, <3>6 DEF Turn
  <2>8. last - Id(k) \in Nat /\ last - Id(d) \in Nat /\ 1 + last - Id(d) \in Nat \ {0}
    BY <1>5, <1>7, <2>2
  <2>9. CASE d = k
    <3>1. Turn <= Turn * (1 + last - Id(k)) /\ Turn * (1 + last - Id(k)) \in Nat
      BY <2>8, <2>9, Multiples
    <3>2. Spent(Id(k))' \in Nat
      BY <1>5, <2>2
    <3> QED BY <2>7, <2>9, <3>1, <3>2, Multiples
  <2>10. CASE d < k
    <3>1. Id(k) - Id(d) \in Nat /\ 1 + (Id(k) - Id(d)) <= 1 + last - Id(d)
      BY <1>1, <1>5, <1>7, <2>2, <2>10 DEF Stack
    <3>2. Spent(Id(d))' <= Spent(Id(k))' + Turn * (Id(k) - Id(d))
      BY <1>5, <2>2, <2>10 DEF Nested
    <3>3. Turn * (1 + (Id(k) - Id(d))) = Turn * 1 + Turn * (Id(k) - Id(d))
      BY <3>1, Multiples
    <3>4. Turn * (1 + (Id(k) - Id(d))) <= Turn * (1 + last - Id(d))
      BY <2>8, <3>1, Multiples
    <3>5. /\ Turn * (1 + last - Id(d)) \in Nat /\ Turn * (1 + (Id(k) - Id(d))) \in Nat
          /\ Turn * (Id(k) - Id(d)) \in Nat /\ Turn * 1 = Turn
      BY <2>8, <3>1, Multiples
    <3>6. Spent(Id(d))' \in Nat /\ Spent(Id(k))' \in Nat
      BY <1>5, <2>2
    <3> QED BY <2>7, <3>2, <3>3, <3>4, <3>5, <3>6, Multiples
  <2> QED BY <2>2, <2>9, <2>10
<1> QED BY <1>5, <1>6, <1>8 DEF Inv

\* While a call connects, that call bounds all others.
LEMMA TickConnectingInv ==
    ASSUME Inv, TickConnecting
    PROVE  Inv'
<1>0. PICK n : n = last
  OBVIOUS
<1>1. TypeOK /\ Stack /\ Armed /\ Nested /\ Held /\ Bounded /\ EarlyOnlyIfCut
  BY DEF Inv
<1>2. /\ blocked # "no" /\ wait' = Waited /\ connect[n] < Connect
      /\ connect' = [connect EXCEPT ![n] = @ + 1]
      /\ timers' = {[t EXCEPT !.left = IF @ = 0 THEN 0 ELSE @ - 1] : t \in timers}
      /\ UNCHANGED <<alive, last, blocked, loops, reply, result, cut>>
  BY <1>0 DEF TickConnecting
<1>3. last \in Nat /\ n \in Ids /\ Made < n
  BY <1>0, <1>1, <1>2, QueryAssumption DEF TypeOK, Made, Ids
<1>4. /\ connect[n] \in Nat /\ connect'[n] = connect[n] + 1 /\ connect'[n] <= Connect
      /\ \A i \in Ids : i # n => connect'[i] = connect[i]
      /\ connect' \in [Ids -> 0..Connect]
  <2>1. connect \in [Ids -> 0..Connect] /\ connect[n] \in Nat /\ connect[n] + 1 \in 0..Connect
    BY <1>1, <1>2, <1>3, QueryAssumption DEF TypeOK
  <2> QED BY <1>2, <1>3, <2>1, QueryAssumption
<1>5. \A i \in Ids : (Made < i \/ connect'[i] = connect[i]) /\ (last < i => connect'[i] = connect[i])
  BY <1>0, <1>3, <1>4
<1>6. /\ TypeOK' /\ Stack' /\ Armed' /\ Nested' /\ EarlyOnlyIfCut'
      /\ Depths' = Depths
      /\ \A d \in Depths : /\ Id(d)' = Id(d) /\ Spent(Id(d))' = Spent(Id(d)) + 1
                           /\ Id(d) \in Nat /\ Id(d) <= last /\ Spent(Id(d)) \in Nat
  BY <1>2, <1>4, <1>5, TimePasses
<1>7. \A d \in Depths : last - Id(d) \in Nat /\ Turn * (last - Id(d)) \in Nat
  BY <1>3, <1>6, Multiples
<1>8. \A d \in Depths : Spent(Id(d))' <= connect'[n] + Turn * (last - Id(d))
  <2> SUFFICES ASSUME NEW d \in Depths
               PROVE  Spent(Id(d))' <= connect'[n] + Turn * (last - Id(d))
    OBVIOUS
  <2>1. Spent(Id(d)) <= connect[n] + Turn * (last - Id(d))
    BY <1>0, <1>1, <1>2 DEF Held
  <2> QED BY <1>4, <1>6, <1>7, <2>1
<1>9. Held'
  BY <1>0, <1>2, <1>6, <1>8 DEF Held
<1>10. Bounded'
  <2> SUFFICES ASSUME NEW d \in Depths
               PROVE  Spent(Id(d))' <= Turn * (1 + last - Id(d))
    BY <1>2, <1>6 DEF Bounded
  <2>1. 1 + last - Id(d) = 1 + (last - Id(d)) /\ last - Id(d) \in Nat
    BY <1>3, <1>6
  <2>2. Turn * (1 + last - Id(d)) = Turn * 1 + Turn * (last - Id(d)) /\ Turn * 1 = Turn
    BY <2>1, Multiples
  <2>3. connect'[n] <= Turn
    BY <1>4, QueryAssumption DEF Turn
  <2>4. Spent(Id(d))' \in Nat /\ connect'[n] \in Nat
    BY <1>4, <1>6
  <2> QED BY <1>7, <1>8, <2>2, <2>3, <2>4, Multiples
<1> QED BY <1>6, <1>9, <1>10 DEF Inv

LEMMA NextInv == Inv /\ [Next]_vars => Inv'
<1> SUFFICES ASSUME Inv, [Next]_vars PROVE Inv'
  OBVIOUS
<1>1. ASSUME UNCHANGED <<last, blocked, loops, reply, timers, connect, wait, result, cut>>,
             alive' \in BOOLEAN
      PROVE  Inv'
  BY <1>1 DEF Inv, TypeOK, Stack, Armed, Nested, Held, Bounded, EarlyOnlyIfCut, Depths, Id,
              Made, Spent
<1>2. CASE \E kind \in {"query", "handler"} : Call(kind)
  BY <1>2, CallInv
<1>3. CASE query
  BY <1>3, queryInv
<1>4. CASE queryFails
  BY <1>1, <1>4 DEF queryFails
<1>5. CASE ServerExecute
  BY <1>5, ServerExecuteInv
<1>6. CASE Return
  BY <1>6, ReturnInv
<1>7. CASE Tick
  BY <1>7, TickInv
<1>8. CASE TickConnecting
  BY <1>8, TickConnectingInv
<1>9. CASE \E i \in Ids : Finished(i)
  BY <1>9, FinishedInv
<1>10. CASE \E t \in timers : TimerFires(t) \/ StaleTimerFires(t)
  BY <1>10, TimerFiresInv, StaleTimerInv
<1>11. CASE UNCHANGED vars
  BY <1>1, <1>11 DEF vars, Inv, TypeOK
<1> QED BY <1>2, <1>3, <1>4, <1>5, <1>6, <1>7, <1>8, <1>9, <1>10, <1>11 DEF Next

LEMMA Invariance == Spec => []Inv
<1> QED BY InitInv, NextInv, PTL DEF Spec

-----------------------------------------------------------------------------
\* The loops, timers and results keep their types.
THEOREM TypeCorrect == Spec => []TypeOK
<1>1. Inv => TypeOK
  BY DEF Inv
<1> QED BY <1>1, Invariance, PTL

\* However queries nest and whatever their answers, timers and connections do, the i-th
\* call waits no longer than one connection and one timeout for itself, and as long for
\* each call that came after it.
THEOREM WaitIsBounded == Spec => []WaitBounded
<1>1. Inv => WaitBounded
  BY WaitingIds DEF Inv, Bounded, WaitBounded, Spent, Turn
<1> QED BY <1>1, Invariance, PTL

\* A query that returns nothing has waited its whole timeout, unless its reply was an
\* error or the timer of a query that had returned before cut it short.
THEOREM NothingIsTimeout == Spec => []EarlyOnlyIfCut
<1>1. Inv => EarlyOnlyIfCut
  BY DEF Inv
<1> QED BY <1>1, Invariance, PTL
=============================================================================
