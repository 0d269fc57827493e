--------------------------- MODULE DbCache_proofs ---------------------------
(* Theorems about the query cache and the page cache of the server, see DbCache. *)
EXTENDS DbCache, TLAPS

\* An item without an error that was executed holds the result of its last execution.
Sound(i) == i \in Item /\ i.read <= i.age /\ (i.query /\ ~i.err => i.good)

ItemsSound == DOMAIN items \subseteq Keys /\ \A k \in DOMAIN items : Sound(items[k])

\* A page is erased at the latest when the clean timer has fired twice in its life.
PagesYoung == \A q \in DOMAIN pages : pages[q].age + cleanIn <= 2 * PageLife

Inv == TypeOK /\ ItemsSound /\ PagesYoung /\ CashedIsGood /\ PageFresh

-----------------------------------------------------------------------------
LEMMA Times ==
    /\ QueryTime \in Nat /\ FailedCash \in Nat /\ PageAge \in Nat /\ PageLife \in Nat
    /\ Day \in Nat /\ MaxAsks \in Nat /\ CashTimes \subseteq Nat
    /\ PageAge <= PageLife /\ 0 < PageLife /\ 2 * PageLife < Day
BY TimesAssumption

\* A page young enough is one the wrapping clock does not flatter.
LEMMA NoWrap == \A a \in Nat : a <= 2 * PageLife => a % Day = a
BY Times, SMT

LEMMA AppendSound ==
    ASSUME ItemsSound, NEW k, NEW cash \in Nat
    PROVE  Sound(appendQuery(k, cash))
<1>1. CASE k \in DOMAIN items
  BY <1>1 DEF ItemsSound, appendQuery
<1>2. CASE k \notin DOMAIN items
  BY <1>2 DEF appendQuery, Sound, Item
<1> QED BY <1>1, <1>2

LEMMA ExecutedSound ==
    ASSUME NEW i, Sound(i), NEW o \in Outcomes, NEW packed \in BOOLEAN
    PROVE  Sound(Executed(i, o, packed))
<1>1. i \in Item /\ i.age \in Nat
  BY DEF Sound, Item
<1>2. CASE o = "ok"
  <2>1. PICK e \in BOOLEAN : e <=> i.err \/ ~packed
    OBVIOUS
  <2>2. Executed(i, o, packed)
          = [i EXCEPT !.query = TRUE, !.read = 0, !.good = packed, !.err = e]
    BY <1>2, <2>1 DEF Executed
  <2> DEFINE j == [i EXCEPT !.query = TRUE, !.read = 0, !.good = packed, !.err = e]
  <2>3. j \in Item /\ j.read = 0 /\ j.age = i.age /\ j.good = packed /\ j.err = e
    BY <1>1, <2>1 DEF Item
  <2>4. j.read <= j.age /\ (j.query /\ ~j.err => j.good)
    BY <1>1, <2>1, <2>3
  <2> QED BY <2>2, <2>3, <2>4 DEF Sound
<1>3. CASE o = "failed"
  BY <1>1, <1>3 DEF Executed, Sound, Item
<1>4. CASE o = "unprepared"
  BY <1>1, <1>4, Times DEF Executed, Sound, Item
<1>5. CASE o = "closed"
  BY <1>1, <1>5 DEF Executed, Sound, Item
<1> QED BY <1>2, <1>3, <1>4, <1>5 DEF Outcomes

LEMMA RunKeeps ==
    ASSUME TypeOK, ItemsSound, NEW k \in Keys, NEW cash \in Nat, NEW o \in Outcomes,
           Run(k, cash, o)
    PROVE  ItemsSound' /\ timers' \subseteq Timer /\ open' \in BOOLEAN
<1> DEFINE i == Executed(appendQuery(k, cash), o, k[2] \in Packed)
<1>1. Sound(i)
  <2>1. (k[2] \in Packed) \in BOOLEAN
    OBVIOUS
  <2>2. Sound(appendQuery(k, cash))
    BY AppendSound
  <2> QED BY <2>1, <2>2, ExecutedSound
<1> HIDE DEF i
<1>2. items' = With(items, k, i)
  BY DEF Run, i
<1>3. ItemsSound'
  BY <1>1, <1>2 DEF ItemsSound, With
<1>4. [key |-> k, left |-> QueryTime] \in Timer
  BY Times DEF Timer
<1>5. timers' \subseteq Timer /\ open' \in BOOLEAN
  BY <1>4 DEF Run, queryExecute, TypeOK
<1> QED BY <1>3, <1>5

\* Items leave the map, and their timers lose their keys.
LEMMA RestrictKeeps ==
    ASSUME ItemsSound, timers \subseteq Timer, NEW K,
           items' = Restrict(items, DOMAIN items \ K), timers' = Orphaned(timers, K)
    PROVE  ItemsSound' /\ timers' \subseteq Timer
<1>1. ItemsSound'
  BY DEF ItemsSound, Restrict
<1>2. ASSUME NEW t \in timers
      PROVE  [t EXCEPT !.key = IF @ \in K THEN NoKey ELSE @] \in Timer
  BY DEF Timer
<1> QED BY <1>1, <1>2 DEF Orphaned

\* Sound items are items: what is left of the types when only DBWrapper has acted.
LEMMA ItemsKeep ==
    ASSUME Inv, ItemsSound', timers' \subseteq Timer, open' \in BOOLEAN,
           asks' \in 0..MaxAsks, UNCHANGED <<cashed, pageVars>>
    PROVE  Inv'
<1>1. TypeOK'
  BY DEF Inv, TypeOK, ItemsSound, Sound, pageVars
<1>2. PagesYoung' /\ CashedIsGood' /\ PageFresh'
  BY DEF Inv, PagesYoung, CashedIsGood, PageFresh, pageVars
<1> QED BY <1>1, <1>2 DEF Inv

LEMMA AskType == ASSUME TypeOK, Ask PROVE asks' \in 0..MaxAsks
BY Times DEF TypeOK, Ask

LEMMA query2methodInv ==
    ASSUME Inv, NEW q \in Queries, NEW m \in Methods, NEW cash \in CashTimes,
           query2method(q, m, cash)
    PROVE  Inv'
<1> DEFINE k == <<q, m>>
<1>1. TypeOK /\ ItemsSound /\ cash \in Nat /\ k \in Keys /\ asks' \in 0..MaxAsks
  BY Times, AskType DEF Inv, query2method, Keys
<1>2. CASE cash > 0 /\ queryIsCashed(appendQuery(k, cash))
  <2>1. cashed' = items[k] /\ UNCHANGED <<items, timers, open, pageVars>>
    BY <1>2 DEF query2method
  <2>2. k \in DOMAIN items
    BY <1>2 DEF queryIsCashed, appendQuery
  <2>3. queryIsCashed(items[k]) /\ Sound(items[k])
    BY <1>1, <1>2, <2>2 DEF appendQuery, ItemsSound
  <2>4. CashedIsGood' /\ cashed' \in Item
    <3>1. items[k].good /\ items[k].read < items[k].cash /\ items[k] \in Item
      BY <2>3 DEF queryIsCashed, Sound, Item
    <3> QED BY <2>1, <3>1 DEF CashedIsGood
  <2>5. TypeOK' /\ ItemsSound' /\ PagesYoung' /\ PageFresh'
    BY <1>1, <2>1, <2>4 DEF Inv, TypeOK, ItemsSound, PagesYoung, PageFresh, pageVars
  <2> QED BY <2>4, <2>5 DEF Inv
<1>3. CASE ~(cash > 0 /\ queryIsCashed(appendQuery(k, cash)))
  <2>1. PICK o \in Outcomes : Run(k, cash, o)
    BY <1>3 DEF query2method
  <2>2. ItemsSound' /\ timers' \subseteq Timer /\ open' \in BOOLEAN
    BY <1>1, <2>1, RunKeeps
  <2>3. UNCHANGED <<cashed, pageVars>>
    BY <1>3 DEF query2method
  <2> QED BY <1>1, <2>2, <2>3, ItemsKeep
<1> QED BY <1>2, <1>3

LEMMA executeProcInv ==
    ASSUME Inv, NEW q \in Queries, executeProc(q)
    PROVE  Inv'
<1> DEFINE k == <<q, "none">>
<1>1. /\ TypeOK /\ ItemsSound /\ k \in Keys /\ asks' \in 0..MaxAsks
      /\ timers \subseteq Timer /\ UNCHANGED <<cashed, pageVars>>
  BY AskType DEF Inv, executeProc, Keys, Methods, TypeOK
<1>2. CASE /\ open' = TRUE
           /\ items' = Restrict(items, DOMAIN items \ {k})
           /\ timers' = Orphaned(timers, {k})
  BY <1>1, <1>2, RestrictKeeps, ItemsKeep
<1>3. ASSUME NEW o \in Outcomes, Run(k, 0, o)
      PROVE  Inv'
  BY <1>1, <1>3, RunKeeps, ItemsKeep
<1> QED BY <1>2, <1>3 DEF executeProc

LEMMA CleanInv == ASSUME Inv, Clean PROVE Inv'
<1> DEFINE K == {k \in DOMAIN items : Stale(items[k])}
<1>1. /\ items' = Restrict(items, DOMAIN items \ K) /\ timers' = Orphaned(timers, K)
      /\ UNCHANGED <<asks, cashed, pageVars>> /\ open' \in BOOLEAN
  BY DEF Clean, Inv, TypeOK
<1> HIDE DEF K
<1>2. ItemsSound /\ timers \subseteq Timer /\ asks \in 0..MaxAsks
  BY DEF Inv, TypeOK
<1> QED BY <1>1, <1>2, RestrictKeeps, ItemsKeep

LEMMA TimeoutInv == ASSUME Inv, NEW t \in timers, Timeout(t) PROVE Inv'
<1>1. ItemsSound /\ timers \subseteq Timer /\ asks \in 0..MaxAsks
  BY DEF Inv, TypeOK
<1>2. /\ items' = [k \in DOMAIN items |-> [items[k] EXCEPT !.err = @ \/ k = t.key]]
      /\ timers' \subseteq Timer /\ open' \in BOOLEAN /\ asks' \in 0..MaxAsks
      /\ UNCHANGED <<cashed, pageVars>>
  BY <1>1 DEF Timeout
<1>3. ASSUME NEW i, Sound(i), NEW b \in BOOLEAN
      PROVE  Sound([i EXCEPT !.err = @ \/ b])
  BY <1>3 DEF Sound, Item
<1>4. ItemsSound'
  BY <1>1, <1>2, <1>3 DEF ItemsSound
<1> QED BY <1>2, <1>4, ItemsKeep

LEMMA receiveTextInv ==
    ASSUME Inv, NEW q \in Queries, NEW m \in Methods, receiveText(q, m)
    PROVE  Inv'
<1>1. /\ TypeOK /\ ItemsSound /\ PagesYoung /\ CashedIsGood /\ PageFresh
      /\ <<q, m>> \in Keys /\ asks' \in 0..MaxAsks
  BY AskType DEF Inv, receiveText, Keys
<1>2. cashed' = cashed /\ cleanIn' = cleanIn /\ cleanIn \in 0..PageLife
  BY <1>1 DEF receiveText, TypeOK
<1>3. CASE q \in DOMAIN pages /\ elapsed(pages[q]) < PageAge /\ pages[q].full
  <2>1. sent' = pages[q].age /\ UNCHANGED <<items, timers, open, pages>>
    BY <1>3 DEF receiveText
  <2>2. pages[q].age \in Nat /\ pages[q].age + cleanIn <= 2 * PageLife
    BY <1>1, <1>3 DEF TypeOK, Page, PagesYoung
  <2>3. pages[q].age <= 2 * PageLife
    BY <1>2, <2>2, Times
  <2>4. pages[q].age < PageAge
    BY <1>3, <2>2, <2>3, NoWrap DEF elapsed
  <2>5. TypeOK' /\ ItemsSound' /\ PagesYoung' /\ CashedIsGood'
    BY <1>1, <1>2, <2>1, <2>2 DEF TypeOK, ItemsSound, PagesYoung, CashedIsGood
  <2>6. PageFresh'
    BY <2>1, <2>4 DEF PageFresh
  <2> QED BY <2>5, <2>6 DEF Inv
<1>4. ASSUME NEW full \in BOOLEAN,
             pages' = With(pages, q, [full |-> full, age |-> 0]) \/ pages' = pages,
             ItemsSound', timers' \subseteq Timer, open' \in BOOLEAN,
             sent' = 0 \/ sent' = sent
      PROVE  Inv'
  <2>1. /\ DOMAIN pages' \subseteq Queries
        /\ \A p \in DOMAIN pages' : pages'[p] \in Page /\ pages'[p].age + cleanIn <= 2 * PageLife
    <3>1. CASE pages' = pages
      BY <1>1, <3>1 DEF TypeOK, PagesYoung
    <3>2. CASE pages' = With(pages, q, [full |-> full, age |-> 0])
      <4>1. /\ DOMAIN pages' = DOMAIN pages \cup {q}
            /\ pages'[q] = [full |-> full, age |-> 0]
            /\ \A p \in DOMAIN pages' : p # q => pages'[p] = pages[p]
        BY <3>2 DEF With
      <4>2. [full |-> full, age |-> 0] \in Page /\ 0 + cleanIn <= 2 * PageLife
        BY <1>2, Times DEF Page
      <4> QED BY <1>1, <4>1, <4>2 DEF TypeOK, PagesYoung
    <3> QED BY <1>4, <3>1, <3>2
  <2>2. TypeOK'
    BY <1>1, <1>2, <1>4, <2>1 DEF TypeOK, ItemsSound, Sound
  <2>3. PagesYoung' /\ CashedIsGood' /\ PageFresh'
    BY <1>1, <1>2, <1>4, <2>1 DEF PagesYoung, CashedIsGood, PageFresh
  <2> QED BY <1>4, <2>2, <2>3 DEF Inv
<1>5. CASE ~(q \in DOMAIN pages /\ elapsed(pages[q]) < PageAge /\ pages[q].full)
  <2>1. CASE m \in Packed
    <3>1. PICK o \in Outcomes :
            /\ Run(<<q, m>>, 0, o)
            /\ pages' = With(pages, q, [full |-> o = "ok" \/ m = "fulljson", age |-> 0])
      BY <1>5, <2>1 DEF receiveText
    <3>2. sent' = 0
      BY <1>5, <2>1 DEF receiveText
    <3> QED BY <1>1, <1>4, <3>1, <3>2, RunKeeps
  <2>2. CASE m \notin Packed
    <3>1. /\ pages' = pages \/ pages' = With(pages, q, [full |-> FALSE, age |-> 0])
          /\ UNCHANGED <<items, timers, open, sent>>
      BY <1>5, <2>2 DEF receiveText
    <3>2. ItemsSound' /\ timers' \subseteq Timer /\ open' \in BOOLEAN
      BY <1>1, <3>1 DEF ItemsSound, TypeOK
    <3> QED BY <1>4, <3>1, <3>2
  <2> QED BY <2>1, <2>2
<1> QED BY <1>3, <1>5

LEMMA PageCleanInv == ASSUME Inv, PageClean PROVE Inv'
<1>1. TypeOK /\ ItemsSound /\ PagesYoung /\ CashedIsGood /\ PageFresh
  BY DEF Inv
<1>2. /\ cleanIn = 0 /\ cleanIn' = PageLife
      /\ pages' = Restrict(pages, {q \in DOMAIN pages : elapsed(pages[q]) <= PageLife})
      /\ UNCHANGED <<items, timers, open, asks, cashed, sent>>
  BY DEF PageClean
<1>3. ASSUME NEW q \in DOMAIN pages'
      PROVE  /\ q \in DOMAIN pages /\ pages'[q] = pages[q] /\ pages[q] \in Page
             /\ pages[q].age + PageLife <= 2 * PageLife
  <2>1. q \in DOMAIN pages /\ pages'[q] = pages[q] /\ elapsed(pages[q]) <= PageLife
    BY <1>2 DEF Restrict
  <2>2. pages[q] \in Page /\ pages[q].age \in Nat /\ pages[q].age + cleanIn <= 2 * PageLife
    BY <1>1, <2>1 DEF TypeOK, Page, PagesYoung
  <2>3. pages[q].age % Day = pages[q].age
    BY <1>2, <2>2, NoWrap
  <2> QED BY <2>1, <2>2, <2>3, Times DEF elapsed
<1>4. TypeOK'
  BY <1>1, <1>2, <1>3, Times DEF TypeOK
<1>5. PagesYoung'
  BY <1>2, <1>3 DEF PagesYoung
<1>6. ItemsSound' /\ CashedIsGood' /\ PageFresh'
  BY <1>1, <1>2 DEF ItemsSound, CashedIsGood, PageFresh
<1> QED BY <1>4, <1>5, <1>6 DEF Inv

LEMMA TickInv == ASSUME Inv, Tick PROVE Inv'
<1>1. TypeOK /\ ItemsSound /\ PagesYoung /\ CashedIsGood /\ PageFresh
  BY DEF Inv
<1>2. /\ items' = [k \in DOMAIN items |-> [items[k] EXCEPT !.age = @ + 1, !.read = @ + 1]]
      /\ timers' = {[t EXCEPT !.left = @ - 1] : t \in timers}
      /\ pages' = [q \in DOMAIN pages |-> [pages[q] EXCEPT !.age = @ + 1]]
      /\ cleanIn' = cleanIn - 1 /\ cleanIn > 0 /\ \A t \in timers : t.left > 0
      /\ UNCHANGED <<open, asks, cashed, sent>>
  BY DEF Tick
<1>3. ASSUME NEW i, Sound(i)
      PROVE  Sound([i EXCEPT !.age = @ + 1, !.read = @ + 1])
  <2> DEFINE j == [i EXCEPT !.age = @ + 1, !.read = @ + 1]
  <2>1. i \in Item /\ i.age \in Nat /\ i.read \in Nat /\ i.read <= i.age
    BY <1>3 DEF Sound, Item
  <2>2. /\ j \in Item /\ j.age = i.age + 1 /\ j.read = i.read + 1
        /\ j.query = i.query /\ j.err = i.err /\ j.good = i.good
    <3>1. i.age + 1 \in Nat /\ i.read + 1 \in Nat
      BY <2>1
    <3>2. j.age = i.age + 1 /\ j.read = i.read + 1
      BY <2>1 DEF Item
    <3>3. j.query = i.query /\ j.err = i.err /\ j.good = i.good
      BY <2>1, Zenon DEF Item
    <3>4. j \in Item
      BY <2>1, <3>1 DEF Item
    <3> QED BY <3>2, <3>3, <3>4
  <2> HIDE DEF j
  <2>3. j.read <= j.age
    BY <2>1, <2>2
  <2>4. j.query /\ ~j.err => j.good
    BY <1>3, <2>2 DEF Sound
  <2>5. Sound(j)
    BY <2>2, <2>3, <2>4 DEF Sound
  <2> QED BY <2>5 DEF j
<1>4. ItemsSound'
  BY <1>1, <1>2, <1>3 DEF ItemsSound
<1>5. \A t \in timers : [t EXCEPT !.left = @ - 1] \in Timer
  <2> SUFFICES ASSUME NEW t \in timers PROVE [t EXCEPT !.left = @ - 1] \in Timer
    OBVIOUS
  <2>1. t \in Timer /\ t.left > 0
    BY <1>1, <1>2 DEF TypeOK
  <2>2. t.left - 1 \in 0..QueryTime
    BY <2>1, Times DEF Timer
  <2> QED BY <2>1, <2>2 DEF Timer
<1>6. cleanIn \in Nat /\ cleanIn' \in 0..PageLife
  <2>1. cleanIn \in 0..PageLife
    BY <1>1 DEF TypeOK
  <2>2. cleanIn' = cleanIn - 1 /\ cleanIn > 0
    BY <1>2
  <2> QED BY <2>1, <2>2, Times
<1>7. ASSUME NEW q \in DOMAIN pages
      PROVE  pages'[q] \in Page /\ pages'[q].age + cleanIn' <= 2 * PageLife
  <2>1. pages[q] \in Page /\ pages[q].age + cleanIn <= 2 * PageLife
    BY <1>1, <1>7 DEF TypeOK, PagesYoung
  <2>2. pages'[q] = [pages[q] EXCEPT !.age = @ + 1]
    BY <1>2, <1>7
  <2>3. pages'[q] \in Page /\ pages'[q].age = pages[q].age + 1 /\ pages[q].age \in Nat
    BY <2>1, <2>2 DEF Page
  <2>4. cleanIn' = cleanIn - 1
    BY <1>2
  <2>5. 2 * PageLife \in Nat
    BY Times
  <2> QED BY <1>6, <2>1, <2>3, <2>4, <2>5
<1>8. TypeOK'
  <2>1. DOMAIN items' \subseteq Keys /\ \A k \in DOMAIN items' : items'[k] \in Item
    BY <1>4 DEF ItemsSound, Sound
  <2>2. DOMAIN pages' \subseteq Queries /\ \A q \in DOMAIN pages' : pages'[q] \in Page
    BY <1>1, <1>2, <1>7 DEF TypeOK
  <2>3. timers' \subseteq Timer
    BY <1>2, <1>5
  <2> QED BY <1>1, <1>2, <1>6, <2>1, <2>2, <2>3 DEF TypeOK
<1>9. PagesYoung'
  BY <1>2, <1>7 DEF PagesYoung
<1>10. CashedIsGood' /\ PageFresh'
  BY <1>1, <1>2 DEF CashedIsGood, PageFresh
<1> QED BY <1>4, <1>8, <1>9, <1>10 DEF Inv

LEMMA InitInv == Init => Inv
<1> SUFFICES ASSUME Init PROVE Inv
  OBVIOUS
<1>1. DOMAIN items = {} /\ DOMAIN pages = {}
  BY DEF Init
<1> QED BY <1>1, Times DEF Init, Inv, TypeOK, ItemsSound, PagesYoung, CashedIsGood, PageFresh

LEMMA NextInv == Inv /\ [Next]_vars => Inv'
<1> SUFFICES ASSUME Inv, [Next]_vars PROVE Inv'
  OBVIOUS
<1>1. CASE \E q \in Queries, m \in Methods \ {"none"}, c \in CashTimes : query2method(q, m, c)
  BY <1>1, query2methodInv
<1>2. CASE \E q \in Queries : executeProc(q)
  BY <1>2, executeProcInv
<1>3. CASE \E q \in Queries, m \in Methods \ {"none"} : receiveText(q, m)
  BY <1>3, receiveTextInv
<1>4. CASE \E t \in timers : Timeout(t)
  BY <1>4, TimeoutInv
<1>5. CASE Clean
  BY <1>5, CleanInv
<1>6. CASE PageClean
  BY <1>6, PageCleanInv
<1>7. CASE Tick
  BY <1>7, TickInv
<1>8. CASE UNCHANGED vars
  BY <1>8 DEF vars, Inv, TypeOK, ItemsSound, PagesYoung, CashedIsGood, PageFresh
<1> QED BY <1>1, <1>2, <1>3, <1>4, <1>5, <1>6, <1>7, <1>8 DEF Next

LEMMA Invariance == Spec => []Inv
<1> QED BY InitInv, NextInv, PTL DEF Spec

-----------------------------------------------------------------------------
\* The items, timers and pages keep their types; a timeout never misses its time.
THEOREM TypeCorrect == Spec => []TypeOK
<1>1. Inv => TypeOK
  BY DEF Inv
<1> QED BY <1>1, Invariance, PTL

\* Whatever statements fail and whoever runs them, an answer from the cash is the result
\* of the last execution of its statement and younger than the cash time of its item.
THEOREM CashedAnswersAreGood == Spec => []CashedIsGood
<1>1. Inv => CashedIsGood
  BY DEF Inv
<1> QED BY <1>1, Invariance, PTL

\* No page older than the update interval is sent, for every interval, although its age is
\* told by a clock that begins anew every day.
THEOREM PagesAreFresh == Spec => []PageFresh
<1>1. Inv => PageFresh
  BY DEF Inv
<1> QED BY <1>1, Invariance, PTL
=============================================================================
