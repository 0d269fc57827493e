------------------------------ MODULE DbCache ------------------------------
(***************************************************************************)
(* The server's queries: DBWrapper, which keeps query items for a cash     *)
(* time of their own, and the page cache of WebuiThread before it, which   *)
(* it answers within the call.  Both run in the main event loop and every  *)
(* operation is a step.  Time is discrete; the statements a page and a     *)
(* script send are the same set of texts.                                  *)
(***************************************************************************)
EXTENDS Naturals, FiniteSets, Functions

CONSTANTS
    Queries,        \* texts of statements
    CashTimes,      \* what the callers of query2cash() and its like ask for
    QueryTime,      \* the timeout of a statement, 30 s
    FailedCash,     \* DB_CASH_CLAEN_INTERVAL, the cash time of what cannot be prepared
    PageAge,        \* WUI_UPDATE_INTERVAL
    PageLife,       \* WUI_CLAEN_INTERVAL
    Day,            \* QTime::elapsed() begins anew after a day
    MaxAsks         \* bound: calls

ASSUME TimesAssumption ==
    /\ CashTimes \subseteq Nat
    /\ {QueryTime, FailedCash, PageAge, PageLife, Day, MaxAsks} \subseteq Nat
    /\ PageAge <= PageLife /\ 0 < PageLife /\ 2 * PageLife < Day

\* The two methods both caches know stand for all that have a pack function; "other" has
\* none, and "none" is what executeProc() asks for.
Packed  == {"json", "fulljson"}
Methods == Packed \cup {"other", "none"}
Keys    == Queries \X Methods
NoKey   == <<>>

\* What becomes of a statement: "closed" if the database cannot be opened.
Outcomes == {"ok", "failed", "unprepared", "closed"}

Item == [cash : Nat, age : Nat,     \* i_cashTime, and the time since t_time
         err : BOOLEAN,             \* s_error is not empty
         query : BOOLEAN,           \* p_query is set
         read : Nat,                \* history: the age of s_result,
         good : BOOLEAN]            \* and whether the last execution gave it
Page == [full : BOOLEAN, age : Nat]

VARIABLES
    items,      \* queryMap
    timers,     \* timeouts that run: [key, left], NoKey when the item has left the map
    open,       \* the database is open
    pages,      \* webuiPages
    cleanIn,    \* until the page cache is cleaned
    asks,       \* calls so far
    cashed,     \* history: the item answered from the cash last, if any
    sent        \* history: the age of the page sent last

vars == <<items, timers, open, pages, cleanIn, asks, cashed, sent>>
pageVars == <<pages, cleanIn, sent>>

Maps(K, V) == UNION {[D -> V] : D \in SUBSET K}
Timer == [key : Keys \cup {NoKey}, left : 0..QueryTime]

TypeOK ==
    /\ DOMAIN items \subseteq Keys /\ \A k \in DOMAIN items : items[k] \in Item
    /\ timers \subseteq Timer
    /\ open \in BOOLEAN
    /\ DOMAIN pages \subseteq Queries /\ \A q \in DOMAIN pages : pages[q] \in Page
    /\ cleanIn \in 0..PageLife
    /\ asks \in 0..MaxAsks
    /\ cashed = NoKey \/ cashed \in Item
    /\ sent \in Nat

Init ==
    /\ items = <<>> /\ pages = <<>>
    /\ timers = {}
    /\ open = TRUE
    /\ cleanIn = PageLife
    /\ asks = 0 /\ cashed = NoKey /\ sent = 0

With(f, k, v) == [x \in DOMAIN f \cup {k} |-> IF x = k THEN v ELSE f[x]]

Ask == asks < MaxAsks /\ asks' = asks + 1
-----------------------------------------------------------------------------
(* DBWrapper *)

appendQuery(k, cash) ==
    IF k \in DOMAIN items THEN items[k]
    ELSE [cash |-> cash, age |-> 0, err |-> FALSE, query |-> FALSE, read |-> 0, good |-> FALSE]

\* Mutant: the error of the item is not looked at.
queryIsCashedErrors(i) == i.query /\ i.cash > 0 /\ i.age < i.cash

queryIsCashed(i) == ~i.err /\ i.query /\ i.cash > 0 /\ i.age < i.cash

\* The item after queryExecute(); a method without a pack function is an error too.
\* An error once stored is never taken back.
Executed(i, o, packed) ==
    CASE o = "ok"         -> [i EXCEPT !.query = TRUE, !.read = 0, !.good = packed,
                                       !.err = @ \/ ~packed]
      [] o = "failed"     -> [i EXCEPT !.query = TRUE, !.good = FALSE, !.err = TRUE]
      [] o = "unprepared" -> [i EXCEPT !.query = TRUE, !.good = FALSE, !.err = TRUE,
                                       !.cash = FailedCash]
      [] o = "closed"     -> [i EXCEPT !.good = FALSE, !.err = TRUE]

\* The timeout of a statement that failed is not stopped.
queryExecute(k, o) ==
    /\ open' = (o # "closed")
    /\ timers' = IF o \in {"failed", "unprepared"}
                 THEN timers \cup {[key |-> k, left |-> QueryTime]} ELSE timers

\* The part of query2method() after the look at the cash.
Run(k, cash, o) ==
    /\ queryExecute(k, o)
    /\ items' = With(items, k, Executed(appendQuery(k, cash), o, k[2] \in Packed))

query2method(q, m, cash) ==
    /\ Ask
    /\ IF cash > 0 /\ queryIsCashed(appendQuery(<<q, m>>, cash))
       THEN /\ cashed' = items[<<q, m>>]
            /\ UNCHANGED <<items, timers, open>>
       ELSE /\ \E o \in Outcomes : Run(<<q, m>>, cash, o)
            /\ UNCHANGED cashed
    /\ UNCHANGED pageVars

Orphaned(ts, K) == {[t EXCEPT !.key = IF @ \in K THEN NoKey ELSE @] : t \in ts}

executeProc(q) ==
    /\ Ask
    /\ LET k == <<q, "none">>
       IN  \/ /\ open' = TRUE
              /\ items' = Restrict(items, DOMAIN items \ {k})
              /\ timers' = Orphaned(timers, {k})
           \/ \E o \in Outcomes \ {"ok"} : Run(k, 0, o)
    /\ UNCHANGED <<cashed, pageVars>>

Stale(i) == (i.age > 0 /\ i.age > i.cash) \/ ~i.query

\* Mutant: the database stays open.
CleanStaysOpen ==
    /\ LET K == {k \in DOMAIN items : Stale(items[k])}
       IN  /\ items' = Restrict(items, DOMAIN items \ K)
           /\ timers' = Orphaned(timers, K)
    /\ UNCHANGED <<open, asks, cashed, pageVars>>

\* cleanTimer has the interval 0: each round of the event loop removes what is stale,
\* and closes the database when nothing is left.
Clean ==
    /\ LET K == {k \in DOMAIN items : Stale(items[k])}
       IN  /\ items' = Restrict(items, DOMAIN items \ K)
           /\ timers' = Orphaned(timers, K)
    /\ open' = (open /\ items' # <<>>)
    /\ UNCHANGED <<asks, cashed, pageVars>>

\* The timeout of a failed statement: the item is marked and the database is closed.
Timeout(t) ==
    /\ t \in timers /\ t.left = 0
    /\ timers' = timers \ {t}
    /\ items' = [k \in DOMAIN items |->
                    [items[k] EXCEPT !.err = @ \/ k = t.key]]
    /\ open' = FALSE
    /\ UNCHANGED <<asks, cashed, pageVars>>
-----------------------------------------------------------------------------
(* WebuiThread *)

elapsed(p) == p.age % Day

\* A page is found by its query alone.  Without a page, or with one that is old or empty,
\* the database is asked; it answers within the call, but not a method it does not know.
\* The error of a failed "fulljson" is a text like any other.
receiveText(q, m) ==
    /\ Ask
    /\ IF q \in DOMAIN pages /\ elapsed(pages[q]) < PageAge /\ pages[q].full
       THEN /\ sent' = pages[q].age
            /\ UNCHANGED <<items, timers, open, pages>>
       ELSE \/ /\ m \in Packed
               /\ \E o \in Outcomes :
                    /\ Run(<<q, m>>, 0, o)
                    /\ pages' = With(pages, q, [full |-> o = "ok" \/ m = "fulljson",
                                                age |-> 0])
               /\ sent' = 0
            \/ /\ m \notin Packed
               /\ pages' = IF q \in DOMAIN pages THEN pages
                           ELSE With(pages, q, [full |-> FALSE, age |-> 0])
               /\ UNCHANGED <<items, timers, open, sent>>
    /\ UNCHANGED <<cleanIn, cashed>>

\* Mutant: pages are erased only when they are much older.
PageCleanLate ==
    /\ cleanIn = 0
    /\ cleanIn' = PageLife
    /\ pages' = Restrict(pages, {q \in DOMAIN pages : elapsed(pages[q]) <= 2 * PageLife})
    /\ UNCHANGED <<items, timers, open, asks, cashed, sent>>

PageClean ==
    /\ cleanIn = 0
    /\ cleanIn' = PageLife
    /\ pages' = Restrict(pages, {q \in DOMAIN pages : elapsed(pages[q]) <= PageLife})
    /\ UNCHANGED <<items, timers, open, asks, cashed, sent>>
-----------------------------------------------------------------------------
\* Mutant: a timeout that is due may be missed.
TickLate ==
    /\ \A k \in DOMAIN items : ~Stale(items[k])
    /\ cleanIn > 0
    /\ items' = [k \in DOMAIN items |->
                    [items[k] EXCEPT !.age = @ + 1, !.read = @ + 1]]
    /\ timers' = {[t EXCEPT !.left = @ - 1] : t \in timers}
    /\ pages' = [q \in DOMAIN pages |-> [pages[q] EXCEPT !.age = @ + 1]]
    /\ cleanIn' = cleanIn - 1
    /\ UNCHANGED <<open, asks, cashed, sent>>

\* Time passes when every timer that is due has fired.
Tick ==
    /\ \A k \in DOMAIN items : ~Stale(items[k])
    /\ \A t \in timers : t.left > 0
    /\ cleanIn > 0
    /\ items' = [k \in DOMAIN items |->
                    [items[k] EXCEPT !.age = @ + 1, !.read = @ + 1]]
    /\ timers' = {[t EXCEPT !.left = @ - 1] : t \in timers}
    /\ pages' = [q \in DOMAIN pages |-> [pages[q] EXCEPT !.age = @ + 1]]
    /\ cleanIn' = cleanIn - 1
    /\ UNCHANGED <<open, asks, cashed, sent>>

Next ==
    \/ \E q \in Queries, m \in Methods \ {"none"}, c \in CashTimes : query2method(q, m, c)
    \/ \E q \in Queries : executeProc(q)
    \/ \E q \in Queries, m \in Methods \ {"none"} : receiveText(q, m)
    \/ \E t \in timers : Timeout(t)
    \/ Clean \/ PageClean \/ Tick

Spec == Init /\ [][Next]_vars

\* The event loop serves its timers, and time goes on.
Fairness ==
    /\ WF_vars(Clean) /\ WF_vars(PageClean) /\ WF_vars(Tick)
    /\ WF_vars(\E t \in timers : Timeout(t))

FairSpec == Spec /\ Fairness
-----------------------------------------------------------------------------
(* Properties *)

\* An answer from the cash was given by the last execution of its statement, which was
\* no failure, and is younger than the cash time of its item, though another caller may
\* have run the statement since, and whatever timeouts are still to come.
CashedIsGood == cashed # NoKey => cashed.good /\ cashed.read < cashed.cash

\* No page that is sent is older than the update interval, also when its age is more
\* than a day and elapsed() counts anew: the cache is cleaned long before.
PageFresh == sent < PageAge \/ sent = 0

\* When nobody asks any more both caches empty, every timeout has fired, and the
\* database is closed and stays closed.
Released == <>[](items = <<>> /\ pages = <<>> /\ timers = {} /\ ~open)
=============================================================================
