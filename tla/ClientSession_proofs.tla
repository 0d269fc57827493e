------------------------ MODULE ClientSession_proofs ------------------------
(* Theorems about the session of a station, see ClientSession. *)
EXTENDS ClientSession, TLAPS

Same(c, d) ==
    /\ d.data = c.data /\ d.steps = c.steps /\ d.created = c.created /\ d.shown = c.shown
    /\ d.session = c.session /\ d.sessions = c.sessions /\ d.heard = c.heard

Fell(c, d) ==
    \/ d.found = c.found /\ d.hooks = c.hooks /\ d.enabled = c.enabled
    \/ d.found = FALSE /\ d.hooks = "error" /\ d.enabled = FALSE

LEMMA FailedType ==
    ASSUME NEW c \in Client, NEW q \in Queries, NEW refused \in BOOLEAN
    PROVE  LET d == Failed(c, q, refused)
           IN  /\ d \in Client /\ Same(c, d) /\ Fell(c, d)
               /\ d.pending = c.pending /\ d.faults = c.faults + 1
               /\ d.broken = c.broken \cup ({q} \cap Parts)
<1> DEFINE e == Fault(c, q)
           d == [e EXCEPT !.enabled = FALSE, !.hooks = "error", !.found = FALSE,
                          !.starts = IF c.recent /\ refused THEN @ + 1 ELSE @]
<1>1. /\ e \in Client /\ Same(c, e) /\ e.pending = c.pending /\ e.faults = c.faults + 1
      /\ e.broken = c.broken \cup ({q} \cap Parts)
  <2>1. c.faults + 1 \in Nat /\ c.broken \cup ({q} \cap Parts) \in SUBSET Parts
    BY DEF Client
  <2>2. \A m \in Nat : \A b \in SUBSET Parts :
           LET x == [c EXCEPT !.faults = m, !.broken = b]
           IN  x \in Client /\ Same(c, x) /\ x.pending = c.pending
                /\ x.faults = m /\ x.broken = b
    BY DEF Client, Same
  <2>3. e = [c EXCEPT !.faults = c.faults + 1, !.broken = c.broken \cup ({q} \cap Parts)]
    BY DEF Fault
  <2> HIDE DEF e
  <2> QED BY <2>1, <2>2, <2>3
<1>2. \A x \in Client : \A n \in Nat :
         LET y == [x EXCEPT !.enabled = FALSE, !.hooks = "error", !.found = FALSE, !.starts = n]
         IN  /\ y \in Client /\ Same(x, y) /\ Fell(x, y)
             /\ y.pending = x.pending /\ y.faults = x.faults /\ y.broken = x.broken
  <2> TAKE x \in Client, n \in Nat
  <2> DEFINE y == [x EXCEPT !.enabled = FALSE, !.hooks = "error", !.found = FALSE, !.starts = n]
  <2>1. y \in Client
    BY DEF Client
  <2>2. Same(x, y)
    BY DEF Client, Same
  <2>3. y.found = FALSE /\ y.hooks = "error" /\ y.enabled = FALSE
    BY DEF Client
  <2>4. y.pending = x.pending /\ y.faults = x.faults /\ y.broken = x.broken
    BY DEF Client
  <2> HIDE DEF y
  <2>5. /\ y \in Client /\ Same(x, y) /\ Fell(x, y)
        /\ y.pending = x.pending /\ y.faults = x.faults /\ y.broken = x.broken
    BY <2>1, <2>2, <2>3, <2>4 DEF Fell
  <2> QED BY <2>5 DEF y
<1>3. (IF c.recent /\ refused THEN e.starts + 1 ELSE e.starts) \in Nat
  BY <1>1 DEF Client
<1> HIDE DEF e
<1>4. /\ d \in Client /\ Same(e, d) /\ Fell(e, d)
      /\ d.pending = e.pending /\ d.faults = e.faults /\ d.broken = e.broken
  BY <1>1, <1>2, <1>3
<1>5. d.found = FALSE /\ d.hooks = "error" /\ d.enabled = FALSE
  BY <1>1 DEF Client
<1>6. Failed(c, q, refused) = d
  BY DEF Failed, e
<1> HIDE DEF d
<1> QED BY <1>1, <1>4, <1>5, <1>6 DEF Same, Fell

LEMMA AskType ==
    ASSUME NEW c \in Client, NEW q \in Queries, NEW bad, NEW refused \in BOOLEAN
    PROVE  LET d == Ask(c, q, bad, refused)
           IN  /\ d \in Client /\ Same(c, d) /\ Fell(c, d)
               /\ d.faults \in {c.faults, c.faults + 1}
               /\ d.faults = c.faults + 1 => /\ d.pending = c.pending
                                             /\ d.broken = c.broken \cup ({q} \cap Parts)
               /\ d.faults = c.faults => /\ c.pending \subseteq d.pending
                                         /\ d.pending \subseteq c.pending \cup ({q} \ Events)
                                         /\ d.broken = c.broken
<1>1. CASE c.rpc = "deleted"
  <2>1. Ask(c, q, bad, refused) = [c EXCEPT !.misused = TRUE]
    BY <1>1 DEF Ask
  <2>2. c.faults \in Nat /\ c.faults # c.faults + 1
    BY DEF Client
  <2> QED BY <2>1, <2>2 DEF Client, Same, Fell
<1>2. CASE c.rpc # "deleted" /\ q \notin bad
  <2>1. Ask(c, q, bad, refused) = [c EXCEPT !.pending = c.pending \cup ({q} \ Events)]
    BY <1>2 DEF Ask
  <2>2. c.faults \in Nat /\ c.faults # c.faults + 1
    BY DEF Client
  <2>3. c.pending \cup ({q} \ Events) \in SUBSET (Queries \ Events)
    BY DEF Client
  <2> QED BY <2>1, <2>2, <2>3 DEF Client, Same, Fell
<1>3. CASE c.rpc # "deleted" /\ q \in bad
  <2>1. Ask(c, q, bad, refused) = Failed(c, q, refused)
    BY <1>3 DEF Ask
  <2>2. c.faults \in Nat
    BY DEF Client
  <2> QED BY <2>1, <2>2, FailedType
<1> QED BY <1>1, <1>2, <1>3

-----------------------------------------------------------------------------
(* The invariant is in three parts.  Session: a receiver that would start a session has  *)
(* found the server of the only one.  Fresh: before it, nothing was asked.  Loaded: a     *)
(* part is done exactly when its step is, nothing is pending twice, and no part is asked  *)
(* before the screens have come.                                                          *)

Session(c) ==
    /\ c.sessions <= 1
    /\ c.hooks = "main" /\ c.sessions = 1 => c.found
    /\ c.session # NoServer /\ ~c.enabled /\ c.found => c.heard # c.session

Fresh(c) ==
    c.sessions = 0 => /\ c.pending = {} /\ c.steps = {} /\ c.created = 0 /\ ~c.shown
                      /\ \A q \in Parts : c.data[q] = "none"

Loaded(c) ==
    /\ \A q \in Parts : StepOf[q] \in c.steps <=> c.data[q] # "none"
    /\ \A q \in Parts : q \in c.pending => c.data[q] = "none"
    /\ c.created = IF c.steps = 1..4 THEN 1 ELSE 0
    /\ \A q \in Parts : c.data[q] = "empty" => q \in c.broken
    /\ \A q \in Parts \ {"screens"} :
          q \in c.pending \/ c.data[q] # "none" => c.data["screens"] # "none"
    /\ c.shown => c.data["screens"] = "full"

Track(c, d) ==
    /\ d.session = c.session /\ d.sessions = c.sessions /\ d.heard = c.heard
    /\ Fell(c, d)

\* What happens to q leaves the other parts alone.
Others(c, d, q) ==
    /\ \A p \in Parts \ {q} : d.data[p] = c.data[p] /\ (p \in d.pending <=> p \in c.pending)
    /\ c.broken \subseteq d.broken

LEMMA Steps ==
    /\ StepOf["screens"] = 1 /\ StepOf["properties"] = 2 /\ StepOf["scripts"] = 3
    /\ StepOf["widgets"] = 4
    /\ \A p, q \in Parts : StepOf[p] \in 1..4 /\ (StepOf[p] = StepOf[q] => p = q)
    /\ \A n \in 1..4 : \E p \in Parts : n = StepOf[p]
BY DEF StepOf, Parts

LEMMA TrackTransitive ==
    ASSUME NEW c, NEW d, NEW e, Track(c, d), Track(d, e)
    PROVE  Track(c, e)
BY DEF Track, Fell

LEMMA SessionKept ==
    ASSUME NEW c, NEW d, Session(c), Track(c, d)
    PROVE  Session(d)
BY DEF Session, Track, Fell

LEMMA OthersTransitive ==
    ASSUME NEW c, NEW d, NEW e, NEW q, Others(c, d, q), Others(d, e, q)
    PROVE  Others(c, e, q)
BY DEF Others

LEMMA AskLoaded ==
    ASSUME NEW c \in Client, Loaded(c), NEW q \in Queries, NEW bad, NEW refused \in BOOLEAN,
           q \in Parts => c.data[q] = "none" /\ (q # "screens" => c.data["screens"] # "none")
    PROVE  LET d == Ask(c, q, bad, refused)
           IN  d \in Client /\ Loaded(d) /\ Track(c, d) /\ Others(c, d, q)
<1> DEFINE d == Ask(c, q, bad, refused)
<1>1. /\ d \in Client /\ Same(c, d) /\ Fell(c, d)
      /\ c.broken \subseteq d.broken
      /\ c.pending \subseteq d.pending /\ d.pending \subseteq c.pending \cup {q}
  BY AskType
<1> HIDE DEF d
<1>2. Track(c, d)
  BY <1>1 DEF Track, Same
<1>3. Others(c, d, q)
  BY <1>1 DEF Others, Same
<1>4. Loaded(d)
  BY <1>1 DEF Loaded, Same
<1> QED BY <1>1, <1>2, <1>3, <1>4 DEF d

LEMMA CreatedLoaded ==
    ASSUME NEW c \in Client, NEW bad, NEW refused \in BOOLEAN,
           Loaded([c EXCEPT !.created = @ + 1])
    PROVE  LET d == InterfaceCreated(c, bad, refused)
           IN  d \in Client /\ Loaded(d) /\ Track(c, d) /\ Others(c, d, "buttons")
<1> DEFINE e == [c EXCEPT !.created = @ + 1]
<1>1. e \in Client /\ Loaded(e)
  BY DEF Client
<1>2. Track(c, e) /\ Others(c, e, "buttons")
  BY DEF Client, Track, Fell, Others
<1>3. InterfaceCreated(c, bad, refused) \in {e, Ask(e, "buttons", bad, refused)}
  BY DEF InterfaceCreated
<1> HIDE DEF e
<1>4. "buttons" \in Queries \ Parts
  BY DEF Queries, Parts
<1>5. LET d == Ask(e, "buttons", bad, refused)
      IN  d \in Client /\ Loaded(d) /\ Track(e, d) /\ Others(e, d, "buttons")
  BY <1>1, <1>4, AskLoaded
<1> QED BY <1>1, <1>2, <1>3, <1>5, TrackTransitive, OthersTransitive

\* A part is loaded once, when it has just been answered or has just failed.
LoadsPart(c, d, q) ==
    d \in Client /\ Loaded(d) /\ Track(c, d) /\ Others(c, d, q)

LEMMA PartLoaded ==
    ASSUME NEW c \in Client, Loaded(c), NEW q \in Parts \ {"screens"},
           NEW content \in {"empty", "full"}, NEW bad, NEW refused \in BOOLEAN,
           q \notin c.pending, c.data[q] = "none", c.data["screens"] # "none",
           content = "empty" => q \in c.broken
    PROVE  LoadsPart(c, LoadPart(c, q, content, bad, refused), q)
<1> DEFINE n == StepOf[q]
           e == [c EXCEPT !.data[q] = content,
                          !.shown = @ \/ (q = "widgets" /\ c.data["screens"] = "full")]
           f == [e EXCEPT !.steps = @ \cup {n}]
           g == [f EXCEPT !.created = @ + 1]
<1>1. n \in 1..4 /\ n \notin c.steps /\ c.steps # 1..4 /\ c.created = 0
  BY Steps DEF Loaded
<1>2. /\ e \in Client /\ e.steps = c.steps /\ e.created = 0 /\ e.pending = c.pending
      /\ e.broken = c.broken /\ e.data = [c.data EXCEPT ![q] = content]
      /\ e.shown => c.shown \/ c.data["screens"] = "full"
  BY <1>1 DEF Client, Parts
<1>3. Track(c, e)
  BY DEF Client, Track, Fell
<1> HIDE DEF e, n
<1>4. /\ f \in Client /\ f.steps = c.steps \cup {n} /\ f.created = 0 /\ f.pending = c.pending
      /\ f.broken = c.broken /\ f.data = e.data /\ f.shown = e.shown
  BY <1>1, <1>2 DEF Client
<1>5. Track(e, f)
  BY <1>2 DEF Client, Track, Fell
<1>6. LoadPart(c, q, content, bad, refused) =
         IF f.steps = 1..4 THEN InterfaceCreated(f, bad, refused) ELSE f
  BY DEF LoadPart, StepFinished, e, n
<1> HIDE DEF f
<1>7. Track(c, f)
  BY <1>3, <1>5, TrackTransitive
<1>8. /\ g \in Client /\ g.steps = f.steps /\ g.created = 1 /\ g.pending = f.pending
      /\ g.broken = f.broken /\ g.data = f.data /\ g.shown = f.shown
  BY <1>4 DEF Client
<1> HIDE DEF g
<1>9. c.data \in [Parts -> {"none", "empty", "full"}]
  BY DEF Client
<1>10. \A p \in Parts : f.data[p] = IF p = q THEN content ELSE c.data[p]
  BY <1>2, <1>4, <1>9
<1>11. Others(c, f, q)
  BY <1>4, <1>10 DEF Others
<1>12. ASSUME NEW h \in {f, g}, h.created = IF h.steps = 1..4 THEN 1 ELSE 0
       PROVE  Loaded(h)
  <2>1. /\ h.steps = c.steps \cup {n} /\ h.pending = c.pending
        /\ h.broken = c.broken /\ h.shown = e.shown
        /\ \A p \in Parts : h.data[p] = IF p = q THEN content ELSE c.data[p]
    BY <1>4, <1>8, <1>10, <1>12
  <2>2. \A p \in Parts : StepOf[p] \in h.steps <=> h.data[p] # "none"
    BY <2>1, Steps DEF Loaded, n
  <2>3. "screens" \in Parts /\ h.data["screens"] = c.data["screens"]
    BY <2>1 DEF Parts
  <2> QED BY <1>2, <1>12, <2>1, <2>2, <2>3 DEF Loaded
<1>13. CASE f.steps = 1..4
  <2>1. Loaded(g)
    BY <1>4, <1>8, <1>12, <1>13
  <2>2. LET d == InterfaceCreated(f, bad, refused)
        IN  d \in Client /\ Loaded(d) /\ Track(f, d) /\ Others(f, d, "buttons")
    BY <1>4, <2>1, CreatedLoaded DEF g
  <2>3. "buttons" \notin Parts
    BY DEF Parts
  <2> QED BY <1>6, <1>7, <1>11, <1>13, <2>2, <2>3, TrackTransitive DEF LoadsPart, Others
<1>14. CASE f.steps # 1..4
  BY <1>4, <1>6, <1>7, <1>11, <1>12, <1>14 DEF LoadsPart
<1> QED BY <1>13, <1>14

LEMMA AskPartLoaded ==
    ASSUME NEW c \in Client, Loaded(c), NEW q \in Parts \ {"screens"},
           NEW bad, NEW refused \in BOOLEAN,
           q \notin c.pending, c.data[q] = "none", c.data["screens"] # "none"
    PROVE  LoadsPart(c, AskPart(c, q, bad, refused), q)
<1> DEFINE d == Ask(c, q, bad, refused)
<1>1. q \in Queries
  BY DEF Queries
<1>2. d \in Client /\ Loaded(d) /\ Track(c, d) /\ Others(c, d, q)
  BY <1>1, AskLoaded
<1>3. /\ d.data = c.data /\ d.faults \in {c.faults, c.faults + 1}
      /\ d.faults = c.faults + 1 => d.pending = c.pending /\ q \in d.broken
  BY <1>1, AskType DEF Same
<1>4. AskPart(c, q, bad, refused) =
         IF d.faults > c.faults THEN LoadPart(d, q, "empty", bad, refused) ELSE d
  BY DEF AskPart
<1> HIDE DEF d
<1>5. c.faults \in Nat
  BY DEF Client
<1>6. CASE d.faults > c.faults
  <2>1. q \notin d.pending /\ q \in d.broken
    BY <1>3, <1>5, <1>6
  <2>2. LoadsPart(d, LoadPart(d, q, "empty", bad, refused), q)
    BY <1>2, <1>3, <2>1, PartLoaded
  <2> QED BY <1>2, <1>4, <1>6, <2>2, TrackTransitive, OthersTransitive DEF LoadsPart
<1>7. CASE ~(d.faults > c.faults)
  BY <1>2, <1>4, <1>7 DEF LoadsPart
<1> QED BY <1>6, <1>7

LEMMA InterfaceLoadedLoaded ==
    ASSUME NEW c \in Client, Loaded(c), NEW bad, NEW refused \in BOOLEAN,
           c.data["screens"] # "none",
           \A q \in Parts \ {"screens"} : q \notin c.pending /\ c.data[q] = "none"
    PROVE  LET d == InterfaceLoaded(c, bad, refused)
           IN  d \in Client /\ Loaded(d) /\ Track(c, d)
<1> DEFINE p == AskPart(c, "properties", bad, refused)
           s == AskPart(p, "scripts", bad, refused)
           w == AskPart(s, "widgets", bad, refused)
           d == [w EXCEPT !.createdHook = TRUE]
<1>1. LoadsPart(c, p, "properties")
  BY AskPartLoaded DEF Parts
<1> HIDE DEF p
<1>2. LoadsPart(p, s, "scripts")
  BY <1>1, AskPartLoaded DEF Parts, LoadsPart, Others
<1> HIDE DEF s
<1>3. LoadsPart(s, w, "widgets")
  BY <1>1, <1>2, AskPartLoaded DEF Parts, LoadsPart, Others
<1> HIDE DEF w
<1>4. w \in Client /\ Loaded(w) /\ Track(c, w)
  BY <1>1, <1>2, <1>3, TrackTransitive DEF LoadsPart
<1>5. d \in Client /\ Same(w, d) /\ Track(w, d) /\ d.pending = w.pending /\ d.broken = w.broken
  BY <1>4 DEF Client, Same, Track, Fell
<1>6. InterfaceLoaded(c, bad, refused) = d
  BY DEF InterfaceLoaded, w, s, p
<1> HIDE DEF d
<1>7. Loaded(d)
  BY <1>4, <1>5 DEF Loaded, Same
<1> QED BY <1>4, <1>5, <1>6, <1>7, TrackTransitive

LEMMA LoadInterfaceLoaded ==
    ASSUME NEW c \in Client, Loaded(c), NEW content \in {"empty", "full"},
           NEW bad, NEW refused \in BOOLEAN,
           "screens" \notin c.pending, c.data["screens"] = "none",
           content = "empty" => "screens" \in c.broken
    PROVE  LET d == LoadInterface(c, content, bad, refused)
           IN  d \in Client /\ Loaded(d) /\ Track(c, d)
<1> DEFINE e == [c EXCEPT !.data["screens"] = content, !.steps = @ \cup {1}]
<1>1. /\ e \in Client /\ e.steps = c.steps \cup {1} /\ e.pending = c.pending
      /\ e.broken = c.broken /\ e.created = c.created /\ e.shown = c.shown
      /\ e.data = [c.data EXCEPT !["screens"] = content]
  <2>1. /\ [c.data EXCEPT !["screens"] = content] \in [Parts -> {"none", "empty", "full"}]
        /\ c.steps \cup {1} \in SUBSET (1..4)
    <3>1. c.data \in [Parts -> {"none", "empty", "full"}] /\ c.steps \in SUBSET (1..4)
      BY DEF Client
    <3>2. 1 \in 1..4
      OBVIOUS
    <3> HIDE DEF e
    <3> QED BY <3>1, <3>2
  <2>2. \A v \in [Parts -> {"none", "empty", "full"}] : \A n \in SUBSET (1..4) :
           LET x == [c EXCEPT !.data = v, !.steps = n]
           IN  /\ x \in Client /\ x.steps = n /\ x.pending = c.pending
               /\ x.broken = c.broken /\ x.created = c.created /\ x.shown = c.shown
               /\ x.data = v
    BY DEF Client
  <2>3. e = [c EXCEPT !.data = [c.data EXCEPT !["screens"] = content],
                      !.steps = c.steps \cup {1}]
    OBVIOUS
  <2> HIDE DEF e
  <2>4. LET x == [c EXCEPT !.data = [c.data EXCEPT !["screens"] = content],
                           !.steps = c.steps \cup {1}]
        IN  /\ x \in Client /\ x.steps = c.steps \cup {1} /\ x.pending = c.pending
            /\ x.broken = c.broken /\ x.created = c.created /\ x.shown = c.shown
            /\ x.data = [c.data EXCEPT !["screens"] = content]
    BY <2>1, <2>2
  <2> QED BY <2>3, <2>4
<1>2. Track(c, e)
  BY DEF Client, Track, Fell
<1>3. LoadInterface(c, content, bad, refused) =
         IF e.loadedHook THEN InterfaceLoaded(e, bad, refused) ELSE e
  BY DEF LoadInterface
<1> HIDE DEF e
<1>4. c.data \in [Parts -> {"none", "empty", "full"}] /\ "screens" \in Parts
  BY DEF Client, Parts
<1>5. \A q \in Parts : e.data[q] = IF q = "screens" THEN content ELSE c.data[q]
  BY <1>1, <1>4
<1>6. \A q \in Parts \ {"screens"} : q \notin e.pending /\ e.data[q] = "none" /\ c.data[q] = "none"
  BY <1>1, <1>4, <1>5 DEF Loaded
<1>7. \A q \in Parts : StepOf[q] \in e.steps <=> e.data[q] # "none"
  <2>1. \A q \in Parts : StepOf[q] = 1 <=> q = "screens"
    BY <1>4, Steps
  <2> QED BY <1>1, <1>4, <1>5, <2>1 DEF Loaded
<1>8. 2 \notin e.steps /\ 2 \notin c.steps /\ "properties" \in Parts
  BY <1>1, <1>6, Steps DEF Loaded, Parts
<1>9. e.steps # 1..4 /\ c.steps # 1..4
  BY <1>8
<1>10. Loaded(e)
  BY <1>1, <1>4, <1>5, <1>6, <1>7, <1>9 DEF Loaded
<1>11. LET d == InterfaceLoaded(e, bad, refused)
       IN  d \in Client /\ Loaded(d) /\ Track(e, d)
  BY <1>1, <1>4, <1>5, <1>6, <1>10, InterfaceLoadedLoaded
<1> QED BY <1>1, <1>2, <1>3, <1>10, <1>11, TrackTransitive

LEMMA ServerFoundSession ==
    ASSUME NEW c \in Client, Loaded(c), Fresh(c), c.sessions = 0, c.found, NEW s \in Servers,
           NEW bad, NEW refused \in BOOLEAN
    PROVE  LET d == ServerFound(c, s, bad, refused)
           IN  d \in Client /\ Loaded(d) /\ Session(d) /\ d.sessions = 1
<1> DEFINE new == [c EXCEPT !.session = s, !.sessions = @ + 1, !.rpc = "live",
                            !.recent = TRUE, !.enabled = TRUE]
           i == Ask(new, "screens", bad, refused)
           l == IF i.faults > new.faults THEN LoadInterface(i, "empty", bad, refused) ELSE i
           d == Ask(l, "devices", bad, refused)
           f == Ask(d, "ftp", bad, refused)
           w == Ask(f, "websocket", bad, refused)
           e == [w EXCEPT !.loadedHook = TRUE]
<1>1. /\ new.session = s /\ new.sessions = 1 /\ new.enabled = TRUE /\ new.hooks = c.hooks
      /\ new.data = c.data /\ new.steps = c.steps /\ new.pending = c.pending
      /\ new.broken = c.broken /\ new.created = c.created
  <2>1. new.sessions = 1
    BY DEF Client
  <2> QED BY <2>1 DEF Client
<1>1a. new.found /\ (new.shown <=> c.shown)
  BY DEF Client
<1>2. new \in Client
  <2>1. c.sessions + 1 \in Nat
    BY DEF Client
  <2> QED BY <2>1 DEF Client
<1> HIDE DEF new
<1>3. Session(new) /\ Loaded(new)
  BY <1>1, <1>1a DEF Session, Loaded
<1>4. /\ "screens" \in Queries \cap Parts
      /\ \A q \in {"devices", "ftp", "websocket"} : q \in Queries /\ q \notin Parts
  BY DEF Queries, First, Parts
<1>5. new.data["screens"] = "none" /\ "screens" \notin new.pending
  BY <1>1, <1>4 DEF Fresh
<1>6. /\ i \in Client /\ Loaded(i) /\ Track(new, i) /\ i.data = new.data
      /\ i.faults \in {new.faults, new.faults + 1}
      /\ i.faults = new.faults + 1 => i.pending = new.pending /\ "screens" \in i.broken
  BY <1>2, <1>3, <1>4, <1>5, AskLoaded, AskType DEF Same
<1> HIDE DEF i
<1>7. l \in Client /\ Loaded(l) /\ Track(new, l)
  <2>1. new.faults \in Nat
    BY <1>2 DEF Client
  <2>2. CASE i.faults > new.faults
    <3>1. "screens" \notin i.pending /\ "screens" \in i.broken /\ i.data["screens"] = "none"
      BY <1>5, <1>6, <2>1, <2>2
    <3>2. LET x == LoadInterface(i, "empty", bad, refused)
          IN  x \in Client /\ Loaded(x) /\ Track(i, x)
      BY <1>6, <3>1, LoadInterfaceLoaded
    <3> QED BY <1>6, <2>2, <3>2, TrackTransitive
  <2>3. CASE ~(i.faults > new.faults)
    BY <1>6, <2>3
  <2> QED BY <2>2, <2>3
<1> HIDE DEF l
<1>8. d \in Client /\ Loaded(d) /\ Track(new, d)
  BY <1>4, <1>7, AskLoaded, TrackTransitive
<1> HIDE DEF d
<1>9. f \in Client /\ Loaded(f) /\ Track(new, f)
  BY <1>4, <1>8, AskLoaded, TrackTransitive
<1> HIDE DEF f
<1>10. w \in Client /\ Loaded(w) /\ Track(new, w)
  BY <1>4, <1>9, AskLoaded, TrackTransitive
<1>11. ServerFound(c, s, bad, refused) = e
  BY DEF ServerFound, NewSession, new, i, l, d, f
<1> HIDE DEF w
<1>12. e \in Client /\ Same(w, e) /\ Track(w, e) /\ e.pending = w.pending /\ e.broken = w.broken
  <2>1. w \in Client
    BY <1>10
  <2>2. e \in Client
    BY <2>1 DEF Client
  <2>3. /\ e.pending = w.pending /\ e.broken = w.broken /\ e.faults = w.faults
        /\ Same(w, e)
    BY <2>1 DEF Client, Same
  <2>4. Track(w, e)
    BY <2>1 DEF Client, Track, Fell
  <2> QED BY <2>2, <2>3, <2>4
<1> HIDE DEF e
<1>13. Loaded(e)
  BY <1>10, <1>12 DEF Loaded, Same
<1>14. Session(e) /\ e.sessions = 1
  BY <1>1, <1>3, <1>10, <1>12, TrackTransitive, SessionKept DEF Track
<1> QED BY <1>11, <1>12, <1>13, <1>14

\* An answer leaves the set of those that are waited for.
LEMMA AnsweredLoaded ==
    ASSUME NEW c \in Client, Loaded(c), NEW q \in Queries
    PROVE  LET d == [c EXCEPT !.pending = @ \ {q}]
           IN  /\ d \in Client /\ Loaded(d) /\ Track(c, d) /\ Same(c, d)
               /\ d.pending = c.pending \ {q} /\ d.broken = c.broken
<1> DEFINE d == [c EXCEPT !.pending = @ \ {q}]
<1>1. /\ d \in Client /\ Same(c, d) /\ d.pending = c.pending \ {q} /\ d.broken = c.broken
  BY DEF Client, Same
<1>2. Track(c, d)
  BY DEF Client, Track, Fell
<1> HIDE DEF d
<1>3. Loaded(d)
  BY <1>1 DEF Loaded, Same
<1> QED BY <1>1, <1>2, <1>3 DEF d

LEMMA FaultLoaded ==
    ASSUME NEW c \in Client, Loaded(c), NEW q \in Queries
    PROVE  LET d == Fault(c, q)
           IN  /\ d \in Client /\ Loaded(d) /\ Track(c, d) /\ Same(c, d)
               /\ d.pending = c.pending /\ d.broken = c.broken \cup ({q} \cap Parts)
<1> DEFINE d == Fault(c, q)
<1>1. c.faults + 1 \in Nat /\ c.broken \cup ({q} \cap Parts) \in SUBSET Parts
  BY DEF Client
<1>2. \A m \in Nat : \A b \in SUBSET Parts :
         LET x == [c EXCEPT !.faults = m, !.broken = b]
         IN  x \in Client /\ Same(c, x) /\ x.pending = c.pending /\ x.broken = b
  BY DEF Client, Same
<1>3. d = [c EXCEPT !.faults = c.faults + 1, !.broken = c.broken \cup ({q} \cap Parts)]
  BY DEF Fault
<1>4. Track(c, d)
  BY DEF Fault, Client, Track, Fell
<1> HIDE DEF d
<1>5. d \in Client /\ Same(c, d) /\ d.pending = c.pending /\ d.broken = c.broken \cup ({q} \cap Parts)
  BY <1>1, <1>2, <1>3
<1>6. Loaded(d)
  BY <1>5 DEF Loaded, Same
<1> QED BY <1>4, <1>5, <1>6 DEF d

-----------------------------------------------------------------------------
IInv ==
    /\ TypeOK
    /\ Session(client) /\ Fresh(client) /\ Loaded(client)

LEMMA InitIInv == Init => IInv
<1> SUFFICES ASSUME Init PROVE IInv
  OBVIOUS
<1>1. client \in Client /\ client.faults = 0
  BY DEF Init, Client
<1>2. Session(client) /\ Fresh(client)
  BY DEF Init, Session, Fresh
<1>3. 1..4 # {}
  OBVIOUS
<1>4. Loaded(client)
  BY <1>3 DEF Init, Loaded
<1> QED BY <1>1, <1>2, <1>4, SessionAssumption DEF IInv, TypeOK, Init

\* Once a session has begun its handlers keep the invariant if they keep track.
LEMMA Handled ==
    ASSUME IInv, alive' \in BOOLEAN, client' \in Client, Bounded,
           Loaded(client'), Track(client, client'), client.sessions # 0
    PROVE  IInv'
<1>1. Session(client')
  BY SessionKept DEF IInv
<1>2. Fresh(client')
  BY DEF Fresh, Track
<1> QED BY <1>1, <1>2 DEF IInv, TypeOK, Bounded

LEMMA NameHeardIInv ==
    ASSUME IInv, NEW s \in Servers, NameHeard(s)
    PROVE  IInv'
<1> DEFINE c == [client EXCEPT !.found = TRUE, !.heard = s]
<1>1. /\ c \in Client /\ Same([client EXCEPT !.heard = s], c) /\ c.found = TRUE /\ c.heard = s
      /\ c.hooks = client.hooks /\ c.pending = client.pending /\ c.broken = client.broken
      /\ c.sessions = client.sessions /\ c.session = client.session
      /\ c.steps = client.steps /\ c.created = client.created /\ c.data = client.data
  BY DEF IInv, TypeOK, Client, Same
<1>2. (c.shown <=> client.shown) /\ (c.enabled <=> client.enabled)
  BY DEF IInv, TypeOK, Client
<1>3. Loaded(c) /\ Fresh(c)
  BY <1>1, <1>2 DEF IInv, Loaded, Fresh
<1>4. CASE client.hooks = "main"
  <2>1. client.sessions = 0
    BY <1>4 DEF NameHeard, IInv, TypeOK, Client, Session
  <2>2. PICK bad \in SUBSET First, refused \in BOOLEAN : client' = ServerFound(c, s, bad, refused)
    BY <1>1, <1>4 DEF NameHeard
  <2> HIDE DEF c
  <2>3. client' \in Client /\ Loaded(client') /\ Session(client') /\ client'.sessions = 1
    BY <1>1, <1>3, <2>1, <2>2, ServerFoundSession
  <2>4. Fresh(client')
    BY <2>3 DEF Fresh
  <2> QED BY <2>3, <2>4 DEF NameHeard, Bounded, IInv, TypeOK
<1>5. CASE client.hooks # "main"
  <2>1. client' = [c EXCEPT !.enabled = @ \/ s = c.session]
    BY <1>1, <1>5 DEF NameHeard
  <2> HIDE DEF c
  <2>2. /\ client' \in Client /\ client'.found = TRUE /\ client'.heard = s
        /\ client'.hooks = c.hooks /\ client'.pending = c.pending /\ client'.broken = c.broken
        /\ client'.sessions = c.sessions /\ client'.session = c.session
        /\ client'.steps = c.steps /\ client'.created = c.created /\ client'.data = c.data
    BY <1>1, <2>1 DEF Client
  <2>3. (client'.shown <=> c.shown) /\ (s = c.session => client'.enabled)
    BY <1>1, <2>1 DEF Client
  <2>4. Loaded(client') /\ Fresh(client')
    BY <1>3, <2>2, <2>3 DEF Loaded, Fresh
  <2>5. Session(client')
    BY <1>1, <1>5, <2>2, <2>3 DEF Session, IInv
  <2> QED BY <2>2, <2>4, <2>5 DEF NameHeard, Bounded, IInv, TypeOK
<1> QED BY <1>4, <1>5

LEMMA RenewIInv ==
    ASSUME IInv, Renew
    PROVE  IInv'
<1>1. CASE client' = client
  BY <1>1 DEF Renew, IInv, TypeOK
<1>2. CASE client' = [client EXCEPT !.rpc = IF @ = "live" THEN "deleted" ELSE @]
  <2>1. /\ client' \in Client /\ Same(client, client') /\ client'.faults = client.faults
        /\ client'.pending = client.pending /\ client'.broken = client.broken
    BY <1>2 DEF IInv, TypeOK, Client, Same
  <2>2. Track(client, client')
    BY <1>2 DEF IInv, TypeOK, Client, Track, Fell
  <2>3. Loaded(client') /\ Fresh(client')
    BY <2>1 DEF IInv, Loaded, Fresh, Same
  <2>4. Session(client')
    BY <2>2, SessionKept DEF IInv
  <2> QED BY <2>1, <2>3, <2>4 DEF Renew, IInv, TypeOK
<1> QED BY <1>1, <1>2 DEF Renew

\* What the handlers of answers do to a client whose answer to q has just come.
LEMMA AnswerHandled ==
    ASSUME NEW c \in Client, Loaded(c), NEW q \in Queries, q \notin c.pending,
           NEW content \in {"empty", "full"}, NEW bad, NEW refused \in BOOLEAN,
           q \in Parts => c.data[q] = "none" /\ (content = "empty" => q \in c.broken),
           q \in Parts \ {"screens"} => c.data["screens"] # "none"
    PROVE  /\ q = "screens" =>
                 LET d == LoadInterface(c, content, bad, refused)
                 IN  d \in Client /\ Loaded(d) /\ Track(c, d)
           /\ q \in Parts \ {"screens"} =>
                 LET d == LoadPart(c, q, content, bad, refused)
                 IN  d \in Client /\ Loaded(d) /\ Track(c, d)
<1>1. "screens" \in Parts
  BY DEF Parts
<1> QED BY <1>1, LoadInterfaceLoaded, PartLoaded DEF LoadsPart

LEMMA AnswerIInv ==
    ASSUME IInv, NEW q \in Queries \ Events, Answer(q)
    PROVE  IInv'
<1> DEFINE c == [client EXCEPT !.pending = @ \ {q}]
           t == c.timer \/ \A p \in Parts \ {"scripts"} : c.data[p] = "full"
<1>1. /\ c \in Client /\ Loaded(c) /\ Track(client, c) /\ Same(client, c)
      /\ c.pending = client.pending \ {q} /\ c.broken = client.broken
  BY AnsweredLoaded DEF IInv, TypeOK
<1>2. client.sessions # 0
  BY DEF Answer, IInv, Fresh
<1>3. PICK bad \in SUBSET After(q), refused \in BOOLEAN :
         client' = CASE q = "screens" -> LoadInterface(c, "full", bad, refused)
                     [] q \in Parts \ {"screens"} -> LoadPart(c, q, "full", bad, refused)
                     [] q = "devices" -> [c EXCEPT !.devices = TRUE]
                     [] q = "buttons" -> [c EXCEPT !.timer = t]
                     [] OTHER -> c
  BY DEF Answer
<1>4. /\ q \in Parts => c.data[q] = "none"
      /\ q \in Parts \ {"screens"} => c.data["screens"] # "none"
  BY <1>1 DEF Answer, IInv, Loaded, Same
<1>5. t \in BOOLEAN
  BY <1>1 DEF Client
<1> HIDE DEF c, t
<1>6. "screens" \in Parts /\ "devices" \notin Parts /\ "buttons" \notin Parts
  BY DEF Parts
<1>7. client' \in Client /\ Loaded(client') /\ Track(c, client')
  <2>1. CASE q = "screens"
    <3>1. client' = LoadInterface(c, "full", bad, refused)
      BY <1>3, <2>1
    <3> QED BY <1>1, <1>4, <1>6, <2>1, <3>1, AnswerHandled
  <2>2. CASE q \in Parts \ {"screens"}
    <3>1. client' = LoadPart(c, q, "full", bad, refused)
      BY <1>3, <1>6, <2>2
    <3> QED BY <1>1, <1>4, <2>2, <3>1, AnswerHandled
  <2>3. \A x \in {[c EXCEPT !.devices = TRUE], [c EXCEPT !.timer = t], c} :
           /\ x \in Client /\ Same(c, x) /\ Track(c, x)
           /\ x.pending = c.pending /\ x.broken = c.broken
    <3>1. LET x == [c EXCEPT !.devices = TRUE]
          IN  x \in Client /\ Same(c, x) /\ x.pending = c.pending /\ x.broken = c.broken
      BY <1>1 DEF Client, Same
    <3>2. Track(c, [c EXCEPT !.devices = TRUE]) /\ Track(c, [c EXCEPT !.timer = t])
      BY <1>1 DEF Client, Track, Fell
    <3>3. LET x == [c EXCEPT !.timer = t]
          IN  x \in Client /\ Same(c, x) /\ x.pending = c.pending /\ x.broken = c.broken
      BY <1>1, <1>5 DEF Client, Same
    <3>4. Same(c, c) /\ Track(c, c)
      BY DEF Same, Track, Fell
    <3> QED BY <1>1, <3>1, <3>2, <3>3, <3>4
  <2>4. CASE q \notin Parts
    <3>1. client' \in {[c EXCEPT !.devices = TRUE], [c EXCEPT !.timer = t], c}
      BY <1>3, <1>6, <2>4
    <3>2. /\ client' \in Client /\ Same(c, client') /\ Track(c, client')
          /\ client'.pending = c.pending /\ client'.broken = c.broken
      BY <2>3, <3>1
    <3>3. Loaded(client')
      BY <1>1, <3>2 DEF Loaded, Same
    <3> QED BY <3>2, <3>3
  <2> QED BY <2>1, <2>2, <2>4
<1>8. Track(client, client')
  BY <1>1, <1>7, TrackTransitive
<1>9. alive' \in BOOLEAN /\ Bounded
  BY DEF Answer, IInv, TypeOK
<1> QED BY <1>2, <1>7, <1>8, <1>9, Handled

LEMMA AnswerEmptyIInv ==
    ASSUME IInv, NEW q \in Queries \ Events, AnswerEmpty(q)
    PROVE  IInv'
<1> DEFINE b == [client EXCEPT !.pending = @ \ {q}]
           c == Fault(b, q)
<1>1. /\ b \in Client /\ Loaded(b) /\ Track(client, b) /\ Same(client, b)
      /\ b.pending = client.pending \ {q} /\ b.broken = client.broken
  BY AnsweredLoaded DEF IInv, TypeOK
<1>2. client.sessions # 0
  BY DEF AnswerEmpty, IInv, Fresh
<1>3. PICK bad \in SUBSET After(q), refused \in BOOLEAN :
         client' = CASE q = "screens" -> LoadInterface(c, "empty", bad, refused)
                     [] q \in Parts \ {"screens"} -> LoadPart(c, q, "empty", bad, refused)
                     [] OTHER -> c
  BY DEF AnswerEmpty
<1> HIDE DEF b
<1>4. /\ c \in Client /\ Loaded(c) /\ Track(b, c) /\ Same(b, c)
      /\ c.pending = b.pending /\ c.broken = b.broken \cup ({q} \cap Parts)
  BY <1>1, FaultLoaded
<1> HIDE DEF c
<1>5. /\ q \in Parts => c.data[q] = "none" /\ q \in c.broken
      /\ q \in Parts \ {"screens"} => c.data["screens"] # "none"
      /\ q \notin c.pending
  BY <1>1, <1>4 DEF AnswerEmpty, IInv, Loaded, Same
<1>6. "screens" \in Parts
  BY DEF Parts
<1>7. client' \in Client /\ Loaded(client') /\ Track(c, client')
  <2>1. CASE q = "screens"
    <3>1. client' = LoadInterface(c, "empty", bad, refused)
      BY <1>3, <2>1
    <3> QED BY <1>4, <1>5, <1>6, <2>1, <3>1, AnswerHandled
  <2>2. CASE q \in Parts \ {"screens"}
    <3>1. client' = LoadPart(c, q, "empty", bad, refused)
      BY <1>3, <2>2
    <3> QED BY <1>4, <1>5, <2>2, <3>1, AnswerHandled
  <2>3. CASE q \notin Parts
    <3>1. client' = c
      BY <1>3, <1>6, <2>3
    <3> QED BY <1>4, <3>1 DEF Track, Fell
  <2> QED BY <2>1, <2>2, <2>3
<1>8. Track(client, client')
  BY <1>1, <1>4, <1>7, TrackTransitive
<1>9. alive' \in BOOLEAN /\ Bounded
  BY DEF AnswerEmpty, IInv, TypeOK
<1> QED BY <1>2, <1>7, <1>8, <1>9, Handled

LEMMA AnswerLostIInv ==
    ASSUME IInv, NEW q \in Queries \ Events, AnswerLost(q)
    PROVE  IInv'
<1> DEFINE b == [client EXCEPT !.pending = @ \ {q}]
<1>1. b \in Client /\ Loaded(b) /\ Track(client, b)
  BY AnsweredLoaded DEF IInv, TypeOK
<1>2. client.sessions # 0
  BY DEF AnswerLost, IInv, Fresh
<1>3. client' = Fault(b, q)
  BY DEF AnswerLost
<1> HIDE DEF b
<1>4. client' \in Client /\ Loaded(client') /\ Track(b, client')
  BY <1>1, <1>3, FaultLoaded
<1>5. alive' \in BOOLEAN /\ Bounded
  BY DEF AnswerLost, IInv, TypeOK
<1> QED BY <1>1, <1>2, <1>4, <1>5, TrackTransitive, Handled

LEMMA AskAgainIInv ==
    ASSUME IInv, NEW q \in Events, AskAgain(q)
    PROVE  IInv'
<1>1. q \in Queries /\ q \notin Parts
  BY DEF Queries, Events, Parts
<1>2. PICK bad \in SUBSET {q}, refused \in BOOLEAN : client' = Ask(client, q, bad, refused)
  BY DEF AskAgain
<1>3. client' \in Client /\ Loaded(client') /\ Track(client, client')
  BY <1>1, <1>2, AskLoaded DEF IInv, TypeOK
<1>4. Same(client, client') /\ client'.pending = client.pending
  <2>1. client.faults \in Nat /\ client.faults # client.faults + 1
    BY DEF IInv, TypeOK, Client
  <2>2. {q} \ Events = {}
    OBVIOUS
  <2>3. client \in Client
    BY DEF IInv, TypeOK
  <2>4. /\ Same(client, client')
        /\ client'.faults \in {client.faults, client.faults + 1}
        /\ client'.faults = client.faults + 1 => client'.pending = client.pending
        /\ client'.faults = client.faults =>
              client.pending \subseteq client'.pending /\ client'.pending \subseteq client.pending \cup {}
    BY <1>1, <1>2, <2>2, <2>3, AskType
  <2> QED BY <2>1, <2>4
<1>5. Fresh(client')
  BY <1>4 DEF IInv, Fresh, Same
<1>6. Session(client')
  BY <1>3, SessionKept DEF IInv
<1> QED BY <1>3, <1>5, <1>6 DEF AskAgain, Bounded, IInv, TypeOK

LEMMA RestartAgesIInv ==
    ASSUME IInv, RestartAges
    PROVE  IInv'
<1>1. /\ client' \in Client /\ Same(client, client') /\ client'.faults = client.faults
      /\ client'.pending = client.pending /\ client'.broken = client.broken
  BY DEF RestartAges, IInv, TypeOK, Client, Same
<1>2. Track(client, client')
  BY DEF RestartAges, IInv, TypeOK, Client, Track, Fell
<1>3. Loaded(client') /\ Fresh(client')
  BY <1>1 DEF IInv, Loaded, Fresh, Same
<1>4. Session(client')
  BY <1>2, SessionKept DEF IInv
<1> QED BY <1>1, <1>3, <1>4 DEF RestartAges, IInv, TypeOK

LEMMA NextIInv == IInv /\ [Next]_vars => IInv'
<1> SUFFICES ASSUME IInv, [Next]_vars PROVE IInv'
  OBVIOUS
<1>1. CASE \E s \in Servers : NameHeard(s)
  BY <1>1, NameHeardIInv
<1>2. CASE Renew
  BY <1>2, RenewIInv
<1>3. CASE \E q \in Queries \ Events : Answer(q) \/ AnswerEmpty(q) \/ AnswerLost(q)
  BY <1>3, AnswerIInv, AnswerEmptyIInv, AnswerLostIInv
<1>4. CASE \E q \in Events : AskAgain(q)
  BY <1>4, AskAgainIInv
<1>5. CASE RestartAges
  BY <1>5, RestartAgesIInv
<1>6. CASE Crash \/ UNCHANGED vars
  BY <1>6 DEF Crash, vars, IInv, TypeOK
<1> QED BY <1>1, <1>2, <1>3, <1>4, <1>5, <1>6 DEF Next

LEMMA Invariance == Spec => []IInv
<1> QED BY InitIInv, NextIInv, PTL DEF Spec

-----------------------------------------------------------------------------
\* The objects of the client keep their types, and the faults their bound.
THEOREM TypeCorrect == Spec => []TypeOK
<1>1. IInv => TypeOK
  BY DEF IInv
<1> QED BY <1>1, Invariance, PTL

\* ServerFound() runs once, whatever is lost, repeated or late, and however often the
\* receiver is stopped and started again by errors.
THEOREM SingleSession == Spec => []OneSession
<1>1. IInv => OneSession
  BY DEF IInv, Session, OneSession
<1> QED BY <1>1, Invariance, PTL

\* A screen that is disabled waits for a server, unless the receiver went deaf with
\* another server than the session's.
THEOREM DisabledScreenWaits == Spec => []DisabledWaits
<1>1. IInv => DisabledWaits
  BY DEF IInv, Session, DisabledWaits
<1> QED BY <1>1, Invariance, PTL

\* The client keeps its one session and the way back to it.
THEOREM SessionSafeHolds == Spec => []SessionSafe
<1>1. OneSession /\ DisabledWaits => SessionSafe
  BY DEF SessionSafe
<1> QED BY <1>1, SingleSession, DisabledScreenWaits, PTL

\* The interface is created at most once, from all four parts, in whatever order their
\* answers come, and an empty part is one whose query failed.
THEOREM InterfaceComplete == Spec => []CreatedComplete
<1>1. IInv => CreatedComplete
  <2> SUFFICES ASSUME IInv PROVE CreatedComplete
    OBVIOUS
  <2>1. client.created <= 1
    BY DEF IInv, Loaded
  <2>2. ASSUME client.created = 1, NEW q \in Parts
        PROVE  client.data[q] # "none"
    <3>1. client.steps = 1..4
      BY <2>2 DEF IInv, Loaded
    <3> QED BY <3>1, Steps DEF IInv, Loaded
  <2> QED BY <2>1, <2>2 DEF IInv, Loaded, CreatedComplete
<1> QED BY <1>1, Invariance, PTL

\* Buttons come after the screens they are on, and only a screen that came is shown.
THEOREM ScreensBeforeButtons == Spec => []ScreensFirst
<1>1. IInv => ScreensFirst
  BY DEF IInv, Loaded, ScreensFirst, Parts
<1> QED BY <1>1, Invariance, PTL
=============================================================================
