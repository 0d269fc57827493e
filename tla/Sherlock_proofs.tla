-------------------------- MODULE Sherlock_proofs --------------------------
(***************************************************************************)
(* Proofs about Sherlock for any number of sessions.  Every session adds a *)
(* handler, and a line goes through all of them: that this has the effect  *)
(* of one handler (HandledOnce) is proved for the recursive function that  *)
(* defines it, by the least position at which it could differ.  The        *)
(* inductive invariant CalmInv says what is on its way in each state of    *)
(* the machine while the camera answers in time.                           *)
(***************************************************************************)
EXTENDS Sherlock, SequenceTheorems, WellFoundedInduction, TLAPS

-----------------------------------------------------------------------------
(* The handlers *)

\* Every set of naturals that is not empty has a least element.
LEMMA Least ==
    ASSUME NEW T \in SUBSET Nat, T # {}
    PROVE  \E x \in T : \A y \in T : ~(y < x)
<1> DEFINE below == OpToRel(<, Nat)
<1>1. \A x, y \in Nat : y < x => <<y, x>> \in below
  BY DEF OpToRel
<1>2. IsWellFoundedOn(below, Nat)
  BY NatLessThanWellFounded
<1> HIDE DEF below
<1>3. \E x \in T : \A y \in T : ~(<<y, x>> \in below)
  BY <1>2, WFMin
<1>4. QED
  BY <1>1, <1>3

\* The machine and what it has sent, as a handler finds them.
Machines == [at : {"none", "starting", "INIT", "INITOK", "INSPECTING"}, cmds : Seq({"INIT", "EXEC"})]
Machine == [at |-> vision, cmds |-> cmds]

\* What one handler does with a line.
LEMMA HandleCases ==
    ASSUME NEW m \in Machines, NEW l
    PROVE  /\ m.at = "INIT" /\ l = "INITOK"
                => Handle(m, l) = [at |-> "INITOK", cmds |-> Append(m.cmds, "EXEC")]
           /\ m.at = "INITOK" /\ l = "INSPECTING_ON"
                => Handle(m, l) = [at |-> "INSPECTING", cmds |-> m.cmds]
           /\ m.at = "INSPECTING" /\ l \in Ends
                => Handle(m, l) = [at |-> "starting", cmds |-> m.cmds]
           /\ ~ \/ m.at = "INIT" /\ l = "INITOK"
                \/ m.at = "INITOK" /\ l = "INSPECTING_ON"
                \/ m.at = "INSPECTING" /\ l \in Ends
                => Handle(m, l) = m
<1>1. m = [at |-> m.at, cmds |-> m.cmds]
  BY DEF Machines
<1>2. /\ [m EXCEPT !.at = "INSPECTING"] = [at |-> "INSPECTING", cmds |-> m.cmds]
      /\ [m EXCEPT !.at = "starting"] = [at |-> "starting", cmds |-> m.cmds]
  BY <1>1
<1>3. QED
  BY <1>2 DEF Handle

\* A handler leaves the machine in one of its states.
LEMMA HandleType ==
    ASSUME NEW m \in Machines, NEW l PROVE Handle(m, l) \in Machines
<1>1. m.cmds \in Seq({"INIT", "EXEC"}) /\ Append(m.cmds, "EXEC") \in Seq({"INIT", "EXEC"})
  BY AppendProperties DEF Machines
<1>2. QED
  BY <1>1, HandleCases DEF Machines

\* What one handler has done the next one finds done.
LEMMA Twice ==
    ASSUME NEW m \in Machines, NEW l PROVE Handle(Handle(m, l), l) = Handle(m, l)
<1>1. Handle(m, l) \in Machines
  BY HandleType
<1>2. CASE m.at = "INIT" /\ l = "INITOK"
  <2>1. Handle(m, l).at = "INITOK"
    BY <1>2, HandleCases
  <2>2. QED
    BY <1>1, <1>2, <2>1, HandleCases DEF Ends
<1>3. CASE m.at = "INITOK" /\ l = "INSPECTING_ON"
  <2>1. Handle(m, l).at = "INSPECTING"
    BY <1>3, HandleCases
  <2>2. QED
    BY <1>1, <1>3, <2>1, HandleCases DEF Ends
<1>4. CASE m.at = "INSPECTING" /\ l \in Ends
  <2>1. Handle(m, l).at = "starting"
    BY <1>4, HandleCases
  <2>2. QED
    BY <1>1, <1>4, <2>1, HandleCases DEF Ends
<1>5. QED
  BY <1>2, <1>3, <1>4, HandleCases

\* Every handler takes each line, and the line has the effect of one.
LEMMA HandledOnce ==
    ASSUME handlers \in Nat, Machine \in Machines, NEW l
    PROVE  Handled(l) = IF handlers = 0 THEN Machine ELSE Handle(Machine, l)
<1> DEFINE Step(f) == [k \in 0..handlers |-> IF k = 0 THEN [at |-> vision, cmds |-> cmds]
                                                      ELSE Handle(f[k - 1], l)]
           after == CHOOSE f : f = Step(f)
           Once(k) == IF k = 0 THEN Machine ELSE Handle(Machine, l)
           once == [k \in 0..handlers |-> Once(k)]
<1>1. Handled(l) = after[handlers]
  BY Zenon DEF Handled
<1>2. once = Step(once)
  <2>1. ASSUME NEW k \in 0..handlers, k # 0 PROVE Once(k) = Handle(once[k - 1], l)
    <3>1. k - 1 \in 0..handlers
      BY <2>1
    <3>2. once[k - 1] = Once(k - 1)
      BY <3>1
    <3>3. QED
      BY <2>1, <3>2, Twice
  <2>2. Once(0) = [at |-> vision, cmds |-> cmds]
    BY DEF Machine
  <2>3. QED
    BY <2>1, <2>2
<1> HIDE DEF once
<1>3. after = Step(after)
  BY <1>2, Zenon
<1> HIDE DEF after
<1>4. \A k \in 0..handlers : after[k] = IF k = 0 THEN Machine ELSE Handle(after[k - 1], l)
  BY <1>3 DEF Machine
<1> DEFINE wrong == {k \in 0..handlers : after[k] # Once(k)}
<1>5. wrong = {}
  <2> SUFFICES ASSUME wrong # {} PROVE FALSE
    OBVIOUS
  <2>1. wrong \in SUBSET Nat
    OBVIOUS
  <2>2. PICK k \in wrong : \A j \in wrong : ~(j < k)
    BY <2>1, Least
  <2>3. k # 0
    BY <1>4
  <2>4. k - 1 \in 0..handlers /\ k - 1 < k /\ k \in 0..handlers
    BY <2>3
  <2>5. after[k - 1] = Once(k - 1)
    BY <2>2, <2>4
  <2>6. after[k] = Handle(Once(k - 1), l)
    BY <1>4, <2>3, <2>4, <2>5
  <2>7. after[k] = Once(k)
    BY <2>3, <2>6, Twice
  <2>8. QED
    BY <2>7
<1>6. QED
  BY <1>1, <1>5

-----------------------------------------------------------------------------
(* Type correctness *)

\* A line through all handlers has the effect of one.
LEMMA LineTaken ==
    ASSUME TypeOK, lineReceived
    PROVE  /\ lines' = Tail(lines) /\ lines' \in Seq(Lines) /\ Head(lines) \in Lines
           /\ \/ vision' = vision /\ cmds' = cmds
              \/ /\ vision = "INIT" /\ Head(lines) = "INITOK"
                 /\ vision' = "INITOK" /\ cmds' = Append(cmds, "EXEC")
              \/ /\ vision = "INITOK" /\ Head(lines) = "INSPECTING_ON"
                 /\ vision' = "INSPECTING" /\ cmds' = cmds
              \/ /\ vision = "INSPECTING" /\ Head(lines) \in Ends
                 /\ vision' = "starting" /\ cmds' = cmds
<1> DEFINE l == Head(lines)
<1>1. lines' = Tail(lines) /\ lines' \in Seq(Lines) /\ l \in Lines
  BY HeadTailProperties DEF lineReceived, TypeOK
<1>2. handlers \in Nat /\ Machine \in Machines /\ Machine.at = vision /\ Machine.cmds = cmds
  BY DEF TypeOK, Machine, Machines, BoundsAssumption
<1>3. vision' = Handled(l).at /\ cmds' = Handled(l).cmds
  BY DEF lineReceived
<1> HIDE DEF l
<1>4. Handled(l) \in {Machine, Handle(Machine, l)}
  BY <1>2, HandledOnce
<1>5. CASE Handled(l) = Machine
  BY <1>1, <1>2, <1>3, <1>5 DEF l
<1>6. CASE Handled(l) = Handle(Machine, l)
  BY <1>1, <1>2, <1>3, <1>6, HandleCases DEF l
<1>7. QED
  BY <1>4, <1>5, <1>6

\* The variables have their types in every reachable state, the machine exists exactly
\* while the camera is connected, and every line leaves it in one of its states.
THEOREM TypeCorrect == Spec => []TypeOK
<1>1. Init => TypeOK
  <2> SUFFICES ASSUME Init PROVE TypeOK
    OBVIOUS
  <2>1. cmds = <<>> /\ lines = <<>>
    BY DEF Init
  <2>2. cmds \in Seq({"INIT", "EXEC"}) /\ lines \in Seq(Lines) /\ 0 \in 0..MaxSessions
    BY <2>1, EmptySeq, BoundsAssumption
  <2>3. QED
    BY <2>2 DEF Init, TypeOK
<1>2. TypeOK /\ [Next]_vars => TypeOK'
  <2> SUFFICES ASSUME TypeOK, [Next]_vars PROVE TypeOK'
    OBVIOUS
  <2> USE DEF TypeOK
  <2>1. CASE startConnecting
    BY <2>1 DEF startConnecting
  <2>2. CASE ConnectFails
    BY <2>2 DEF ConnectFails
  <2>3. CASE VisuonRun
    <3>1. handlers' \in 0..MaxSessions
      BY <2>3, BoundsAssumption DEF VisuonRun
    <3>2. QED
      BY <2>3, <3>1 DEF VisuonRun
  <2>4. CASE Disconnected
    BY <2>4, EmptySeq DEF Disconnected
  <2>5. CASE Start
    <3>1. cmds' \in Seq({"INIT", "EXEC"})
      BY <2>5, AppendProperties DEF Start
    <3>2. QED
      BY <2>5, <3>1 DEF Start
  <2>6. CASE lineReceived
    <3>1. /\ lines' \in Seq(Lines)
          /\ vision' \in {vision, "INITOK", "INSPECTING", "starting"}
          /\ cmds' \in {cmds, Append(cmds, "EXEC")}
      BY <2>6, LineTaken
    <3>2. cmds' \in Seq({"INIT", "EXEC"})
      BY <3>1, AppendProperties
    <3>3. sock = "on" /\ initTimer' = TRUE
          /\ UNCHANGED <<sock, connectTimer, handlers, camera, slow>>
      BY <2>6 DEF lineReceived
    <3>4. QED
      BY <3>1, <3>2, <3>3
  <2>7. CASE Timeout
    <3>1. cmds' \in Seq({"INIT", "EXEC"})
      BY <2>7, AppendProperties DEF Timeout
    <3>2. QED
      BY <2>7, <3>1 DEF Timeout
  <2>8. CASE CameraObeys \/ CameraRefuses
    <3>1. cmds' \in Seq({"INIT", "EXEC"})
      BY <2>8, HeadTailProperties DEF CameraObeys, CameraRefuses
    <3>2. \E l \in Lines : lines' \in {lines, Append(lines, l)}
      BY <2>8 DEF CameraObeys, CameraRefuses, Lines, Ends
    <3>3. lines' \in Seq(Lines)
      BY <3>2, AppendProperties
    <3>4. QED
      BY <2>8, <3>1, <3>3 DEF CameraObeys, CameraRefuses
  <2>9. CASE CameraReports \/ CameraForgets
    <3>1. lines' = lines \/ \E l \in Lines : lines' = Append(lines, l)
      BY <2>9 DEF CameraReports, CameraForgets, Lines
    <3>2. lines' \in Seq(Lines)
      BY <3>1, AppendProperties
    <3>3. QED
      BY <2>9, <3>2 DEF CameraReports, CameraForgets
  <2>10. CASE UNCHANGED vars
    BY <2>10 DEF vars
  <2>11. QED
    BY <2>1, <2>2, <2>3, <2>4, <2>5, <2>6, <2>7, <2>8, <2>9, <2>10 DEF Next
<1>3. QED
  BY <1>1, <1>2, PTL DEF Spec

-----------------------------------------------------------------------------
(* EXEC *)

\* c is the one command on its way.
Only(c) == Len(cmds) = 1 /\ cmds[1] = c

\* While the camera answers in time: at most one command is on its way, the one sent on
\* entering the machine's state; an INITOK is the last of the lines and finds the machine
\* in INIT and the camera ready; an INSPECTING_ON finds the machine in INITOK.
CalmInv ==
    ~slow =>
        /\ vision \in {"none", "starting", "INSPECTING"} => cmds = <<>>
        /\ vision = "INIT" => cmds = <<>> \/ Only("INIT")
        /\ vision = "INITOK" => cmds = <<>> \/ (Only("EXEC") /\ camera = "ready")
        /\ \A k \in 1..Len(lines) :
              /\ lines[k] = "INITOK" =>
                    k = Len(lines) /\ vision = "INIT" /\ cmds = <<>> /\ camera = "ready"
              /\ lines[k] = "INSPECTING_ON" =>
                    /\ vision = "INITOK" /\ cmds = <<>>
                    /\ \A j \in 1..Len(lines) : lines[j] = "INSPECTING_ON" => j = k

\* A command sent over an empty line is the only one.
LEMMA Sent ==
    ASSUME cmds = <<>>, NEW c, cmds' = Append(cmds, c)
    PROVE  Only(c)'
<1>1. Len(Append(<<>>, c)) = 1 /\ Append(<<>>, c)[1] = c
  OBVIOUS
<1>2. QED
  BY <1>1 DEF Only

\* When the only command is taken, none is left.
LEMMA CommandTaken ==
    ASSUME TypeOK, NEW c, Only(c), cmds' = Tail(cmds)
    PROVE  cmds # <<>> /\ Head(cmds) = c /\ cmds' = <<>>
<1>1. cmds \in Seq({"INIT", "EXEC"}) /\ cmds # <<>> /\ Head(cmds) = c
  BY DEF Only, TypeOK
<1>2. Len(Tail(cmds)) = 0 /\ Tail(cmds) \in Seq({"INIT", "EXEC"})
  BY <1>1, HeadTailProperties DEF Only
<1>3. QED
  BY <1>1, <1>2, EmptySeq

\* Every step keeps what is on its way in step with the machine.
LEMMA CalmStep ==
    ASSUME TypeOK, TypeOK', CalmInv, [Next]_vars PROVE CalmInv'
<1> SUFFICES ASSUME ~slow' PROVE CalmInv'
  BY DEF CalmInv
<1>0. ~slow
  BY DEF Next, vars, startConnecting, ConnectFails, VisuonRun, Disconnected, Start, lineReceived,
         Timeout, CameraObeys, CameraRefuses, CameraReports, CameraForgets
<1> USE <1>0
<1>1. ASSUME UNCHANGED <<vision, cmds, lines, camera, slow>> PROVE CalmInv'
  BY <1>1 DEF CalmInv, Only
<1>2. ASSUME startConnecting \/ ConnectFails \/ UNCHANGED vars PROVE CalmInv'
  BY <1>1, <1>2 DEF startConnecting, ConnectFails, vars
<1>3. CASE VisuonRun
  <2>1. vision = "none" /\ vision' = "starting" /\ UNCHANGED <<cmds, lines, camera>>
    BY <1>3 DEF VisuonRun, TypeOK
  <2>2. QED
    BY <2>1 DEF CalmInv
<1>4. CASE Disconnected
  <2>1. vision' = "none" /\ cmds' = <<>> /\ Len(lines') = 0
    BY <1>4 DEF Disconnected
  <2>2. QED
    BY <2>1 DEF CalmInv
<1>5. CASE Start
  <2>1. /\ vision = "starting" /\ vision' = "INIT" /\ cmds' = Append(cmds, "INIT")
        /\ UNCHANGED <<lines, camera>>
    BY <1>5 DEF Start
  <2>2. /\ cmds = <<>>
        /\ \A k \in 1..Len(lines) : lines[k] # "INITOK" /\ lines[k] # "INSPECTING_ON"
    BY <2>1 DEF CalmInv
  <2>3. Only("INIT")'
    BY <2>1, <2>2, Sent
  <2>4. QED
    BY <2>1, <2>2, <2>3 DEF CalmInv
<1>6. CASE lineReceived
  <2>1. UNCHANGED camera /\ lines # <<>> /\ lines \in Seq(Lines)
    BY <1>6 DEF lineReceived, TypeOK
  <2>2. /\ Len(lines') = Len(lines) - 1 /\ Len(lines) \in Nat /\ Len(lines) >= 1
        /\ \A k \in 1..Len(lines') : k + 1 \in 1..Len(lines) /\ lines'[k] = lines[k + 1]
        /\ 1 \in 1..Len(lines) /\ Head(lines) = lines[1]
    <3>1. lines' = Tail(lines)
      BY <1>6, LineTaken
    <3>2. /\ Len(lines') = Len(lines) - 1 /\ Len(lines) \in Nat /\ Len(lines) >= 1
          /\ \A k \in 1..Len(lines') : lines'[k] = lines[k + 1]
          /\ Head(lines) = lines[1]
      BY <2>1, <3>1, HeadTailProperties, EmptySeq
    <3>3. QED
      BY <3>2
  <2>3. CASE vision' = vision /\ cmds' = cmds
    <3>1. ASSUME NEW k \in 1..Len(lines')
          PROVE  /\ lines'[k] = "INITOK" =>
                        k = Len(lines') /\ vision' = "INIT" /\ cmds' = <<>> /\ camera' = "ready"
                 /\ lines'[k] = "INSPECTING_ON" =>
                        /\ vision' = "INITOK" /\ cmds' = <<>>
                        /\ \A j \in 1..Len(lines') : lines'[j] = "INSPECTING_ON" => j = k
      <4>1. k + 1 \in 1..Len(lines) /\ lines'[k] = lines[k + 1]
        BY <2>2
      <4>2. CASE lines'[k] = "INITOK"
        BY <2>1, <2>2, <2>3, <4>1, <4>2 DEF CalmInv
      <4>3. CASE lines'[k] = "INSPECTING_ON"
        <5>1. \A j \in 1..Len(lines') : lines'[j] = "INSPECTING_ON" => j + 1 = k + 1
          BY <2>2, <4>1, <4>3 DEF CalmInv
        <5>2. \A j \in 1..Len(lines') : j + 1 = k + 1 => j = k
          OBVIOUS
        <5>3. QED
          BY <2>3, <4>1, <4>3, <5>1, <5>2 DEF CalmInv
      <4>4. QED
        BY <4>2, <4>3
    <3>2. QED
      BY <2>1, <2>3, <3>1 DEF CalmInv, Only
  <2>4. CASE /\ vision = "INIT" /\ Head(lines) = "INITOK"
             /\ vision' = "INITOK" /\ cmds' = Append(cmds, "EXEC")
    <3>1. 1 = Len(lines) /\ cmds = <<>> /\ camera = "ready"
      BY <2>2, <2>4 DEF CalmInv
    <3>2. cmds' = Append(cmds, "EXEC")
      BY <2>4
    <3>3. Only("EXEC")'
      BY <3>1, <3>2, Sent
    <3>4. Len(lines') = 0
      <4>1. Len(lines') = Len(lines) - 1 /\ Len(lines) = 1
        BY <2>2, <3>1
      <4>2. QED
        BY <4>1
    <3>5. QED
      BY <2>1, <2>4, <3>1, <3>3, <3>4 DEF CalmInv
  <2>5. CASE /\ vision = "INITOK" /\ Head(lines) = "INSPECTING_ON"
             /\ vision' = "INSPECTING" /\ cmds' = cmds
    <3>1. cmds = <<>> /\ \A j \in 1..Len(lines) : lines[j] = "INSPECTING_ON" => j = 1
      BY <2>2, <2>5 DEF CalmInv
    <3>2. ASSUME NEW k \in 1..Len(lines') PROVE lines'[k] # "INITOK" /\ lines'[k] # "INSPECTING_ON"
      <4>1. k + 1 \in 1..Len(lines) /\ lines'[k] = lines[k + 1] /\ k + 1 # 1
        BY <2>2
      <4>2. QED
        BY <2>5, <3>1, <4>1 DEF CalmInv
    <3>3. QED
      BY <2>5, <3>1, <3>2 DEF CalmInv
  <2>6. CASE /\ vision = "INSPECTING" /\ Head(lines) \in Ends
             /\ vision' = "starting" /\ cmds' = cmds
    <3>1. cmds = <<>>
      BY <2>6 DEF CalmInv
    <3>2. ASSUME NEW k \in 1..Len(lines') PROVE lines'[k] # "INITOK" /\ lines'[k] # "INSPECTING_ON"
      BY <2>2, <2>6 DEF CalmInv
    <3>3. QED
      BY <2>6, <3>1, <3>2 DEF CalmInv
  <2>7. QED
    BY <1>6, <2>3, <2>4, <2>5, <2>6, LineTaken
<1>7. CASE Timeout
  <2>1. /\ cmds = <<>> /\ lines = <<>> /\ vision' = "INIT" /\ cmds' = Append(cmds, "INIT")
        /\ lines' = lines
    BY <1>7 DEF Timeout
  <2>2. Only("INIT")' /\ Len(lines') = 0
    BY <2>1, Sent
  <2>3. QED
    BY <2>1, <2>2 DEF CalmInv
<1>8. ASSUME cmds # <<>>
      PROVE  /\ (vision = "INIT" /\ Only("INIT")) \/ (vision = "INITOK" /\ Only("EXEC"))
             /\ \A k \in 1..Len(lines) : lines[k] # "INITOK" /\ lines[k] # "INSPECTING_ON"
  BY <1>8 DEF CalmInv, TypeOK
<1>9. ASSUME NEW l \in Lines, lines' = Append(lines, l),
             \A k \in 1..Len(lines) : lines[k] # "INITOK" /\ lines[k] # "INSPECTING_ON"
      PROVE  \A k \in 1..Len(lines') : /\ k # Len(lines') => lines'[k] # "INITOK" /\ lines'[k] # "INSPECTING_ON"
                                       /\ k = Len(lines') => lines'[k] = l
  <2>1. /\ Len(lines') = Len(lines) + 1 /\ Len(lines) \in Nat
        /\ \A k \in 1..Len(lines) : lines'[k] = lines[k]
        /\ lines'[Len(lines) + 1] = l
    BY <1>9, AppendProperties, LenProperties DEF TypeOK
  <2>2. \A k \in 1..Len(lines') : k \in 1..Len(lines) \/ k = Len(lines')
    BY <2>1
  <2>3. QED
    BY <1>9, <2>1, <2>2
<1>10. CASE CameraObeys
  <2>1. cmds # <<>> /\ cmds' = Tail(cmds) /\ vision' = vision
    BY <1>10 DEF CameraObeys
  <2>2. CASE vision = "INIT" /\ Only("INIT")
    <3>1. Head(cmds) = "INIT" /\ cmds' = <<>>
      BY <2>1, <2>2, CommandTaken
    <3>2. camera' = "ready" /\ lines' = Append(lines, "INITOK") /\ "INITOK" \in Lines
      BY <1>10, <3>1 DEF CameraObeys, Lines
    <3>3. QED
      BY <1>8, <1>9, <2>1, <2>2, <3>1, <3>2 DEF CalmInv
  <2>3. CASE vision = "INITOK" /\ Only("EXEC")
    <3>1. Head(cmds) = "EXEC" /\ cmds' = <<>>
      BY <2>1, <2>3, CommandTaken
    <3>2. lines' = Append(lines, "INSPECTING_ON") /\ "INSPECTING_ON" \in Lines
      BY <1>10, <3>1 DEF CameraObeys, Lines
    <3>3. QED
      BY <1>8, <1>9, <2>1, <2>3, <3>1, <3>2 DEF CalmInv
  <2>4. QED
    BY <1>8, <2>1, <2>2, <2>3
<1>11. CASE CameraRefuses
  <2>1. /\ cmds # <<>> /\ cmds' = Tail(cmds) /\ vision' = vision
        /\ lines' \in {lines, Append(lines, "ER")} /\ "ER" \in Lines
    BY <1>11 DEF CameraRefuses, Lines, Ends
  <2>2. cmds' = <<>> /\ vision \in {"INIT", "INITOK"}
    BY <1>8, <2>1, CommandTaken
  <2>3. \A k \in 1..Len(lines') : lines'[k] # "INITOK" /\ lines'[k] # "INSPECTING_ON"
    <3>1. CASE lines' = lines
      BY <1>8, <2>1, <3>1
    <3>2. CASE lines' = Append(lines, "ER")
      BY <1>8, <1>9, <2>1, <3>2
    <3>3. QED
      BY <2>1, <3>1, <3>2
  <2>4. QED
    BY <2>1, <2>2, <2>3 DEF CalmInv
<1>12. CASE CameraReports \/ CameraForgets
  <2>1. /\ camera = "inspecting" /\ UNCHANGED <<vision, cmds>>
        /\ lines' = lines \/ \E l \in Ends : lines' = Append(lines, l)
    BY <1>12 DEF CameraReports, CameraForgets
  <2>2. \A k \in 1..Len(lines) : lines[k] # "INITOK"
    BY <2>1 DEF CalmInv
  <2>3. CASE lines' = lines
    BY <2>1, <2>2, <2>3 DEF CalmInv, Only
  <2>4. ASSUME NEW l \in Ends, lines' = Append(lines, l) PROVE CalmInv'
    <3>1. /\ Len(lines') = Len(lines) + 1 /\ Len(lines) \in Nat
          /\ \A k \in 1..Len(lines) : lines'[k] = lines[k]
          /\ lines'[Len(lines) + 1] = l
      BY <2>4, AppendProperties, LenProperties DEF TypeOK, Lines
    <3>2. \A k \in 1..Len(lines') : k \in 1..Len(lines) \/ k = Len(lines) + 1
      BY <3>1
    <3>3. l # "INITOK" /\ l # "INSPECTING_ON"
      BY <2>4 DEF Ends
    <3>4. \A k \in 1..Len(lines') :
              /\ lines'[k] # "INITOK"
              /\ lines'[k] = "INSPECTING_ON" => k \in 1..Len(lines) /\ lines[k] = "INSPECTING_ON"
      BY <2>2, <3>1, <3>2, <3>3
    <3>5. QED
      BY <2>1, <3>4 DEF CalmInv, Only
  <2>5. QED
    BY <2>1, <2>3, <2>4
<1>13. QED
  BY <1>2, <1>3, <1>4, <1>5, <1>6, <1>7, <1>10, <1>11, <1>12 DEF Next

\* However many handlers take each line, a camera that answers in time is given EXEC
\* only when it is ready.
THEOREM ExecWhenReadyHolds == Spec => []ExecWhenReady
<1>1. Init => CalmInv
  BY DEF Init, CalmInv
<1>2. TypeOK /\ TypeOK' /\ CalmInv /\ [Next]_vars => CalmInv'
  BY CalmStep
<1>3. TypeOK /\ CalmInv => ExecWhenReady
  BY DEF CalmInv, Only, ExecWhenReady, TypeOK
<1>4. QED
  BY <1>1, <1>2, <1>3, TypeCorrect, PTL DEF Spec
=============================================================================
