-------------------------- MODULE SingleApp_proofs --------------------------
(***************************************************************************)
(* Proofs about SingleApp for any number of processes.  The semaphore is a  *)
(* lock of the first part of isRunning() (LockInv); beyond it the argument  *)
(* is about who has stored its pid: only a process that has can be named    *)
(* by the segment, be read by another, or be killed (StoredInv).  That one *)
(* instance remains needs both, and where the record of it is while starts  *)
(* do not overlap (OneInv).                                                 *)
(***************************************************************************)
EXTENDS MCSingleApp, TLAPS

\* Processes that hold the semaphore.
Holder(p) == pc[p] \in {"inside", "creating"}

\* One process at a time holds the semaphore, and its count is then 0.
LockInv ==
    /\ \A p \in Procs : Holder(p) => sema = 0
    /\ \A p, q \in Procs : Holder(p) /\ Holder(q) => p = q
    /\ CreateSucceeds

\* Processes that stored their pid in the segment, then or earlier.
Stored(p) == pc[p] \in {"killing", "running", "ended"}

StoredInv ==
    /\ Attached # {} => shm # NoProc
    /\ shm # NoProc => Stored(shm)
    /\ \A v \in kills : Stored(v)
    /\ \A p \in Procs : pid[p] # NoProc => Stored(pid[p])
    /\ \A p \in Procs : pc[p] \in {"deciding", "killing"} => pid[p] # NoProc
    /\ \A p \in Procs : pc[p] = "killing" => pid[p] # shm
    /\ NewestSurvives

-----------------------------------------------------------------------------
(* Type correctness and the ownership of the segment, which the types of kills need *)

\* The initial state has the types and satisfies both parts.
LEMMA InitHolds == Init => TypeOK /\ LockInv /\ StoredInv
<1> SUFFICES ASSUME Init PROVE TypeOK /\ LockInv /\ StoredInv
  OBVIOUS
<1>1. TypeOK
  BY DEF Init, TypeOK, Places
<1>2. LockInv /\ StoredInv
  BY DEF Init, LockInv, StoredInv, Holder, Stored, CreateSucceeds, NewestSurvives, Attached
<1>3. QED
  BY <1>1, <1>2

\* Where a process goes, the others stay.
LEMMA GotoFrame ==
    ASSUME TypeOK, NEW p \in Procs, NEW place \in Places, Goto(p, place)
    PROVE  /\ pc' \in [Procs -> Places]
           /\ pc'[p] = place
           /\ \A q \in Procs : q # p => pc'[q] = pc[q]
  BY DEF Goto, TypeOK

\* Every step keeps the types, given that a killer has read a pid.
LEMMA TypeStep ==
    ASSUME TypeOK, StoredInv, [Next]_vars PROVE TypeOK'
<1> USE ProcsAssumption DEF TypeOK, Places
<1>1. CASE UNCHANGED vars
  BY <1>1 DEF vars
<1>2. ASSUME NEW p \in Procs, NEW force \in BOOLEAN, Start(p, force) PROVE TypeOK'
  BY <1>2 DEF Start, Goto
<1>3. ASSUME NEW p \in Procs, Enter(p) PROVE TypeOK'
  BY <1>3 DEF Enter, Acquire, Attach, AttachFails, Create, Goto
<1>4. ASSUME NEW p \in Procs, Decline(p) \/ TakeOver(p) \/ Taskkill(p) PROVE TypeOK'
  BY <1>4 DEF Decline, TakeOver, Taskkill, Goto, StoredInv
<1>5. ASSUME NEW p \in Procs, KillArrives(p) \/ Ends(p) PROVE TypeOK'
  BY <1>5 DEF KillArrives, Ends, End, Goto
<1>6. QED
  BY <1>1, <1>2, <1>3, <1>4, <1>5 DEF Next, Enter

\* Every step keeps the semaphore a lock.
LEMMA LockStep ==
    ASSUME TypeOK, LockInv, [Next]_vars PROVE LockInv'
<1> USE DEF LockInv, Holder, CreateSucceeds, TypeOK
<1>1. CASE UNCHANGED vars
  BY <1>1 DEF vars, Attached
<1>2. ASSUME NEW p \in Procs, NEW force \in BOOLEAN, Start(p, force) PROVE LockInv'
  <2>1. pc[p] = "off" /\ pc' = [pc EXCEPT ![p] = "waiting"]
    BY <1>2 DEF Start, Goto
  <2>2. Attached' = Attached
    BY <2>1 DEF Attached
  <2>3. \A q \in Procs : Holder(q) => q \in Openers
    BY DEF Openers
  <2>4. \A q \in Procs : Holder(q)' => Holder(q) /\ sema' = sema
    BY <1>2, <2>1, <2>3 DEF Start
  <2>5. QED
    BY <2>1, <2>2, <2>4
<1>3. ASSUME NEW p \in Procs, Acquire(p) PROVE LockInv'
  <2>1. /\ pc[p] = "waiting" /\ pc' = [pc EXCEPT ![p] = "inside"]
        /\ sema = 1 /\ sema' = 0
    BY <1>3 DEF Acquire, Goto
  <2>2. \A q \in Procs : ~Holder(q)
    BY <2>1
  <2>3. \A q \in Procs : Holder(q)' => q = p
    BY <2>1, <2>2
  <2>4. QED
    BY <2>1, <2>2, <2>3
<1>4. ASSUME NEW p \in Procs, Attach(p) PROVE LockInv'
  <2>1. /\ pc[p] = "inside" /\ pc' = [pc EXCEPT ![p] = "deciding"]
        /\ sema' = sema
    BY <1>4 DEF Attach, Goto
  <2>2. \A q \in Procs : ~Holder(q)'
    BY <2>1
  <2>3. QED
    BY <2>2
<1>5. ASSUME NEW p \in Procs, AttachFails(p) PROVE LockInv'
  <2>1. /\ pc[p] = "inside" /\ pc' = [pc EXCEPT ![p] = "creating"]
        /\ sema' = sema /\ Attached = {}
    BY <1>5 DEF AttachFails, Goto
  <2>2. Attached' = {}
    BY <2>1 DEF Attached
  <2>3. \A q \in Procs : Holder(q)' => Holder(q)
    BY <2>1
  <2>4. QED
    BY <2>1, <2>2, <2>3
<1>6. ASSUME NEW p \in Procs, Create(p) PROVE LockInv'
  <2>1. pc[p] = "creating" /\ pc' = [pc EXCEPT ![p] = "running"]
    BY <1>6 DEF Create, Goto
  <2>2. \A q \in Procs : ~Holder(q)'
    BY <2>1
  <2>3. QED
    BY <2>2
<1>7. ASSUME NEW p \in Procs, NEW place \in {"killing", "running", "ended"},
             pc[p] \notin {"off", "waiting", "inside", "creating"} \/ place = "ended",
             Goto(p, place), sema' = sema, p \in Alive
      PROVE  LockInv'
  <2>1. pc' = [pc EXCEPT ![p] = place]
    BY <1>7 DEF Goto
  <2>2. \A q \in Procs : Holder(q)' => Holder(q) /\ pc'[q] = pc[q]
    BY <2>1
  <2>3. Attached' \subseteq Attached
    BY <1>7, <2>1 DEF Attached, Alive, Openers
  <2>4. QED
    BY <1>7, <2>2, <2>3
<1>8. ASSUME NEW p \in Procs, Decline(p) \/ TakeOver(p) \/ Taskkill(p) PROVE LockInv'
  <2>1. p \in Alive /\ sema' = sema
    BY <1>8 DEF Decline, TakeOver, Taskkill, Alive, Attached
  <2>2. CASE Decline(p)
    BY <1>7, <2>1, <2>2 DEF Decline
  <2>3. CASE TakeOver(p)
    BY <1>7, <2>1, <2>3 DEF TakeOver
  <2>4. CASE Taskkill(p)
    BY <1>7, <2>1, <2>4 DEF Taskkill
  <2>5. QED
    BY <1>8, <2>2, <2>3, <2>4
<1>9. ASSUME NEW p \in Procs, KillArrives(p) \/ Ends(p) PROVE LockInv'
  <2>1. CASE End(p)
    BY <1>7, <1>9, <2>1 DEF End, KillArrives, Ends
  <2>2. CASE UNCHANGED <<pc, sema>>
    BY <2>2 DEF Attached
  <2>3. QED
    BY <1>9, <2>1, <2>2 DEF KillArrives, Ends
<1>10. QED
  BY <1>1, <1>2, <1>3, <1>4, <1>5, <1>6, <1>8, <1>9 DEF Next

\* Every step keeps the segment, the pids read and the kills among the processes
\* that stored their pid, and the newest of these out of the kills.
LEMMA StoredStep ==
    ASSUME TypeOK, TypeOK', StoredInv, [Next]_vars PROVE StoredInv'
<1> USE ProcsAssumption DEF StoredInv, Stored, NewestSurvives, TypeOK
<1>1. CASE UNCHANGED vars
  BY <1>1 DEF vars, Attached
<1>2. ASSUME NEW p \in Procs, NEW force \in BOOLEAN, Start(p, force) PROVE StoredInv'
  <2>1. /\ pc[p] = "off" /\ pc' = [pc EXCEPT ![p] = "waiting"]
        /\ UNCHANGED <<shm, pid, kills>>
    BY <1>2 DEF Start, Goto
  <2>2. Attached' = Attached
    BY <2>1 DEF Attached
  <2>3. QED
    BY <2>1, <2>2
<1>3. ASSUME NEW p \in Procs, Acquire(p) \/ AttachFails(p) PROVE StoredInv'
  <2>1. /\ pc[p] \in {"waiting", "inside"}
        /\ pc' = [pc EXCEPT ![p] = pc'[p]] /\ pc'[p] \in {"inside", "creating"}
        /\ UNCHANGED <<shm, pid, kills>>
    BY <1>3 DEF Acquire, AttachFails, Goto
  <2>2. Attached' = Attached
    BY <2>1 DEF Attached
  <2>3. QED
    BY <2>1, <2>2
<1>4. ASSUME NEW p \in Procs, Attach(p) PROVE StoredInv'
  <2>1. /\ pc[p] = "inside" /\ pc' = [pc EXCEPT ![p] = "deciding"]
        /\ pid' = [pid EXCEPT ![p] = shm] /\ shm # NoProc
        /\ UNCHANGED <<shm, kills>>
    BY <1>4 DEF Attach, Goto
  <2>2. \A q \in Procs : Stored(q)' = Stored(q)
    BY <2>1
  <2>3. QED
    BY <2>1, <2>2
<1>5. ASSUME NEW p \in Procs, Create(p) PROVE StoredInv'
  <2>1. /\ pc[p] = "creating" /\ pc' = [pc EXCEPT ![p] = "running"]
        /\ shm' = p /\ UNCHANGED <<pid, kills>>
    BY <1>5 DEF Create, Goto
  <2>2. \A q \in Procs : Stored(q) => Stored(q)' /\ q # p
    BY <2>1
  <2>3. QED
    BY <2>1, <2>2
<1>6. ASSUME NEW p \in Procs, TakeOver(p) PROVE StoredInv'
  <2>1. /\ pc[p] = "deciding" /\ pc' = [pc EXCEPT ![p] = "killing"]
        /\ shm' = p /\ UNCHANGED <<pid, kills>>
    BY <1>6 DEF TakeOver, Goto
  <2>2. \A q \in Procs : Stored(q) => Stored(q)' /\ q # p
    BY <2>1
  <2>3. QED
    BY <2>1, <2>2
<1>7. ASSUME NEW p \in Procs, Taskkill(p) PROVE StoredInv'
  <2>1. /\ pc[p] = "killing" /\ pc' = [pc EXCEPT ![p] = "running"]
        /\ kills' = kills \cup {pid[p]} /\ UNCHANGED <<shm, pid>>
    BY <1>7 DEF Taskkill, Goto
  <2>2. \A q \in Procs : Stored(q)' = Stored(q)
    BY <2>1
  <2>3. Attached' = Attached
    BY <2>1 DEF Attached
  <2>4. QED
    BY <2>1, <2>2, <2>3
<1>8. ASSUME NEW p \in Procs, pc' = [pc EXCEPT ![p] = "ended"],
             shm' = IF Attached \subseteq {p} THEN NoProc ELSE shm,
             UNCHANGED pid, kills' \subseteq kills
      PROVE  StoredInv'
  <2>1. \A q \in Procs : Stored(q) => Stored(q)'
    BY <1>8
  <2>2. Attached' = Attached \ {p}
    BY <1>8 DEF Attached
  <2>3. Attached' # {} => shm' # NoProc
    BY <1>8, <2>2
  <2>4. NoProc \notin kills'
    BY <1>8
  <2>5. QED
    BY <1>8, <2>1, <2>3, <2>4
<1>9. ASSUME NEW p \in Procs, Decline(p) PROVE StoredInv'
  <2>1. p \in Attached
    BY <1>9 DEF Decline, Attached
  <2>2. Attached \subseteq {p} <=> Attached = {p}
    BY <2>1
  <2>3. QED
    BY <1>8, <1>9, <2>2 DEF Decline, Goto
<1>10. ASSUME NEW p \in Procs, KillArrives(p) \/ Ends(p) PROVE StoredInv'
  <2>1. kills' \subseteq kills /\ UNCHANGED pid
    BY <1>10 DEF KillArrives, Ends
  <2>2. CASE End(p)
    BY <1>8, <2>1, <2>2 DEF End, Goto
  <2>3. CASE UNCHANGED <<pc, shm>>
    BY <2>1, <2>3 DEF Attached
  <2>4. QED
    BY <1>10, <2>2, <2>3 DEF KillArrives, Ends
<1>11. QED
  BY <1>1, <1>2, <1>3, <1>4, <1>5, <1>6, <1>7, <1>9, <1>10 DEF Next

\* Types and ownership of the segment are invariant together.
LEMMA StoredInvHolds == Spec => [](TypeOK /\ StoredInv)
<1>1. TypeOK /\ StoredInv /\ [Next]_vars => (TypeOK /\ StoredInv)'
  BY TypeStep, StoredStep
<1>2. QED
  BY <1>1, InitHolds, PTL DEF Spec

\* The variables have their types in every reachable state.
THEOREM TypeCorrect == Spec => []TypeOK
  BY StoredInvHolds, PTL

-----------------------------------------------------------------------------
(* Safety *)

\* The semaphore is a lock in every reachable state.
LEMMA LockInvHolds == Spec => []LockInv
<1>1. TypeOK /\ LockInv /\ [Next]_vars => LockInv'
  BY LockStep
<1>2. QED
  BY <1>1, InitHolds, TypeCorrect, PTL DEF Spec

\* A process that creates the segment finds none.
THEOREM CreateSucceedsHolds == Spec => []CreateSucceeds
<1>1. LockInv => CreateSucceeds
  BY DEF LockInv
<1>2. QED
  BY <1>1, LockInvHolds, PTL

\* The newest instance is never the one to be killed.
THEOREM NewestSurvivesHolds == Spec => []NewestSurvives
<1>1. StoredInv => NewestSurvives
  BY DEF StoredInv
<1>2. QED
  BY <1>1, StoredInvHolds, PTL

-----------------------------------------------------------------------------
(* One instance *)

\* As long as starts have not overlapped, an instance that nobody is about to kill is
\* recorded: by the segment, or by the one process that has replaced the record and
\* not yet killed.
OneInv ==
    ~overlap =>
        /\ ~Overlapping
        /\ \A p \in Procs : pc[p] = "deciding" => pid[p] = shm
        /\ \A p \in Procs : pc[p] = "killing" => shm = p /\ Running \ kills \subseteq {pid[p]}
        /\ (\A p \in Procs : pc[p] # "killing") => Running \ kills \subseteq {shm}

\* The history only watches: a behaviour with it is one of the guard.
LEMMA HistoryWatches == MCSpec => Spec
<1>1. MCInit => Init
  BY DEF MCInit
<1>2. [MCNext]_mcVars => [Next]_vars
  BY DEF MCNext, mcVars
<1>3. QED
  BY <1>1, <1>2, PTL DEF MCSpec, Spec

\* Where the process p has gone, and nothing else about who decides or runs has changed.
LEMMA Moved ==
    ASSUME TypeOK, NEW p \in Procs, NEW place \in Places, pc' = [pc EXCEPT ![p] = place]
    PROVE  /\ pc'[p] = place
           /\ \A q \in Procs : q # p => pc'[q] = pc[q]
           /\ \A q \in Procs : q # p => (q \in Running' <=> q \in Running)
           /\ \A q \in Procs : q # p => (q \in Deciders' <=> q \in Deciders)
           /\ p \in Running' <=> place = "running"
           /\ p \in Deciders' <=> place \in {"deciding", "killing"}
           /\ Running' \subseteq Procs /\ Deciders' \subseteq Procs
  BY DEF TypeOK, Running, Deciders

\* A process that ends leaves the record of the others as it was.
LEMMA OneAfterEnd ==
    ASSUME TypeOK, OneInv, ~overlap, NEW p \in Procs, pc[p] # "killing",
           pc' = [pc EXCEPT ![p] = "ended"],
           shm' = IF Attached \subseteq {p} THEN NoProc ELSE shm,
           UNCHANGED pid, kills' \in {kills, kills \ {p}}
    PROVE  OneInv'
<1> USE DEF Places
<1>1. /\ pc'[p] = "ended" /\ p \notin Running'
      /\ \A q \in Procs : q # p => pc'[q] = pc[q]
      /\ \A q \in Procs : q # p => (q \in Running' <=> q \in Running)
      /\ \A q \in Procs : q # p => (q \in Deciders' <=> q \in Deciders)
      /\ p \notin Deciders' /\ Running' \subseteq Procs /\ Deciders' \subseteq Procs
  BY Moved
<1>2. ~Overlapping'
  BY <1>1 DEF OneInv, Overlapping, Deciders
<1>3. Running' \ kills' \subseteq Running \ kills
  BY <1>1
<1>4. ASSUME NEW q \in Procs, q # p, pc[q] \in {"deciding", "killing", "running"}
      PROVE  shm' = shm
  BY <1>4 DEF Attached
<1>5. \A q \in Procs : pc'[q] = "deciding" => pid'[q] = shm'
  BY <1>1, <1>4 DEF OneInv
<1>6. ASSUME NEW q \in Procs, pc'[q] = "killing"
      PROVE  shm' = q /\ Running' \ kills' \subseteq {pid'[q]}
  <2>1. q # p /\ pc[q] = "killing"
    BY <1>1, <1>6
  <2>2. QED
    BY <1>3, <1>4, <2>1 DEF OneInv
<1>7. ASSUME \A q \in Procs : pc'[q] # "killing" PROVE Running' \ kills' \subseteq {shm'}
  <2>1. \A q \in Procs : pc[q] # "killing"
    BY <1>1, <1>7
  <2>2. Running \ kills \subseteq {shm}
    BY <2>1 DEF OneInv
  <2>3. ASSUME NEW q \in Running' \ kills' PROVE q = shm'
    <3>1. q \in Procs /\ q # p /\ q \in Running
      BY <1>1
    <3>2. shm' = shm
      BY <1>4, <3>1 DEF Running
    <3>3. QED
      BY <1>3, <2>2, <3>2
  <2>4. QED
    BY <2>3
<1>8. QED
  BY <1>2, <1>5, <1>6, <1>7 DEF OneInv

\* Every step keeps the record, unless it is the overlap itself.
LEMMA OneStep ==
    ASSUME TypeOK, LockInv, StoredInv, OneInv, [MCNext]_mcVars PROVE OneInv'
<1> USE DEF Places
<1>1. CASE UNCHANGED mcVars
  BY <1>1 DEF mcVars, vars, OneInv, Overlapping, Deciders, Running
<1>2. CASE overlap'
  BY <1>2 DEF OneInv
<1>3. ASSUME MCNext, ~overlap' PROVE OneInv'
  <2>1. /\ ~overlap /\ ~Overlapping'
        /\ \A p \in Procs : pc[p] = "killing" => pc'[p] # "ended"
    BY <1>3 DEF MCNext
  <2>2. ASSUME NEW p \in Procs, NEW place \in {"waiting", "inside", "creating"},
               pc[p] \in {"off", "waiting", "inside"},
               pc' = [pc EXCEPT ![p] = place], UNCHANGED <<shm, pid, kills>>
        PROVE  OneInv'
    <3>1. \A q \in Procs : pc'[q] \in {"deciding", "killing", "running"} \/
                            pc[q] \in {"deciding", "killing", "running"} => pc'[q] = pc[q]
      BY <2>2 DEF TypeOK
    <3>2. Running' = Running
      BY <3>1 DEF Running
    <3>3. QED
      BY <2>1, <2>2, <3>1, <3>2 DEF OneInv
  <2>3. ASSUME NEW p \in Procs, NEW force \in BOOLEAN, Start(p, force) PROVE OneInv'
    BY <2>2, <2>3 DEF Start, Goto
  <2>4. ASSUME NEW p \in Procs, Acquire(p) PROVE OneInv'
    BY <2>2, <2>4 DEF Acquire, Goto
  <2>5. ASSUME NEW p \in Procs, AttachFails(p) PROVE OneInv'
    BY <2>2, <2>5 DEF AttachFails, Goto
  <2>6. ASSUME NEW p \in Procs, Attach(p) PROVE OneInv'
    <3>1. /\ pc[p] = "inside" /\ pc' = [pc EXCEPT ![p] = "deciding"]
          /\ pid' = [pid EXCEPT ![p] = shm] /\ UNCHANGED <<shm, kills>>
      BY <2>6 DEF Attach, Goto
    <3>2. /\ \A q \in Procs : q # p => pc'[q] = pc[q] /\ pid'[q] = pid[q]
          /\ pc'[p] = "deciding" /\ pid'[p] = shm
      BY <3>1 DEF TypeOK
    <3>3. Running' = Running
      BY <3>1, <3>2 DEF Running
    <3>4. QED
      BY <2>1, <3>1, <3>2, <3>3 DEF OneInv
  <2>7. ASSUME NEW p \in Procs, Create(p) PROVE OneInv'
    <3>1. /\ pc[p] = "creating" /\ pc' = [pc EXCEPT ![p] = "running"]
          /\ shm' = p /\ UNCHANGED <<pid, kills>>
      BY <2>7 DEF Create, Goto
    <3>2. Attached = {}
      BY <3>1 DEF LockInv, CreateSucceeds
    <3>3. \A q \in Procs : pc[q] \notin {"deciding", "killing", "running"}
      BY <3>2 DEF Attached
    <3>4. /\ \A q \in Procs : pc'[q] \notin {"deciding", "killing"}
          /\ \A q \in Procs : pc'[q] = "running" => q = p
      BY <3>1, <3>3 DEF TypeOK
    <3>5. Running' \subseteq {p}
      BY <3>4 DEF Running
    <3>6. QED
      BY <2>1, <3>1, <3>4, <3>5 DEF OneInv
  <2>8. ASSUME NEW p \in Procs, TakeOver(p) PROVE OneInv'
    <3>1. /\ pc[p] = "deciding" /\ pc' = [pc EXCEPT ![p] = "killing"]
          /\ shm' = p /\ UNCHANGED <<pid, kills>>
      BY <2>8 DEF TakeOver, Goto
    <3>2. pid[p] = shm
      BY <2>1, <3>1 DEF OneInv
    <3>3. \A q \in Procs : q # p => pc[q] \notin {"deciding", "killing"}
      BY <2>1, <3>1 DEF OneInv, Overlapping, Deciders
    <3>4. Running \ kills \subseteq {shm}
      BY <2>1, <3>1, <3>3 DEF OneInv
    <3>5. /\ pc'[p] = "killing"
          /\ \A q \in Procs : q # p => pc'[q] = pc[q]
      BY <3>1 DEF TypeOK
    <3>6. Running' = Running
      BY <3>1, <3>5 DEF Running
    <3>7. QED
      BY <2>1, <3>1, <3>2, <3>3, <3>4, <3>5, <3>6 DEF OneInv
  <2>9. ASSUME NEW p \in Procs, Taskkill(p) PROVE OneInv'
    <3>1. /\ pc[p] = "killing" /\ pc' = [pc EXCEPT ![p] = "running"]
          /\ kills' = kills \cup {pid[p]} /\ UNCHANGED <<shm, pid>>
      BY <2>9 DEF Taskkill, Goto
    <3>2. shm = p /\ Running \ kills \subseteq {pid[p]}
      BY <2>1, <3>1 DEF OneInv
    <3>3. \A q \in Procs : q # p => pc[q] \notin {"deciding", "killing"}
      BY <2>1, <3>1 DEF OneInv, Overlapping, Deciders
    <3>4. /\ pc'[p] = "running"
          /\ \A q \in Procs : q # p => pc'[q] = pc[q]
      BY <3>1 DEF TypeOK
    <3>5. Running' \subseteq Running \cup {p}
      BY <3>4 DEF Running
    <3>6. Running' \ kills' \subseteq {p}
      BY <3>1, <3>2, <3>5
    <3>7. QED
      BY <2>1, <3>1, <3>2, <3>3, <3>4, <3>6 DEF OneInv
  <2>10. ASSUME NEW p \in Procs, Decline(p) PROVE OneInv'
    <3>1. p \in Attached
      BY <2>10 DEF Decline, Attached
    <3>2. Attached \subseteq {p} <=> Attached = {p}
      BY <3>1
    <3>3. QED
      BY <2>1, <2>10, <3>2, OneAfterEnd DEF Decline, Goto
  <2>11. ASSUME NEW p \in Procs, KillArrives(p) PROVE OneInv'
    <3>1. kills' = kills \ {p} /\ UNCHANGED pid
      BY <2>11 DEF KillArrives
    <3>2. CASE p \in Alive
      <4>1. /\ pc' = [pc EXCEPT ![p] = "ended"]
            /\ shm' = IF Attached \subseteq {p} THEN NoProc ELSE shm
        BY <2>11, <3>2 DEF KillArrives, End, Goto
      <4>2. pc[p] # "killing"
        BY <2>1, <4>1 DEF TypeOK
      <4>3. QED
        BY <2>1, <3>1, <4>1, <4>2, OneAfterEnd
    <3>3. CASE p \notin Alive
      <4>1. UNCHANGED <<pc, shm>>
        BY <2>11, <3>3 DEF KillArrives
      <4>2. p \notin Running
        BY <3>3 DEF Alive, Attached, Running
      <4>3. Running' \ kills' = Running \ kills
        BY <3>1, <4>1, <4>2 DEF Running
      <4>4. QED
        BY <2>1, <3>1, <4>1, <4>3 DEF OneInv
    <3>4. QED
      BY <3>2, <3>3
  <2>12. ASSUME NEW p \in Procs, Ends(p) PROVE OneInv'
    <3>1. /\ pc' = [pc EXCEPT ![p] = "ended"]
          /\ shm' = IF Attached \subseteq {p} THEN NoProc ELSE shm
          /\ UNCHANGED <<pid, kills>>
      BY <2>12 DEF Ends, End, Goto
    <3>2. pc[p] # "killing"
      BY <2>1, <3>1 DEF TypeOK
    <3>3. QED
      BY <2>1, <3>1, <3>2, OneAfterEnd
  <2>13. QED
    BY <1>3, <2>3, <2>4, <2>5, <2>6, <2>7, <2>8, <2>9, <2>10, <2>11, <2>12 DEF MCNext, Next
<1>4. QED
  BY <1>1, <1>2, <1>3

\* For any number of processes, two instances stay side by side only if two starts
\* decided at the same time, or one ended between storing its pid and killing.
THEOREM OneUnlessOverlapHolds == MCSpec => []OneUnlessOverlap
<1>1. MCInit => OneInv
  BY DEF MCInit, Init, OneInv, Overlapping, Deciders, Running
<1>2. TypeOK /\ LockInv /\ StoredInv /\ OneInv /\ [MCNext]_mcVars => OneInv'
  BY OneStep
<1>3. OneInv => OneUnlessOverlap
  <2> SUFFICES ASSUME OneInv, ~overlap, Settled PROVE \A p, q \in Running : p = q
    BY DEF OneUnlessOverlap, AtMostOne
  <2>1. \A p \in Procs : pc[p] # "killing"
    BY DEF Settled, Running, Attached
  <2>2. Running \ kills \subseteq {shm} /\ kills = {}
    BY <2>1 DEF OneInv, Settled
  <2>3. QED
    BY <2>2
<1>4. QED
  BY <1>1, <1>2, <1>3, HistoryWatches, LockInvHolds, StoredInvHolds, PTL DEF MCSpec
=============================================================================
