----------------------------- MODULE SingleApp -----------------------------
(***************************************************************************)
(* The single-instance guard both programs run before anything else: class *)
(* SingleAppRun (src/shared_classes/single_apprun), with the processes that *)
(* start, are killed or crash between any two of its steps.                *)
(*                                                                         *)
(* The kernel objects are those of Windows, the platform of the code       *)
(* (taskkill): a named semaphore or shared memory segment lives as long as *)
(* a process has a handle to it, closing a handle releases nothing, and a  *)
(* process that ends, however it does, closes its handles.                 *)
(***************************************************************************)
EXTENDS Naturals, FiniteSets

CONSTANTS
    Procs,      \* every process of the program that is ever started
    NoProc,     \* no process
    Crashes     \* processes also end before they run, at any step

ASSUME ProcsAssumption == NoProc \notin Procs /\ Crashes \in BOOLEAN

VARIABLES
    pc,         \* where each process is
    forced,     \* the processes started with APP_OPTION_FORCE
    sema,       \* the count of the semaphore, while it exists
    shm,        \* the pid in the shared memory, while it exists
    pid,        \* each process's variable pid, once isRunning() returned true
    kills       \* the processes that a taskkill on its way will end

vars == <<pc, forced, sema, shm, pid, kills>>

Places == {"off", "waiting", "inside", "creating", "deciding", "killing",
           "running", "ended"}

\* The processes with a handle to the semaphore, a local of isRunning().
Openers == {p \in Procs : pc[p] \in {"waiting", "inside", "creating"}}

\* The processes attached to the segment, a member of the object.
Attached == {p \in Procs : pc[p] \in {"deciding", "killing", "running"}}

Alive == Openers \cup Attached
Running == {p \in Procs : pc[p] = "running"}

TypeOK ==
    /\ pc \in [Procs -> Places]
    /\ forced \in SUBSET Procs
    /\ sema \in {0, 1}
    /\ shm \in Procs \cup {NoProc}
    /\ pid \in [Procs -> Procs \cup {NoProc}]
    /\ kills \in SUBSET Procs

Init ==
    /\ pc = [p \in Procs |-> "off"]
    /\ forced = {}
    /\ sema = 1
    /\ shm = NoProc
    /\ pid = [p \in Procs |-> NoProc]
    /\ kills = {}

Goto(p, place) == pc[p] # place /\ pc' = [pc EXCEPT ![p] = place]

-----------------------------------------------------------------------------
(* isRunning() *)

\* Mutant: the semaphore outlives the processes that opened it.
StartPersistent(p, force) ==
    /\ pc[p] = "off"
    /\ Goto(p, "waiting")
    /\ forced' = IF force THEN forced \cup {p} ELSE forced
    /\ UNCHANGED <<sema, shm, pid, kills>>

\* The process is started and opens the semaphore, which is created with count 1
\* when no process has it open.
Start(p, force) ==
    /\ pc[p] = "off"
    /\ Goto(p, "waiting")
    /\ forced' = IF force THEN forced \cup {p} ELSE forced
    /\ sema' = IF Openers = {} THEN 1 ELSE sema
    /\ UNCHANGED <<shm, pid, kills>>

\* Mutant: the semaphore is not waited for.
AcquireUnguarded(p) ==
    /\ pc[p] = "waiting"
    /\ Goto(p, "inside")
    /\ sema' = sema - 1
    /\ UNCHANGED <<forced, shm, pid, kills>>

\* sema.acquire()
Acquire(p) ==
    /\ pc[p] = "waiting"
    /\ sema = 1
    /\ sema' = 0
    /\ Goto(p, "inside")
    /\ UNCHANGED <<forced, shm, pid, kills>>

\* shmem->attach() succeeds: another process runs, its pid is read.  isRunning()
\* returns without releasing the semaphore.
Attach(p) ==
    /\ pc[p] = "inside"
    /\ Attached # {}
    /\ pid' = [pid EXCEPT ![p] = shm]
    /\ Goto(p, "deciding")
    /\ UNCHANGED <<forced, sema, shm, kills>>

\* shmem->attach() fails: no process runs.
AttachFails(p) ==
    /\ pc[p] = "inside"
    /\ Attached = {}
    /\ Goto(p, "creating")
    /\ UNCHANGED <<forced, sema, shm, pid, kills>>

\* shmem->create(), the own pid is stored and the semaphore released.
Create(p) ==
    /\ pc[p] = "creating"
    /\ shm' = p
    /\ sema' = 1
    /\ Goto(p, "running")
    /\ UNCHANGED <<forced, pid, kills>>

-----------------------------------------------------------------------------
(* The constructor, when isRunning() returned true *)

\* The user declines: the second instance ends.
Decline(p) ==
    /\ pc[p] = "deciding" /\ p \notin forced
    /\ Goto(p, "ended")
    /\ shm' = IF Attached = {p} THEN NoProc ELSE shm
    /\ UNCHANGED <<forced, sema, pid, kills>>

\* Mutant: the own pid is not stored.
TakeOverUnrecorded(p) ==
    /\ pc[p] = "deciding"
    /\ Goto(p, "killing")
    /\ UNCHANGED <<forced, sema, shm, pid, kills>>

\* killProcess(): a forced start, or one the user lets through, stores its own pid.
TakeOver(p) ==
    /\ pc[p] = "deciding"
    /\ shm' = p
    /\ Goto(p, "killing")
    /\ UNCHANGED <<forced, sema, pid, kills>>

\* Mutant: the process is not killed.
TaskkillForgotten(p) ==
    /\ pc[p] = "killing"
    /\ Goto(p, "running")
    /\ UNCHANGED <<forced, sema, shm, pid, kills>>

\* Then it starts a taskkill of the pid it read, detached, and goes on.
Taskkill(p) ==
    /\ pc[p] = "killing"
    /\ kills' = kills \cup {pid[p]}
    /\ Goto(p, "running")
    /\ UNCHANGED <<forced, sema, shm, pid>>

-----------------------------------------------------------------------------
(* Processes end (external) *)

\* The process ends; the segment goes with the last process attached to it.
End(p) ==
    /\ p \in Alive
    /\ Goto(p, "ended")
    /\ shm' = IF Attached \subseteq {p} THEN NoProc ELSE shm

\* A taskkill takes effect, or finds no process.
KillArrives(v) ==
    /\ v \in kills
    /\ kills' = kills \ {v}
    /\ IF v \in Alive THEN End(v) ELSE UNCHANGED <<pc, shm>>
    /\ UNCHANGED <<forced, sema, pid>>

\* A running instance is closed, or a process crashes.
Ends(p) ==
    /\ Crashes \/ p \in Running
    /\ End(p)
    /\ UNCHANGED <<forced, sema, pid, kills>>

-----------------------------------------------------------------------------
Enter(p) == Acquire(p) \/ Attach(p) \/ AttachFails(p) \/ Create(p)

Next ==
    \E p \in Procs :
        \/ \E force \in BOOLEAN : Start(p, force)
        \/ Acquire(p) \/ Attach(p) \/ AttachFails(p) \/ Create(p)
        \/ Decline(p) \/ TakeOver(p) \/ Taskkill(p)
        \/ KillArrives(p)
        \/ Ends(p)

Spec == Init /\ [][Next]_vars

-----------------------------------------------------------------------------
(* Fairness: a process that can go on does, and Windows wakes one of the        *)
(* processes that wait for the semaphore.  The user need never answer.          *)
Fairness == \A p \in Procs : WF_vars(Enter(p))

FairSpec == Spec /\ Fairness

-----------------------------------------------------------------------------
(* Properties *)

\* A process creates the segment only when there is none: shmem->create() is not
\* checked, and writing the pid to a segment that was not attached is a crash.
CreateSucceeds == \A p \in Procs : pc[p] = "creating" => Attached = {}

\* The process the segment names is never the one a taskkill is about to end:
\* however starts overlap, the newest instance survives them.
NewestSurvives == shm \notin kills

\* Nobody is starting an instance or about to kill one.
Settled == Running = Attached /\ kills = {}

\* When all is settled, at most one instance runs.  The code breaks this: two
\* processes that read the same pid both kill it and both go on.
AtMostOne == Settled => \A p, q \in Running : p = q

\* If starts never overlap, every one of them learns whether an instance runs,
\* also after crashes: no process that ended keeps the semaphore.
LoneStartServed ==
    [](Cardinality(Openers) <= 1)
        => \A p \in Procs : p \in Openers ~> p \notin Openers

\* Every start learns whether an instance runs.  The code breaks this: a process
\* that found one leaves without releasing the semaphore others have open.
StartServed == \A p \in Procs : p \in Openers ~> p \notin Openers
=============================================================================
