-------------------------------- MODULE Proc --------------------------------
(***************************************************************************)
(* The life of a process in kernel/proc.c and kernel/trap.c: allocproc,    *)
(* kfork, kexit with reparent, kwait, kkill, the killed checks of          *)
(* usertrap, and preemption.  The locks wait_lock and p->lock are held by  *)
(* kernel threads, named like their processes; a step acquires at most one *)
(* lock.  Which RUNNABLE process runs next is left open (module Sched has  *)
(* the policy); at most NCPU are on a CPU.                                 *)
(***************************************************************************)
EXTENDS Integers, FiniteSets

CONSTANTS
  NCPU,
  NPROC,
  MaxPid,       \* no fork begins once this pid has been handed out
  KillTargets,  \* arguments of kill()
  None

Proc == 0..(NPROC - 1)
initproc == 0

ASSUME ProcSizes == NCPU \in Nat \ {0} /\ NPROC \in Nat \ {0} /\ MaxPid \in Nat \ {0}
ASSUME TargetsAssumption == KillTargets \subseteq Nat
ASSUME NoneAssumption == None \notin Proc

VARIABLES
  state, chan, killed, pid, parent,   \* fields of struct proc
  plock,      \* p->lock: the thread that holds it
  waitLock,   \* wait_lock: the thread that holds it
  nextpid,
  cpu,        \* a thread is off the CPUs; in: started, still with p->lock;
              \* on: executing; out: back in scheduler(), still with p->lock
  pc,         \* where each thread is
  i,          \* loop variable over the process table; locals are 0 when dead
  j,          \* that of a call of wakeup
  np,         \* the child that kfork is making
  havekids,
  target      \* argument of kkill

fields == <<state, chan, killed, pid, parent>>
locals == <<i, j, np, havekids, target>>
vars == <<fields, plock, waitLock, nextpid, cpu, pc, locals>>

\* userinit has run: the first process is RUNNABLE.
Init ==
  /\ state = [p \in Proc |-> IF p = initproc THEN "RUNNABLE" ELSE "UNUSED"]
  /\ chan = [p \in Proc |-> None]
  /\ killed = [p \in Proc |-> FALSE]
  /\ pid = [p \in Proc |-> IF p = initproc THEN 1 ELSE 0]
  /\ parent = [p \in Proc |-> None]
  /\ plock = [p \in Proc |-> None]
  /\ waitLock = None
  /\ nextpid = 2
  /\ cpu = [p \in Proc |-> "off"]
  /\ pc = [p \in Proc |-> "user"]
  /\ i = [p \in Proc |-> 0]
  /\ j = [p \in Proc |-> 0]
  /\ np = [p \in Proc |-> None]
  /\ havekids = [p \in Proc |-> FALSE]
  /\ target = [p \in Proc |-> 0]

-----------------------------------------------------------------------------
(* Switching                                                               *)

\* scheduler() picks p, holding its lock.
Dispatch(p) ==
  /\ state[p] = "RUNNABLE"
  /\ plock[p] = None
  /\ Cardinality({q \in Proc : cpu[q] # "off"}) < NCPU
  /\ state' = [state EXCEPT ![p] = "RUNNING"]
  /\ plock' = [plock EXCEPT ![p] = p]
  /\ cpu' = [cpu EXCEPT ![p] = "in"]
  /\ UNCHANGED <<chan, killed, pid, parent, waitLock, nextpid, pc, locals>>

\* forkret, or the tail of yield or sleep: release p->lock.
Resume(p) ==
  /\ cpu[p] = "in"
  /\ chan' = [chan EXCEPT ![p] = None]
  /\ plock' = [plock EXCEPT ![p] = None]
  /\ cpu' = [cpu EXCEPT ![p] = "on"]
  /\ UNCHANGED <<state, killed, pid, parent, waitLock, nextpid, pc, locals>>

\* acquire(&p->lock), a new state, sched().
Sched(p, s) ==
  /\ plock[p] = None
  /\ plock' = [plock EXCEPT ![p] = p]
  /\ state' = [state EXCEPT ![p] = s]
  /\ cpu' = [cpu EXCEPT ![p] = "out"]

\* scheduler() after its swtch.
SwitchedOut(p) ==
  /\ cpu[p] = "out"
  /\ plock' = [plock EXCEPT ![p] = None]
  /\ cpu' = [cpu EXCEPT ![p] = "off"]
  /\ UNCHANGED <<fields, waitLock, nextpid, pc, locals>>

At(p, l) == cpu[p] = "on" /\ pc[p] = l

Goto(p, l) == pc' = [pc EXCEPT ![p] = l]

\* Kernel code with no lock held, where kerneltrap may yield.
Preemptible == {"yield", "fscan", "fparent", "frun", "wacquire", "xacquire", "kscan", "ret"}

\* yield(), from usertrap or from kerneltrap.
Yield(p) ==
  /\ cpu[p] = "on"
  /\ pc[p] \in Preemptible
  /\ Sched(p, "RUNNABLE")
  /\ IF pc[p] = "yield" THEN Goto(p, "user") ELSE UNCHANGED pc
  /\ UNCHANGED <<chan, killed, pid, parent, waitLock, nextpid, locals>>

-----------------------------------------------------------------------------
(* usertrap                                                                *)

\* Faulty: killed() returns with p->lock held when it says yes.
UnlessKilledLocked(p, l) ==
  /\ plock[p] = None
  /\ plock' = IF killed[p] THEN [plock EXCEPT ![p] = p] ELSE plock
  /\ Goto(p, IF killed[p] THEN "xacquire" ELSE l)
  /\ UNCHANGED <<fields, waitLock, nextpid, cpu>>

\* usertrap tests killed(p), under p->lock, and exits or goes on.
UnlessKilled(p, l) ==
  /\ plock[p] = None
  /\ Goto(p, IF killed[p] THEN "xacquire" ELSE l)
  /\ UNCHANGED <<fields, plock, waitLock, nextpid, cpu>>

\* A system call, or the timer.  The first process neither exits nor kills.
Trap(p) ==
  /\ At(p, "user")
  /\ \/ UnlessKilled(p, "yield") /\ UNCHANGED locals
     \/ /\ nextpid <= MaxPid
        /\ UnlessKilled(p, "fscan")
        /\ UNCHANGED locals
     \/ UnlessKilled(p, "wacquire") /\ UNCHANGED locals
     \/ p # initproc /\ UnlessKilled(p, "xacquire") /\ UNCHANGED locals
     \/ /\ p # initproc
        /\ UnlessKilled(p, "kscan")
        /\ \E t \in KillTargets : target' = [target EXCEPT ![p] = IF killed[p] THEN @ ELSE t]
        /\ UNCHANGED <<i, j, np, havekids>>

\* The end of a system call.
TrapReturn(p) ==
  /\ At(p, "ret")
  /\ UnlessKilled(p, "user")
  /\ UNCHANGED locals

-----------------------------------------------------------------------------
(* kfork                                                                   *)

\* Faulty: p->killed is not cleared.
FreeprocKeepsKilled(q) ==
  /\ pid' = [pid EXCEPT ![q] = 0]
  /\ parent' = [parent EXCEPT ![q] = None]
  /\ chan' = [chan EXCEPT ![q] = None]
  /\ state' = [state EXCEPT ![q] = "UNUSED"]
  /\ UNCHANGED killed

\* freeproc, on the fields that are modelled.
Freeproc(q) ==
  /\ pid' = [pid EXCEPT ![q] = 0]
  /\ parent' = [parent EXCEPT ![q] = None]
  /\ chan' = [chan EXCEPT ![q] = None]
  /\ killed' = [killed EXCEPT ![q] = FALSE]
  /\ state' = [state EXCEPT ![q] = "UNUSED"]

\* An iteration of allocproc's search; an UNUSED process stays locked.
ForkScan(p) ==
  /\ At(p, "fscan")
  /\ i[p] < NPROC
  /\ plock[i[p]] = None
  /\ IF state[i[p]] = "UNUSED"
     THEN /\ plock' = [plock EXCEPT ![i[p]] = p]
          /\ pid' = [pid EXCEPT ![i[p]] = nextpid]
          /\ nextpid' = nextpid + 1
          /\ state' = [state EXCEPT ![i[p]] = "USED"]
          /\ np' = [np EXCEPT ![p] = i[p]]
          /\ i' = [i EXCEPT ![p] = 0]
          /\ Goto(p, "fcopy")
     ELSE /\ i' = [i EXCEPT ![p] = @ + 1]
          /\ UNCHANGED <<plock, pid, nextpid, state, np, pc>>
  /\ UNCHANGED <<chan, killed, parent, waitLock, cpu, j, havekids, target>>

\* The process table is full.
ForkFull(p) ==
  /\ At(p, "fscan")
  /\ i[p] = NPROC
  /\ i' = [i EXCEPT ![p] = 0]
  /\ Goto(p, "ret")
  /\ UNCHANGED <<fields, plock, waitLock, nextpid, cpu, j, np, havekids, target>>

\* The child's memory is made, or there is none left; np->lock is released.
ForkCopy(p) ==
  /\ At(p, "fcopy")
  /\ plock' = [plock EXCEPT ![np[p]] = None]
  /\ \/ /\ pc' = [pc EXCEPT ![p] = "fparent", ![np[p]] = "user"]
        /\ UNCHANGED <<fields, np>>
     \/ /\ Freeproc(np[p])
        /\ np' = [np EXCEPT ![p] = None]
        /\ Goto(p, "ret")
  /\ UNCHANGED <<waitLock, nextpid, cpu, i, j, havekids, target>>

\* np->parent = p, under wait_lock.
ForkParent(p) ==
  /\ At(p, "fparent")
  /\ waitLock = None
  /\ parent' = [parent EXCEPT ![np[p]] = p]
  /\ Goto(p, "frun")
  /\ UNCHANGED <<state, chan, killed, pid, plock, waitLock, nextpid, cpu, locals>>

\* The child becomes RUNNABLE.
ForkRun(p) ==
  /\ At(p, "frun")
  /\ plock[np[p]] = None
  /\ state' = [state EXCEPT ![np[p]] = "RUNNABLE"]
  /\ np' = [np EXCEPT ![p] = None]
  /\ Goto(p, "ret")
  /\ UNCHANGED <<chan, killed, pid, parent, plock, waitLock, nextpid, cpu, i, j, havekids, target>>

-----------------------------------------------------------------------------
(* kexit                                                                   *)

\* Files and cwd are closed; acquire(&wait_lock).
ExitAcquire(p) ==
  /\ At(p, "xacquire")
  /\ waitLock = None
  /\ waitLock' = p
  /\ Goto(p, "xreparent")
  /\ UNCHANGED <<fields, plock, nextpid, cpu, locals>>

\* An iteration of reparent; a child goes to the first process.
ExitReparent(p) ==
  /\ At(p, "xreparent")
  /\ i[p] < NPROC
  /\ IF parent[i[p]] = p
     THEN /\ parent' = [parent EXCEPT ![i[p]] = initproc]
          /\ Goto(p, "xwakeinit")
     ELSE UNCHANGED <<parent, pc>>
  /\ i' = [i EXCEPT ![p] = @ + 1]
  /\ UNCHANGED <<state, chan, killed, pid, plock, waitLock, nextpid, cpu, j, np, havekids, target>>

\* reparent returns.
ExitReparented(p) ==
  /\ At(p, "xreparent")
  /\ i[p] = NPROC
  /\ i' = [i EXCEPT ![p] = 0]
  /\ Goto(p, "xwakeparent")
  /\ UNCHANGED <<fields, plock, waitLock, nextpid, cpu, j, np, havekids, target>>

\* wakeup(initproc) in reparent, wakeup(p->parent) in kexit: an iteration,
\* or the return, to label l.
Wakeup(p, ch, l) ==
  /\ IF j[p] = NPROC
     THEN Goto(p, l) /\ j' = [j EXCEPT ![p] = 0] /\ UNCHANGED state
     ELSE /\ j[p] # p => plock[j[p]] = None
          /\ state' = IF j[p] # p /\ state[j[p]] = "SLEEPING" /\ chan[j[p]] = ch
                      THEN [state EXCEPT ![j[p]] = "RUNNABLE"]
                      ELSE state
          /\ j' = [j EXCEPT ![p] = @ + 1]
          /\ UNCHANGED pc
  /\ UNCHANGED <<chan, killed, pid, parent, plock, waitLock, nextpid, cpu, i, np, havekids, target>>

ExitWakeInit(p) == At(p, "xwakeinit") /\ Wakeup(p, initproc, "xreparent")

\* Faulty: wakeup(p) for wakeup(p->parent).
ExitWakeSelf(p) == At(p, "xwakeparent") /\ Wakeup(p, p, "xzombie")

ExitWakeParent(p) == At(p, "xwakeparent") /\ Wakeup(p, parent[p], "xzombie")

\* ZOMBIE, release(&wait_lock), sched().
ExitZombie(p) ==
  /\ At(p, "xzombie")
  /\ Sched(p, "ZOMBIE")
  /\ waitLock' = None
  /\ UNCHANGED <<chan, killed, pid, parent, nextpid, pc, locals>>

-----------------------------------------------------------------------------
(* kwait                                                                   *)

\* acquire(&wait_lock), at the start or after sleep(); a new scan.
WaitAcquire(p) ==
  /\ At(p, "wacquire")
  /\ waitLock = None
  /\ waitLock' = p
  /\ Goto(p, "wscan")
  /\ UNCHANGED <<fields, plock, nextpid, cpu, locals>>

\* The scan ends and its locals are dead.
ScanOver(p) ==
  /\ i' = [i EXCEPT ![p] = 0]
  /\ havekids' = [havekids EXCEPT ![p] = FALSE]

\* An iteration of the scan over a process that is not a ZOMBIE child.
WaitScan(p) ==
  /\ At(p, "wscan")
  /\ i[p] < NPROC
  /\ parent[i[p]] = p => plock[i[p]] = None /\ state[i[p]] # "ZOMBIE"
  /\ havekids' = [havekids EXCEPT ![p] = @ \/ parent[i[p]] = p]
  /\ i' = [i EXCEPT ![p] = @ + 1]
  /\ UNCHANGED <<fields, plock, waitLock, nextpid, cpu, pc, j, np, target>>

\* A ZOMBIE child: it is freed, unless copyout of its status fails.
WaitReap(p) ==
  /\ At(p, "wscan")
  /\ i[p] < NPROC
  /\ parent[i[p]] = p
  /\ plock[i[p]] = None
  /\ state[i[p]] = "ZOMBIE"
  /\ Freeproc(i[p]) \/ UNCHANGED fields
  /\ waitLock' = None
  /\ ScanOver(p)
  /\ Goto(p, "ret")
  /\ UNCHANGED <<plock, nextpid, cpu, j, np, target>>

\* No child, or killed(p): -1.  Otherwise p will sleep; killed(p) has
\* released p->lock by then.
WaitTest(p) ==
  /\ At(p, "wscan")
  /\ i[p] = NPROC
  /\ havekids[p] => plock[p] = None
  /\ IF ~havekids[p] \/ killed[p]
     THEN Goto(p, "ret") /\ waitLock' = None
     ELSE Goto(p, "wsleep") /\ UNCHANGED waitLock
  /\ ScanOver(p)
  /\ UNCHANGED <<fields, plock, nextpid, cpu, j, np, target>>

\* sleep(p, &wait_lock).
WaitSleep(p) ==
  /\ At(p, "wsleep")
  /\ Sched(p, "SLEEPING")
  /\ chan' = [chan EXCEPT ![p] = p]
  /\ waitLock' = None
  /\ Goto(p, "wacquire")
  /\ UNCHANGED <<killed, pid, parent, nextpid, locals>>

-----------------------------------------------------------------------------

\* An iteration of kkill; it returns at the first match, or at the end.
KillScan(p) ==
  /\ At(p, "kscan")
  /\ IF i[p] < NPROC /\ pid[i[p]] # target[p]
     THEN /\ plock[i[p]] = None
          /\ i' = [i EXCEPT ![p] = @ + 1]
          /\ UNCHANGED <<killed, state, pc, target>>
     ELSE /\ IF i[p] = NPROC
             THEN UNCHANGED <<killed, state>>
             ELSE /\ plock[i[p]] = None
                  /\ killed' = [killed EXCEPT ![i[p]] = TRUE]
                  /\ state' = IF state[i[p]] = "SLEEPING"
                              THEN [state EXCEPT ![i[p]] = "RUNNABLE"]
                              ELSE state
          /\ i' = [i EXCEPT ![p] = 0]
          /\ target' = [target EXCEPT ![p] = 0]
          /\ Goto(p, "ret")
  /\ UNCHANGED <<chan, pid, parent, plock, waitLock, nextpid, cpu, j, np, havekids>>

Next ==
  \E p \in Proc :
    \/ Dispatch(p) \/ Resume(p) \/ SwitchedOut(p) \/ Yield(p)
    \/ Trap(p) \/ TrapReturn(p)
    \/ ForkScan(p) \/ ForkFull(p) \/ ForkCopy(p) \/ ForkParent(p) \/ ForkRun(p)
    \/ ExitAcquire(p) \/ ExitReparent(p) \/ ExitReparented(p)
    \/ ExitWakeInit(p) \/ ExitWakeParent(p) \/ ExitZombie(p)
    \/ WaitAcquire(p) \/ WaitScan(p) \/ WaitReap(p) \/ WaitTest(p) \/ WaitSleep(p)
    \/ KillScan(p)

Spec == Init /\ [][Next]_vars

-----------------------------------------------------------------------------

\* The variables have their types.
TypeOK ==
  /\ state \in [Proc -> {"UNUSED", "USED", "SLEEPING", "RUNNABLE", "RUNNING", "ZOMBIE"}]
  /\ chan \in [Proc -> Proc \cup {None}]
  /\ killed \in [Proc -> BOOLEAN]
  /\ pid \in [Proc -> Nat]
  /\ parent \in [Proc -> Proc \cup {None}]
  /\ plock \in [Proc -> Proc \cup {None}]
  /\ waitLock \in Proc \cup {None}
  /\ nextpid \in Nat
  /\ cpu \in [Proc -> {"off", "in", "on", "out"}]
  /\ i \in [Proc -> 0..NPROC]
  /\ j \in [Proc -> 0..NPROC]
  /\ np \in [Proc -> Proc \cup {None}]
  /\ havekids \in [Proc -> BOOLEAN]
  /\ target \in [Proc -> KillTargets \cup {0}]

\* wait_lock "helps ensure that wakeups of wait()ing parents are not lost":
\* when nobody holds it, no process sleeps in kwait while one of its children
\* is a ZOMBIE, whether kexit or reparent gave it that child.
NoLostExit ==
  waitLock = None =>
    ~\E p, q \in Proc :
       /\ state[p] = "SLEEPING" /\ chan[p] = p
       /\ parent[q] = p /\ state[q] = "ZOMBIE"

\* reparent leaves no orphan: when nobody holds wait_lock, the parent of a
\* process exists and has not exited, so that a ZOMBIE can be waited for.
ParentAlive ==
  waitLock = None =>
    \A q \in Proc :
      /\ parent[q] # None => state[parent[q]] \notin {"UNUSED", "USED", "ZOMBIE"}
      /\ state[q] = "ZOMBIE" => parent[q] # None

\* kwait frees a child only when it has left its kernel stack ("make sure the
\* child isn't still in exit() or swtch()"): a free process is on no CPU.
FreedOffCpu == \A p \in Proc : state[p] \in {"UNUSED", "USED"} => cpu[p] = "off"

\* An UNUSED process is as freeproc leaves it, so that allocproc, which sets
\* only pid and state, hands out a fresh one.
UnusedIsClean ==
  \A p \in Proc : state[p] = "UNUSED" =>
    pid[p] = 0 /\ parent[p] = None /\ chan[p] = None /\ ~killed[p]

\* Two processes never have the same pid.
PidsDistinct ==
  \A p, q \in Proc : pid[p] # 0 /\ pid[p] = pid[q] => p = q

\* sched() is called with p->lock and no other lock held ("sched locks").
SwitchHoldsOwnLock ==
  \A p \in Proc :
    cpu[p] = "out" => waitLock # p /\ \A q \in Proc : plock[q] = p <=> q = p

\* A process lives as proc.c means it to, in every state: its parent is alive, it
\* is freed only off the CPU and wiped, its pid is its own, and it switches away
\* with its own lock only.
LifeCycleSound ==
  TypeOK /\ ParentAlive /\ FreedOffCpu /\ UnusedIsClean /\ PidsDistinct /\ SwitchHoldsOwnLock

\* wait_lock "must be acquired before any p->lock".
WaitLockFirst ==
  [][\A p \in Proc :
       ForkParent(p) \/ (waitLock # p /\ waitLock' = p) =>
         \A q \in Proc : plock[q] # p]_vars

\* kkill wakes its victim from sleep(), and kwait tests killed before it
\* sleeps: no killed process sleeps.
KilledNotAsleep == \A p \in Proc : ~(killed[p] /\ state[p] = "SLEEPING")

=============================================================================
