------------------------------- MODULE Sched --------------------------------
(***************************************************************************)
(* The scheduling core of kernel/proc.c on several CPUs: the priority      *)
(* scheduler, which keeps the lock of its best candidate while it goes     *)
(* through the rest of the process table, sched, yield, sleep and wakeup,  *)
(* driven by processes that contend for one sleep lock of sleeplock.c and  *)
(* that the timer preempts.  A spinlock is the CPU that holds it.  A step  *)
(* acquires at most one lock, and a step that acquires one waits for it.   *)
(***************************************************************************)
EXTENDS Integers

CONSTANTS
  CPU,
  NPROC,
  Pid,       \* pid of each process
  None

Proc == 0..(NPROC - 1)

ASSUME NProcAssumption == NPROC \in Nat \ {0}
ASSUME PidAssumption == Pid \in [Proc -> Nat]
ASSUME NoneAssumption == None \notin CPU \cup Proc

\* allocproc: an even pid makes an important process.
Priority(p) == IF Pid[p] % 2 = 0 THEN 10 ELSE 1

VARIABLES
  state,    \* p->state
  sleeping, \* p->chan is the sleep lock
  plock,    \* p->lock
  lk,       \* the spinlock inside the sleep lock
  locked,   \* lk->locked
  owner,    \* lk->pid, as a process
  cproc,    \* c->proc
  cpc,      \* the CPU scans in scheduler(), runs a process, or has been
            \* given back to scheduler() by sched()
  scan,     \* scheduler's p
  highP,    \* scheduler's high_p
  pc,       \* where the kernel thread of each process is
  entering, \* it has to release p->lock when it next runs
  widx,     \* p of its call of wakeup
  steady    \* processes RUNNABLE ever since a CPU began its scan

procVars == <<pc, entering, widx>>
cpuVars == <<cproc, cpc, scan, highP>>
lockVars == <<lk, locked, owner>>
vars == <<state, sleeping, plock, lockVars, cpuVars, procVars, steady>>

Init ==
  /\ state = [p \in Proc |-> "RUNNABLE"]
  /\ sleeping = [p \in Proc |-> FALSE]
  /\ plock = [p \in Proc |-> None]
  /\ lk = None
  /\ locked = FALSE
  /\ owner = None
  /\ cproc = [c \in CPU |-> None]
  /\ cpc = [c \in CPU |-> "scan"]
  /\ scan = [c \in CPU |-> 0]
  /\ highP = [c \in CPU |-> None]
  /\ pc = [p \in Proc |-> "user"]
  /\ entering = [p \in Proc |-> TRUE]
  /\ widx = [p \in Proc |-> 0]
  /\ steady = [c \in CPU |-> Proc]

-----------------------------------------------------------------------------
(* scheduler()                                                             *)

\* Faulty: a later process of the same priority wins.
BeatsOrTies(p, h) == h = None \/ Priority(p) >= Priority(h)

Beats(p, h) == h = None \/ Priority(p) > Priority(h)

\* An iteration of the selection loop.  A new champion keeps its lock and
\* frees that of the previous one; any other process is unlocked again.
ScanProc(c) ==
  /\ cpc[c] = "scan"
  /\ scan[c] < NPROC
  /\ plock[scan[c]] = None
  /\ IF state[scan[c]] = "RUNNABLE" /\ Beats(scan[c], highP[c])
     THEN /\ highP' = [highP EXCEPT ![c] = scan[c]]
          /\ plock' = [p \in Proc |-> IF p = scan[c] THEN c
                                      ELSE IF p = highP[c] THEN None
                                      ELSE plock[p]]
     ELSE UNCHANGED <<highP, plock>>
  /\ scan' = [scan EXCEPT ![c] = @ + 1]
  /\ UNCHANGED <<state, sleeping, lockVars, cproc, cpc, procVars>>

\* The execution phase: swtch to the champion.
RunChampion(c) ==
  /\ cpc[c] = "scan"
  /\ scan[c] = NPROC
  /\ highP[c] # None
  /\ state' = [state EXCEPT ![highP[c]] = "RUNNING"]
  /\ cproc' = [cproc EXCEPT ![c] = highP[c]]
  /\ cpc' = [cpc EXCEPT ![c] = "run"]
  /\ UNCHANGED <<sleeping, plock, lockVars, scan, highP, procVars>>

\* No champion: wfi until the next interrupt, then a new scan.
Wfi(c) ==
  /\ cpc[c] = "scan"
  /\ scan[c] = NPROC
  /\ highP[c] = None
  /\ scan' = [scan EXCEPT ![c] = 0]
  /\ UNCHANGED <<state, sleeping, plock, lockVars, cproc, cpc, highP, procVars>>

\* The process has come back through sched(); a new scan.
BackInScheduler(c) ==
  /\ cpc[c] = "back"
  /\ plock' = [plock EXCEPT ![cproc[c]] = None]
  /\ cproc' = [cproc EXCEPT ![c] = None]
  /\ cpc' = [cpc EXCEPT ![c] = "scan"]
  /\ scan' = [scan EXCEPT ![c] = 0]
  /\ highP' = [highP EXCEPT ![c] = None]
  /\ UNCHANGED <<state, sleeping, lockVars, procVars>>

-----------------------------------------------------------------------------
(* The kernel thread of a process                                          *)

\* Process p is executing on CPU c.
On(c, p) == cpc[c] = "run" /\ cproc[c] = p

\* The tail of yield, sleep or forkret, after the swtch.
Resume(c, p) ==
  /\ On(c, p)
  /\ entering[p]
  /\ entering' = [entering EXCEPT ![p] = FALSE]
  /\ plock' = [plock EXCEPT ![p] = None]
  /\ sleeping' = [sleeping EXCEPT ![p] = FALSE]
  /\ UNCHANGED <<state, lockVars, cpuVars, pc, widx>>

\* sched(), called with p->lock held: swtch to the scheduler of this CPU.
Sched(c, p, s) ==
  /\ plock[p] = None
  /\ plock' = [plock EXCEPT ![p] = c]
  /\ state' = [state EXCEPT ![p] = s]
  /\ entering' = [entering EXCEPT ![p] = TRUE]
  /\ cpc' = [cpc EXCEPT ![c] = "back"]

\* A timer interrupt while p holds no spinlock: yield().
Yield(c, p) ==
  /\ On(c, p)
  /\ ~entering[p]
  /\ pc[p] \in {"user", "retry", "crit"}
  /\ Sched(c, p, "RUNNABLE")
  /\ UNCHANGED <<sleeping, lockVars, cproc, scan, highP, pc, widx>>

\* acquiresleep, or the tail of its sleep(): acquire(&lk->lk).
AcquireLk(c, p) ==
  /\ On(c, p)
  /\ ~entering[p]
  /\ pc[p] \in {"user", "retry"}
  /\ lk = None
  /\ lk' = c
  /\ pc' = [pc EXCEPT ![p] = "test"]
  /\ UNCHANGED <<state, sleeping, plock, locked, owner, cpuVars, entering, widx>>

\* Faulty: locked is not tested after a sleep.
TakeSleepLockUntested(c, p) ==
  /\ On(c, p)
  /\ pc[p] = "test"
  /\ locked' = TRUE
  /\ owner' = p
  /\ lk' = None
  /\ pc' = [pc EXCEPT ![p] = "crit"]
  /\ UNCHANGED <<state, sleeping, plock, cpuVars, entering, widx>>

\* acquiresleep finds the lock free.
TakeSleepLock(c, p) ==
  /\ On(c, p)
  /\ pc[p] = "test"
  /\ ~locked
  /\ locked' = TRUE
  /\ owner' = p
  /\ lk' = None
  /\ pc' = [pc EXCEPT ![p] = "crit"]
  /\ UNCHANGED <<state, sleeping, plock, cpuVars, entering, widx>>

\* acquiresleep finds the lock taken: sleep(lk, &lk->lk).
Sleep(c, p) ==
  /\ On(c, p)
  /\ pc[p] = "test"
  /\ locked
  /\ Sched(c, p, "SLEEPING")
  /\ lk' = None
  /\ sleeping' = [sleeping EXCEPT ![p] = TRUE]
  /\ pc' = [pc EXCEPT ![p] = "retry"]
  /\ UNCHANGED <<locked, owner, cproc, scan, highP, widx>>

\* releasesleep, up to its call of wakeup.
ReleaseSleep(c, p) ==
  /\ On(c, p)
  /\ ~entering[p]
  /\ pc[p] = "crit"
  /\ lk = None
  /\ lk' = c
  /\ locked' = FALSE
  /\ owner' = None
  /\ pc' = [pc EXCEPT ![p] = "wake"]
  /\ widx' = [widx EXCEPT ![p] = 0]
  /\ UNCHANGED <<state, sleeping, plock, cpuVars, entering>>

\* An iteration of wakeup(lk).
Wakeup(c, p) ==
  /\ On(c, p)
  /\ pc[p] = "wake"
  /\ widx[p] < NPROC
  /\ widx[p] # p => plock[widx[p]] = None
  /\ state' = IF widx[p] # p /\ state[widx[p]] = "SLEEPING" /\ sleeping[widx[p]]
              THEN [state EXCEPT ![widx[p]] = "RUNNABLE"]
              ELSE state
  /\ widx' = [widx EXCEPT ![p] = @ + 1]
  /\ UNCHANGED <<sleeping, plock, lockVars, cpuVars, pc, entering>>

\* Faulty: wakeup stops before the last process of the table.
WakeupDoneEarly(c, p) ==
  /\ On(c, p)
  /\ pc[p] = "wake"
  /\ widx[p] = NPROC - 1
  /\ lk' = None
  /\ pc' = [pc EXCEPT ![p] = "user"]
  /\ widx' = [widx EXCEPT ![p] = 0]
  /\ UNCHANGED <<state, sleeping, plock, locked, owner, cpuVars, entering>>

\* wakeup returns; releasesleep releases lk->lk.
WakeupDone(c, p) ==
  /\ On(c, p)
  /\ pc[p] = "wake"
  /\ widx[p] = NPROC
  /\ lk' = None
  /\ pc' = [pc EXCEPT ![p] = "user"]
  /\ widx' = [widx EXCEPT ![p] = 0]
  /\ UNCHANGED <<state, sleeping, plock, locked, owner, cpuVars, entering>>

-----------------------------------------------------------------------------

SchedulerStep(c) ==
  \/ ScanProc(c)
  \/ RunChampion(c)
  \/ Wfi(c)
  \/ BackInScheduler(c)

\* What kernel code does without waiting for its user.
KernelStep(c, p) ==
  \/ Resume(c, p)
  \/ pc[p] = "retry" /\ AcquireLk(c, p)
  \/ TakeSleepLock(c, p)
  \/ Sleep(c, p)
  \/ ReleaseSleep(c, p)
  \/ Wakeup(c, p)
  \/ WakeupDone(c, p)

Step ==
  \E c \in CPU :
    \/ SchedulerStep(c)
    \/ \E p \in Proc : \/ KernelStep(c, p)
                       \/ Yield(c, p)
                       \/ pc[p] = "user" /\ AcquireLk(c, p)

\* steady starts afresh with each scan and loses whoever stops being RUNNABLE.
TrackSteady ==
  steady' = [c \in CPU |->
               {p \in Proc : /\ cpc'[c] = "scan"
                             /\ scan'[c] = 0 \/ p \in steady[c]
                             /\ state'[p] = "RUNNABLE"}]

Next == Step /\ TrackSteady

\* A CPU never stops, a lock that is free again and again is obtained, the
\* timer keeps interrupting, and a holder of the sleep lock releases it.
Fairness ==
  \A c \in CPU :
    /\ SF_vars(SchedulerStep(c) /\ TrackSteady)
    /\ SF_vars(\E p \in Proc : KernelStep(c, p) /\ TrackSteady)
    /\ SF_vars(\E p \in Proc : Yield(c, p) /\ TrackSteady)

Safety == Init /\ [][Next]_vars

Spec == Safety /\ Fairness

-----------------------------------------------------------------------------

\* The variables have their types.
TypeOK ==
  /\ state \in [Proc -> {"RUNNABLE", "RUNNING", "SLEEPING"}]
  /\ sleeping \in [Proc -> BOOLEAN]
  /\ plock \in [Proc -> CPU \cup {None}]
  /\ lk \in CPU \cup {None}
  /\ locked \in BOOLEAN
  /\ owner \in Proc \cup {None}
  /\ cproc \in [CPU -> Proc \cup {None}]
  /\ cpc \in [CPU -> {"scan", "run", "back"}]
  /\ scan \in [CPU -> 0..NPROC]
  /\ highP \in [CPU -> Proc \cup {None}]
  /\ pc \in [Proc -> {"user", "retry", "test", "crit", "wake"}]
  /\ entering \in [Proc -> BOOLEAN]
  /\ widx \in [Proc -> 0..NPROC]
  /\ steady \in [CPU -> SUBSET Proc]

\* The spinlocks a CPU holds: -1 stands for lk, p for p->lock.
Held(c) == {p \in Proc : plock[p] = c} \cup (IF lk = c THEN {-1} ELSE {})

\* The spinlocks a CPU may be spinning for.
Wanted(c) ==
  (IF cpc[c] = "scan" /\ scan[c] < NPROC THEN {scan[c]} ELSE {})
  \cup UNION {CASE pc[p] \in {"user", "retry", "crit"} -> {-1, p}
                [] pc[p] = "test"              -> {p}
                [] pc[p] = "wake"              -> {widx[p]} \ {p, NPROC}
                : p \in {q \in Proc : On(c, q) /\ ~entering[q]}}

\* No CPUs wait for each other in a circle: a CPU that spins for a lock holds
\* only locks that come before it, lk before every p->lock and these in the
\* order of the process table.  This is what makes it safe that scheduler()
\* keeps the lock of its champion while it acquires further ones.
LockOrder == \A c \in CPU : \A h \in Held(c), w \in Wanted(c) : h < w

\* scheduler() starts a process on one CPU only: a process is RUNNING exactly
\* when one CPU executes it.
RunsOnOneCpu ==
  /\ \A c, d \in CPU : cproc[c] # None /\ cproc[c] = cproc[d] => c = d
  /\ \A p \in Proc : state[p] = "RUNNING" <=> \E c \in CPU : On(c, p)

\* sched() never panics: it switches with p->lock held, with no other lock
\* (noff is 1), and with a state other than RUNNING.
SwitchHoldsOwnLock ==
  \A c \in CPU :
    cpc[c] = "back" => Held(c) = {cproc[c]} /\ state[cproc[c]] # "RUNNING"

\* At most one process is between acquiresleep and releasesleep, and lk->pid
\* names it.
SleepLockExclusive ==
  /\ \A p \in Proc : pc[p] = "crit" => owner = p
  /\ locked <=> owner # None

\* Scheduling and sleep-locks are sound: no lock cycle, one CPU per process, no
\* panic in sched(), and one holder of the sleep lock.
SchedSound == TypeOK /\ LockOrder /\ RunsOnOneCpu /\ SwitchHoldsOwnLock /\ SleepLockExclusive

\* sleep() and wakeup() lose no wakeup: if the sleep lock is free, whoever
\* sleeps on it is still ahead of a running wakeup().
NoLostWakeup ==
  \A p \in Proc :
    state[p] = "SLEEPING" /\ ~locked =>
      \E q \in Proc : pc[q] = "wake" /\ widx[q] <= p

\* What the selection phase achieves: among the processes that it has passed
\* and that have been RUNNABLE throughout the scan, none beats the champion,
\* and the champion is the first of its priority.
ChampionBeatsSteady ==
  \A c \in CPU : \A p \in steady[c] :
    p < scan[c] =>
      /\ highP[c] # None
      /\ Priority(p) <= Priority(highP[c])
      /\ Priority(p) = Priority(highP[c]) => highP[c] <= p

\* The comment above yield(): a process gives up the CPU for one scheduling
\* round, so a RUNNABLE process gets its turn.
EveryRunnableRuns ==
  \A p \in Proc : state[p] = "RUNNABLE" ~> state[p] = "RUNNING"

\* The process that wins every comparison of the selection phase.
First(p) ==
  \A q \in Proc \ {p} :
    Priority(q) < Priority(p) \/ (Priority(q) = Priority(p) /\ p < q)

\* The process that scheduler() prefers to all others does run whenever it is
\* RUNNABLE.
FirstRuns ==
  \A p \in Proc : First(p) => (state[p] = "RUNNABLE" ~> state[p] = "RUNNING")

=============================================================================
