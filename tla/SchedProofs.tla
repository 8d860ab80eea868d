---------------------------- MODULE SchedProofs -----------------------------
(***************************************************************************)
(* Proofs about the scheduler, sleep and wakeup, for any CPUs, any length  *)
(* of the process table and any pids.                                      *)
(***************************************************************************)
EXTENDS Sched, TLAPS

\* Time enough for the provers on a slow machine.
USE SMTT(60)

\* What a CPU does with a process, and its champion while it scans.
CpuOK ==
  \A c \in CPU :
    /\ cproc[c] # None <=> cpc[c] # "scan"
    /\ \A d \in CPU : cproc[c] # None /\ cproc[c] = cproc[d] => c = d
    /\ cpc[c] = "scan" /\ highP[c] # None =>
         state[highP[c]] = "RUNNABLE" /\ highP[c] < scan[c]

\* A CPU holds p->lock while p is its champion, while it switches to p, and while
\* it switches back from p.
Holds(c, p) ==
  \/ cpc[c] = "scan" /\ highP[c] = p
  \/ cpc[c] = "run" /\ cproc[c] = p /\ entering[p]
  \/ cpc[c] = "back" /\ cproc[c] = p

PlockOK == \A p \in Proc : \A c \in CPU : plock[p] = c <=> Holds(c, p)

\* The spinlock of the sleep lock is held in acquiresleep and releasesleep.
LkOK == \A c \in CPU : lk = c <=> cpc[c] = "run" /\ pc[cproc[c]] \in {"test", "wake"}

ThreadOK ==
  \A p \in Proc :
    /\ state[p] = "RUNNING" <=> \E c \in CPU : On(c, p)
    /\ ~entering[p] => state[p] = "RUNNING"
    /\ pc[p] \in {"test", "wake"} => ~entering[p]
    /\ state[p] = "SLEEPING" => sleeping[p] /\ pc[p] = "retry"

SleepLockOK ==
  /\ \A p \in Proc : pc[p] = "crit" <=> owner = p
  /\ locked <=> owner # None

SInv == TypeOK /\ CpuOK /\ PlockOK /\ LkOK /\ ThreadOK /\ SleepLockOK

-----------------------------------------------------------------------------

\* The processes RUNNABLE throughout a scan are processes.
LEMMA SteadyType == TrackSteady => steady' \in [CPU -> SUBSET Proc]
  BY DEF TrackSteady

\* The scheduler starts in the invariant.
LEMMA InitSInv == Init => SInv
<1> SUFFICES ASSUME Init PROVE SInv
  OBVIOUS
<1> USE NProcAssumption, NoneAssumption DEF Init
<1>1. TypeOK
  <2>1. 0 \in 0..NPROC
    OBVIOUS
  <2> QED
    BY ZenonT(60), <2>1 DEF TypeOK
<1>2. CpuOK /\ PlockOK /\ LkOK
  BY DEF CpuOK, PlockOK, Holds, LkOK
<1>3. ThreadOK /\ SleepLockOK
  BY DEF ThreadOK, SleepLockOK, On
<1> QED
  BY <1>1, <1>2, <1>3 DEF SInv

\* An iteration of the selection loop.
LEMMA ScanProcSInv ==
  ASSUME SInv, TrackSteady, NEW c \in CPU, ScanProc(c)
  PROVE  SInv'
<1> USE NoneAssumption DEF SInv, ScanProc, lockVars, procVars
<1>0. scan[c] \in Proc /\ scan[c] + 1 \in 0..NPROC /\ scan[c] < scan[c] + 1
  BY NProcAssumption DEF TypeOK, Proc
<1>1. TypeOK'
  <2>1. plock' \in [Proc -> CPU \cup {None}] /\ highP' \in [CPU -> Proc \cup {None}]
    BY <1>0 DEF TypeOK
  <2>2. scan' \in [CPU -> 0..NPROC]
    BY <1>0 DEF TypeOK
  <2> QED
    BY <2>1, <2>2, SteadyType DEF TypeOK
<1>2. CpuOK'
  <2> SUFFICES ASSUME NEW d \in CPU, cpc'[d] = "scan", highP'[d] # None
               PROVE  state'[highP'[d]] = "RUNNABLE" /\ highP'[d] < scan'[d]
    BY DEF CpuOK
  <2>1. CASE d # c
    BY <2>1 DEF CpuOK, TypeOK
  <2>2. CASE d = c /\ highP'[c] = scan[c] /\ state[scan[c]] = "RUNNABLE"
    BY <1>0, <2>2 DEF TypeOK
  <2>3. CASE d = c /\ highP' = highP
    <3>1. highP[c] \in Proc /\ highP[c] < scan[c] /\ state[highP[c]] = "RUNNABLE"
      BY <2>3 DEF CpuOK, TypeOK
    <3>2. highP[c] < scan[c] + 1
      BY <1>0, <3>1 DEF Proc
    <3> QED
      BY <2>3, <3>1, <3>2 DEF TypeOK
  <2> QED
    BY <2>1, <2>2, <2>3 DEF TypeOK
<1>3. PlockOK'
  BY DEF PlockOK, Holds, TypeOK, CpuOK, ThreadOK, On
<1>4. LkOK'
  BY DEF LkOK, TypeOK, CpuOK, ThreadOK, On
<1>5. ThreadOK'
  BY DEF ThreadOK, On, TypeOK, CpuOK, PlockOK, Holds
<1>6. SleepLockOK'
  BY DEF SleepLockOK, TypeOK, ThreadOK
<1> QED
  BY <1>1, <1>2, <1>3, <1>4, <1>5, <1>6

\* The champion is started.
LEMMA RunChampionSInv ==
  ASSUME SInv, TrackSteady, NEW c \in CPU, RunChampion(c)
  PROVE  SInv'
<1> USE NoneAssumption DEF SInv, RunChampion, lockVars, procVars
<1>1. TypeOK'
  BY ZenonT(60), SteadyType, NProcAssumption DEF TypeOK
<1>2. CpuOK'
  BY DEF CpuOK, PlockOK, Holds, TypeOK, ThreadOK, On
<1>3. PlockOK'
  BY DEF PlockOK, Holds, TypeOK, CpuOK, ThreadOK, On
<1>4. LkOK'
  BY DEF LkOK, TypeOK, CpuOK, ThreadOK, On
<1>5. ThreadOK'
  BY DEF ThreadOK, On, TypeOK, CpuOK, PlockOK, Holds
<1>6. SleepLockOK'
  BY DEF SleepLockOK, TypeOK, ThreadOK
<1> QED
  BY <1>1, <1>2, <1>3, <1>4, <1>5, <1>6

\* There is no champion.
LEMMA WfiSInv ==
  ASSUME SInv, TrackSteady, NEW c \in CPU, Wfi(c)
  PROVE  SInv'
<1> USE NoneAssumption DEF SInv, Wfi, lockVars, procVars
<1>1. TypeOK'
  <2>1. 0 \in 0..NPROC
    BY NProcAssumption
  <2> QED
    BY ZenonT(60), <2>1, SteadyType DEF TypeOK
<1>2. CpuOK'
  BY DEF CpuOK, PlockOK, Holds, TypeOK, ThreadOK, On
<1>3. PlockOK'
  BY DEF PlockOK, Holds, TypeOK, CpuOK, ThreadOK, On
<1>4. LkOK'
  BY DEF LkOK, TypeOK, CpuOK, ThreadOK, On
<1>5. ThreadOK'
  BY DEF ThreadOK, On, TypeOK, CpuOK, PlockOK, Holds
<1>6. SleepLockOK'
  BY DEF SleepLockOK, TypeOK, ThreadOK
<1> QED
  BY <1>1, <1>2, <1>3, <1>4, <1>5, <1>6

\* The scheduler releases the lock of the process that has switched to it.
LEMMA BackInSchedulerSInv ==
  ASSUME SInv, TrackSteady, NEW c \in CPU, BackInScheduler(c)
  PROVE  SInv'
<1> USE NoneAssumption DEF SInv, BackInScheduler, lockVars, procVars
<1>1. TypeOK'
  <2>1. 0 \in 0..NPROC
    BY NProcAssumption
  <2> QED
    BY ZenonT(60), <2>1, SteadyType DEF TypeOK
<1>2. CpuOK'
  BY DEF CpuOK, PlockOK, Holds, TypeOK, ThreadOK, On
<1>3. PlockOK'
  BY DEF PlockOK, Holds, TypeOK, CpuOK, ThreadOK, On
<1>4. LkOK'
  BY DEF LkOK, TypeOK, CpuOK, ThreadOK, On
<1>5. ThreadOK'
  BY DEF ThreadOK, On, TypeOK, CpuOK, PlockOK, Holds
<1>6. SleepLockOK'
  BY DEF SleepLockOK, TypeOK, ThreadOK
<1> QED
  BY <1>1, <1>2, <1>3, <1>4, <1>5, <1>6

\* A process goes on after the switch.
LEMMA ResumeSInv ==
  ASSUME SInv, TrackSteady, NEW c \in CPU, NEW p \in Proc, Resume(c, p)
  PROVE  SInv'
<1> USE NoneAssumption DEF SInv, Resume, On, lockVars, cpuVars
<1>1. TypeOK'
  BY SteadyType, NProcAssumption DEF TypeOK
<1>2. CpuOK'
  BY DEF CpuOK, PlockOK, Holds, TypeOK, ThreadOK, On
<1>3. PlockOK'
  BY DEF PlockOK, Holds, TypeOK, CpuOK, ThreadOK, On
<1>4. LkOK'
  BY DEF LkOK, TypeOK, CpuOK, ThreadOK, On
<1>5. ThreadOK'
  BY DEF ThreadOK, On, TypeOK, CpuOK, PlockOK, Holds
<1>6. SleepLockOK'
  BY DEF SleepLockOK, TypeOK, ThreadOK
<1> QED
  BY <1>1, <1>2, <1>3, <1>4, <1>5, <1>6

\* yield.
LEMMA YieldSInv ==
  ASSUME SInv, TrackSteady, NEW c \in CPU, NEW p \in Proc, Yield(c, p)
  PROVE  SInv'
<1> USE NoneAssumption DEF SInv, Yield, Sched, On, lockVars
<1>1. TypeOK'
  BY ZenonT(60), SteadyType, NProcAssumption DEF TypeOK
<1>2. CpuOK'
  BY DEF CpuOK, PlockOK, Holds, TypeOK, ThreadOK, On
<1>3. PlockOK'
  BY DEF PlockOK, Holds, TypeOK, CpuOK, ThreadOK, On
<1>4. LkOK'
  BY DEF LkOK, TypeOK, CpuOK, ThreadOK, On
<1>5. ThreadOK'
  BY DEF ThreadOK, On, TypeOK, CpuOK, PlockOK, Holds
<1>6. SleepLockOK'
  BY DEF SleepLockOK, TypeOK, ThreadOK
<1> QED
  BY <1>1, <1>2, <1>3, <1>4, <1>5, <1>6

\* acquire(&lk->lk).
LEMMA AcquireLkSInv ==
  ASSUME SInv, TrackSteady, NEW c \in CPU, NEW p \in Proc, AcquireLk(c, p)
  PROVE  SInv'
<1> USE NoneAssumption DEF SInv, AcquireLk, On, cpuVars
<1>1. TypeOK'
  BY SteadyType, NProcAssumption DEF TypeOK
<1>2. CpuOK'
  BY DEF CpuOK, PlockOK, Holds, TypeOK, ThreadOK, On
<1>3. PlockOK'
  BY DEF PlockOK, Holds, TypeOK, CpuOK, ThreadOK, On
<1>4. LkOK'
  BY DEF LkOK, TypeOK, CpuOK, ThreadOK, On
<1>5. ThreadOK'
  BY DEF ThreadOK, On, TypeOK, CpuOK, PlockOK, Holds
<1>6. SleepLockOK'
  BY DEF SleepLockOK, TypeOK, ThreadOK
<1> QED
  BY <1>1, <1>2, <1>3, <1>4, <1>5, <1>6

\* acquiresleep takes the lock.
LEMMA TakeSleepLockSInv ==
  ASSUME SInv, TrackSteady, NEW c \in CPU, NEW p \in Proc, TakeSleepLock(c, p)
  PROVE  SInv'
<1> USE NoneAssumption DEF SInv, TakeSleepLock, On, cpuVars
<1>1. TypeOK'
  BY SteadyType, NProcAssumption DEF TypeOK
<1>2. CpuOK'
  BY DEF CpuOK, PlockOK, Holds, TypeOK, ThreadOK, On
<1>3. PlockOK'
  BY DEF PlockOK, Holds, TypeOK, CpuOK, ThreadOK, On
<1>4. LkOK'
  BY DEF LkOK, TypeOK, CpuOK, ThreadOK, On
<1>5. ThreadOK'
  BY DEF ThreadOK, On, TypeOK, CpuOK, PlockOK, Holds
<1>6. SleepLockOK'
  BY DEF SleepLockOK, TypeOK, ThreadOK
<1> QED
  BY <1>1, <1>2, <1>3, <1>4, <1>5, <1>6

\* sleep: the state is SLEEPING before lk is free for the waker.
LEMMA SleepSInv ==
  ASSUME SInv, TrackSteady, NEW c \in CPU, NEW p \in Proc, Sleep(c, p)
  PROVE  SInv'
<1> USE NoneAssumption DEF SInv, Sleep, Sched, On
<1>1. TypeOK'
  BY ZenonT(60), SteadyType, NProcAssumption DEF TypeOK
<1>2. CpuOK'
  BY DEF CpuOK, PlockOK, Holds, TypeOK, ThreadOK, On
<1>3. PlockOK'
  BY DEF PlockOK, Holds, TypeOK, CpuOK, ThreadOK, On
<1>4. LkOK'
  BY DEF LkOK, TypeOK, CpuOK, ThreadOK, On
<1>5. ThreadOK'
  BY DEF ThreadOK, On, TypeOK, CpuOK, PlockOK, Holds
<1>6. SleepLockOK'
  BY DEF SleepLockOK, TypeOK, ThreadOK
<1> QED
  BY <1>1, <1>2, <1>3, <1>4, <1>5, <1>6

\* releasesleep, up to wakeup.
LEMMA ReleaseSleepSInv ==
  ASSUME SInv, TrackSteady, NEW c \in CPU, NEW p \in Proc, ReleaseSleep(c, p)
  PROVE  SInv'
<1> USE NoneAssumption DEF SInv, ReleaseSleep, On, cpuVars
<1>1. TypeOK'
  <2>1. 0 \in 0..NPROC
    BY NProcAssumption
  <2> QED
    BY ZenonT(60), <2>1, SteadyType DEF TypeOK
<1>2. CpuOK'
  BY DEF CpuOK, PlockOK, Holds, TypeOK, ThreadOK, On
<1>3. PlockOK'
  BY DEF PlockOK, Holds, TypeOK, CpuOK, ThreadOK, On
<1>4. LkOK'
  BY DEF LkOK, TypeOK, CpuOK, ThreadOK, On
<1>5. ThreadOK'
  BY DEF ThreadOK, On, TypeOK, CpuOK, PlockOK, Holds
<1>6. SleepLockOK'
  BY DEF SleepLockOK, TypeOK, ThreadOK
<1> QED
  BY <1>1, <1>2, <1>3, <1>4, <1>5, <1>6

\* An iteration of wakeup.
LEMMA WakeupSInv ==
  ASSUME SInv, TrackSteady, NEW c \in CPU, NEW p \in Proc, Wakeup(c, p)
  PROVE  SInv'
<1> USE NoneAssumption DEF SInv, Wakeup, On, lockVars, cpuVars
<1>1. TypeOK'
  <2>1. widx[p] + 1 \in 0..NPROC
    BY NProcAssumption DEF TypeOK
  <2> QED
    BY ZenonT(60), <2>1, SteadyType DEF TypeOK
<1>2. CpuOK'
  BY DEF CpuOK, PlockOK, Holds, TypeOK, ThreadOK, On
<1>3. PlockOK'
  BY DEF PlockOK, Holds, TypeOK, CpuOK, ThreadOK, On
<1>4. LkOK'
  BY DEF LkOK, TypeOK, CpuOK, ThreadOK, On
<1>5. ThreadOK'
  BY DEF ThreadOK, On, TypeOK, CpuOK, PlockOK, Holds
<1>6. SleepLockOK'
  BY DEF SleepLockOK, TypeOK, ThreadOK
<1> QED
  BY <1>1, <1>2, <1>3, <1>4, <1>5, <1>6

\* wakeup returns.
LEMMA WakeupDoneSInv ==
  ASSUME SInv, TrackSteady, NEW c \in CPU, NEW p \in Proc, WakeupDone(c, p)
  PROVE  SInv'
<1> USE NoneAssumption DEF SInv, WakeupDone, On, cpuVars
<1>1. TypeOK'
  <2>1. 0 \in 0..NPROC
    BY NProcAssumption
  <2> QED
    BY <2>1, SteadyType DEF TypeOK
<1>2. CpuOK'
  BY DEF CpuOK, PlockOK, Holds, TypeOK, ThreadOK, On
<1>3. PlockOK'
  BY DEF PlockOK, Holds, TypeOK, CpuOK, ThreadOK, On
<1>4. LkOK'
  BY DEF LkOK, TypeOK, CpuOK, ThreadOK, On
<1>5. ThreadOK'
  BY DEF ThreadOK, On, TypeOK, CpuOK, PlockOK, Holds
<1>6. SleepLockOK'
  BY DEF SleepLockOK, TypeOK, ThreadOK
<1> QED
  BY <1>1, <1>2, <1>3, <1>4, <1>5, <1>6

-----------------------------------------------------------------------------

\* The steps, one by one.
LEMMA StepSInv == ASSUME SInv, TrackSteady, Step PROVE SInv'
<1> PICK c \in CPU :
      \/ SchedulerStep(c)
      \/ \E p \in Proc : \/ KernelStep(c, p)
                         \/ Yield(c, p)
                         \/ pc[p] = "user" /\ AcquireLk(c, p)
  BY DEF Step
<1>1. CASE SchedulerStep(c)
  BY <1>1, ScanProcSInv, RunChampionSInv, WfiSInv, BackInSchedulerSInv DEF SchedulerStep
<1>2. ASSUME NEW p \in Proc, KernelStep(c, p) PROVE SInv'
  BY <1>2, ResumeSInv, AcquireLkSInv, TakeSleepLockSInv, SleepSInv, ReleaseSleepSInv,
     WakeupSInv, WakeupDoneSInv DEF KernelStep
<1>3. ASSUME NEW p \in Proc, Yield(c, p) \/ AcquireLk(c, p) PROVE SInv'
  BY <1>3, YieldSInv, AcquireLkSInv
<1> QED
  BY <1>1, <1>2, <1>3

\* Every step of a CPU keeps the invariant.
LEMMA NextSInv == SInv /\ [Next]_vars => SInv'
<1> SUFFICES ASSUME SInv, [Next]_vars PROVE SInv'
  OBVIOUS
<1>1. CASE Next
  BY <1>1, StepSInv DEF Next
<1>2. CASE UNCHANGED vars
  <2> USE <1>2 DEF vars, lockVars, cpuVars, procVars, SInv
  <2>1. TypeOK' /\ CpuOK' /\ SleepLockOK'
    BY DEF TypeOK, CpuOK, SleepLockOK
  <2>2. PlockOK' /\ LkOK' /\ ThreadOK'
    BY DEF PlockOK, Holds, LkOK, ThreadOK, On
  <2> QED
    BY <2>1, <2>2
<1> QED
  BY <1>1, <1>2

\* The invariant of the scheduler, its locks and the threads they protect: each
\* p->lock is held exactly by the CPU that proc.c says holds it.
THEOREM SchedInvariant == Safety => []SInv
  BY InitSInv, NextSInv, PTL DEF Safety

\* The locks that a CPU holds come before those that it may wait for.
LEMMA LocksInOrder == SInv => LockOrder
<1> SUFFICES ASSUME SInv, NEW c \in CPU, NEW h \in Held(c), NEW w \in Wanted(c) PROVE h < w
  BY DEF LockOrder
<1> USE NoneAssumption, NProcAssumption DEF SInv
<1>1. CASE w = scan[c] /\ cpc[c] = "scan" /\ scan[c] < NPROC
  <2>1. lk # c
    BY <1>1 DEF LkOK
  <2>2. h \in Proc /\ Holds(c, h)
    BY <2>1 DEF Held, PlockOK
  <2>3. highP[c] = h
    BY <1>1, <2>2 DEF Holds
  <2> QED
    BY <1>1, <2>2, <2>3 DEF CpuOK, Proc
<1>2. ASSUME NEW p \in Proc, On(c, p), ~entering[p],
             \/ pc[p] \in {"user", "retry", "crit"} /\ w \in {-1, p}
             \/ pc[p] = "test" /\ w = p
             \/ pc[p] = "wake" /\ w \in {widx[p]} \ {p, NPROC}
      PROVE  h < w
  <2>1. \A q \in Proc : plock[q] # c
    BY <1>2 DEF PlockOK, Holds, On
  <2>2. h = -1 /\ lk = c
    BY <2>1 DEF Held
  <2>3. pc[p] \in {"test", "wake"}
    BY <1>2, <2>2 DEF LkOK, On
  <2>4. w \in Nat
    BY <1>2, <2>3 DEF TypeOK, Proc
  <2> QED
    BY <2>2, <2>4
<1>3. \/ w = scan[c] /\ cpc[c] = "scan" /\ scan[c] < NPROC
      \/ \E p \in Proc :
           /\ On(c, p) /\ ~entering[p]
           /\ \/ pc[p] \in {"user", "retry", "crit"} /\ w \in {-1, p}
              \/ pc[p] = "test" /\ w = p
              \/ pc[p] = "wake" /\ w \in {widx[p]} \ {p, NPROC}
  <2>1. \A p \in Proc : pc[p] \in {"user", "retry", "test", "crit", "wake"}
    BY DEF TypeOK
  <2> DEFINE W(p) == CASE pc[p] \in {"user", "retry", "crit"} -> {-1, p}
                       [] pc[p] = "test"              -> {p}
                       [] pc[p] = "wake"              -> {widx[p]} \ {p, NPROC}
  <2>2. \/ w = scan[c] /\ cpc[c] = "scan" /\ scan[c] < NPROC
        \/ \E p \in Proc : On(c, p) /\ ~entering[p] /\ w \in W(p)
    BY ZenonT(60) DEF Wanted
  <2>3. ASSUME NEW p \in Proc, w \in W(p)
        PROVE  \/ pc[p] \in {"user", "retry", "crit"} /\ w \in {-1, p}
               \/ pc[p] = "test" /\ w = p
               \/ pc[p] = "wake" /\ w \in {widx[p]} \ {p, NPROC}
    <3>1. CASE pc[p] \in {"user", "retry", "crit"}
      BY <2>3, <3>1
    <3>2. CASE pc[p] = "test"
      BY <2>3, <3>2
    <3>3. CASE pc[p] = "wake"
      BY <2>3, <3>3
    <3> QED
      BY <2>1, <3>1, <3>2, <3>3
  <2> HIDE DEF W
  <2> QED
    BY <2>2, <2>3
<1> QED
  BY <1>1, <1>2, <1>3

\* For any number of CPUs and processes: scheduler() keeps the lock of its
\* champion without a cycle of locks, a process runs on one CPU, sched() never
\* panics, and the sleep lock has one holder.
THEOREM SchedulerIsSound == Safety => []SchedSound
<1>1. SInv => SchedSound
  <2> SUFFICES ASSUME SInv PROVE SchedSound
    OBVIOUS
  <2> USE NoneAssumption DEF SInv
  <2>1. RunsOnOneCpu
    BY DEF RunsOnOneCpu, CpuOK, ThreadOK
  <2>2. SwitchHoldsOwnLock
    <3> SUFFICES ASSUME NEW c \in CPU, cpc[c] = "back"
                 PROVE  Held(c) = {cproc[c]} /\ state[cproc[c]] # "RUNNING"
      BY DEF SwitchHoldsOwnLock
    <3>1. lk # c /\ cproc[c] \in Proc
      BY DEF LkOK, CpuOK, TypeOK
    <3>2. \A p \in Proc : plock[p] = c <=> p = cproc[c]
      BY DEF PlockOK, Holds
    <3>3. state[cproc[c]] # "RUNNING"
      BY <3>1 DEF ThreadOK, On, CpuOK
    <3> QED
      BY <3>1, <3>2, <3>3 DEF Held
  <2>3. SleepLockExclusive
    BY DEF SleepLockExclusive, SleepLockOK
  <2> QED
    BY <2>1, <2>2, <2>3, LocksInOrder DEF SchedSound
<1> QED
  BY <1>1, SchedInvariant, PTL

-----------------------------------------------------------------------------
(* Wakeups                                                                 *)

\* sleep() and wakeup() lose no wakeup.
LEMMA NextWakeup == SInv /\ NoLostWakeup /\ [Next]_vars => NoLostWakeup'
<1> SUFFICES ASSUME SInv, NoLostWakeup, [Next]_vars,
                    NEW p \in Proc, state'[p] = "SLEEPING", ~locked'
             PROVE  \E q \in Proc : pc'[q] = "wake" /\ widx'[q] <= p
  BY DEF NoLostWakeup
<1> USE NProcAssumption DEF SInv
<1>0. /\ p \in Int /\ \A q \in Proc : widx[q] \in Int
      /\ state[p] = "SLEEPING" /\ ~locked => \E q \in Proc : pc[q] = "wake" /\ widx[q] <= p
  BY DEF NoLostWakeup, TypeOK, Proc
<1>1. CASE UNCHANGED <<state, locked, pc, widx>>
  BY <1>0, <1>1
<1>2. CASE \E c \in CPU : SchedulerStep(c)
  <2>1. locked' = locked /\ pc' = pc /\ widx' = widx /\ state[p] = "SLEEPING"
    BY <1>2 DEF SchedulerStep, ScanProc, RunChampion, Wfi, BackInScheduler, lockVars, procVars, TypeOK
  <2> QED
    BY <1>0, <2>1
<1>3. ASSUME NEW c \in CPU, NEW q \in Proc, Resume(c, q) \/ Yield(c, q)
      PROVE  \E r \in Proc : pc'[r] = "wake" /\ widx'[r] <= p
  <2>1. locked' = locked /\ pc' = pc /\ widx' = widx /\ state[p] = "SLEEPING"
    BY <1>3 DEF Resume, Yield, Sched, lockVars, TypeOK
  <2> QED
    BY <1>0, <2>1
<1>4. ASSUME NEW c \in CPU, NEW q \in Proc, AcquireLk(c, q)
      PROVE  \E r \in Proc : pc'[r] = "wake" /\ widx'[r] <= p
  <2>1. PICK r \in Proc : pc[r] = "wake" /\ widx[r] <= p
    BY <1>0, <1>4 DEF AcquireLk
  <2>2. pc'[r] = "wake" /\ widx' = widx
    BY <1>4, <2>1 DEF AcquireLk, TypeOK
  <2> QED
    BY <2>1, <2>2
<1>5. ASSUME NEW c \in CPU, NEW q \in Proc, TakeSleepLock(c, q) \/ Sleep(c, q)
      PROVE  FALSE
  BY <1>5 DEF TakeSleepLock, Sleep
<1>6. ASSUME NEW c \in CPU, NEW q \in Proc, ReleaseSleep(c, q)
      PROVE  \E r \in Proc : pc'[r] = "wake" /\ widx'[r] <= p
  <2>1. pc'[q] = "wake" /\ widx'[q] = 0
    BY <1>6 DEF ReleaseSleep, TypeOK
  <2> QED
    BY <2>1 DEF Proc
<1>7. ASSUME NEW c \in CPU, NEW q \in Proc, Wakeup(c, q)
      PROVE  \E r \in Proc : pc'[r] = "wake" /\ widx'[r] <= p
  <2>1. state[p] = "SLEEPING" /\ pc' = pc /\ locked' = locked
    BY <1>7 DEF Wakeup, lockVars, TypeOK
  <2>2. PICK r \in Proc : pc[r] = "wake" /\ widx[r] <= p
    BY <1>0, <2>1
  <2>3. CASE r # q
    <3>1. widx'[r] = widx[r]
      BY <1>7, <2>3 DEF Wakeup, TypeOK
    <3> QED
      BY <2>1, <2>2, <3>1
  <2>4. CASE r = q
    <3>1. state[q] = "RUNNING"
      BY <1>7 DEF Wakeup, ThreadOK
    <3>2. widx[q] # p
      BY <1>7, <2>1, <3>1 DEF Wakeup, ThreadOK, TypeOK
    <3>3. widx'[q] = widx[q] + 1
      BY <1>7 DEF Wakeup, TypeOK
    <3> QED
      BY <1>0, <2>1, <2>2, <2>4, <3>2, <3>3
  <2> QED
    BY <2>3, <2>4
<1>8. ASSUME NEW c \in CPU, NEW q \in Proc, WakeupDone(c, q)
      PROVE  \E r \in Proc : pc'[r] = "wake" /\ widx'[r] <= p
  <2>1. PICK r \in Proc : pc[r] = "wake" /\ widx[r] <= p
    BY <1>0, <1>8 DEF WakeupDone
  <2>2. r # q
    BY <1>0, <1>8, <2>1 DEF WakeupDone, Proc
  <2>3. pc'[r] = "wake" /\ widx'[r] = widx[r]
    BY <1>8, <2>1, <2>2 DEF WakeupDone, TypeOK
  <2> QED
    BY <2>1, <2>3
<1>9. CASE UNCHANGED vars
  BY <1>1, <1>9 DEF vars, lockVars, procVars
<1>10. CASE Step
  BY <1>2, <1>3, <1>4, <1>5, <1>6, <1>7, <1>8, <1>10 DEF Step, KernelStep
<1> QED
  BY <1>9, <1>10 DEF Next

\* No process sleeps on a free sleep lock behind a wakeup() that has passed it,
\* however sleep() and wakeup() interleave on however many CPUs.
THEOREM NoWakeupIsLost == Safety => []NoLostWakeup
<1>1. Init => NoLostWakeup
  BY DEF Init, NoLostWakeup
<1> QED
  BY <1>1, NextWakeup, SchedInvariant, PTL DEF Safety

-----------------------------------------------------------------------------
(* The selection                                                           *)

\* Priorities are numbers, so they can be compared.
LEMMA PriorityType == \A p \in Proc : Priority(p) \in Int
  BY DEF Priority

\* A scan that goes on keeps a champion at least as good as all it has passed.
LEMMA NextChampion == SInv /\ ChampionBeatsSteady /\ [Next]_vars => ChampionBeatsSteady'
<1> DEFINE Best(p, h) == /\ h # None
                         /\ Priority(p) <= Priority(h)
                         /\ Priority(p) = Priority(h) => h <= p
<1> SUFFICES ASSUME SInv, ChampionBeatsSteady, [Next]_vars,
                    NEW c \in CPU, NEW p \in steady'[c], p < scan'[c]
             PROVE  Best(p, highP'[c])
  BY DEF ChampionBeatsSteady
<1> USE DEF SInv
<1>1. CASE UNCHANGED vars
  BY <1>1 DEF vars, cpuVars, ChampionBeatsSteady
<1>2. CASE Next
  <2>1. p \in Proc /\ state'[p] = "RUNNABLE" /\ (scan'[c] = 0 \/ p \in steady[c])
    BY <1>2 DEF Next, TrackSteady
  <2>2. p \in steady[c] /\ scan'[c] # 0 /\ p \in Nat
    BY <2>1, NProcAssumption DEF Proc
  <2>3. ASSUME scan'[c] = scan[c], highP'[c] = highP[c] PROVE Best(p, highP'[c])
    BY <2>2, <2>3 DEF ChampionBeatsSteady
  <2>4. ASSUME ScanProc(c) PROVE Best(p, highP'[c])
    <3>1. /\ scan'[c] = scan[c] + 1 /\ scan[c] \in Proc /\ scan[c] \in Int /\ state[p] = "RUNNABLE"
      BY <2>1, <2>4, NProcAssumption DEF ScanProc, TypeOK, Proc
    <3>2. \/ state[scan[c]] = "RUNNABLE" /\ Beats(scan[c], highP[c]) /\ highP'[c] = scan[c]
          \/ ~(state[scan[c]] = "RUNNABLE" /\ Beats(scan[c], highP[c])) /\ highP'[c] = highP[c]
      BY <2>4 DEF ScanProc, TypeOK
    <3>3. highP[c] # None => highP[c] \in Proc /\ highP[c] \in Int /\ highP[c] < scan[c]
      BY <2>4 DEF ScanProc, CpuOK, TypeOK, Proc
    <3>4. CASE p < scan[c]
      <4>1. Best(p, highP[c])
        BY <2>2, <3>4 DEF ChampionBeatsSteady
      <4>2. /\ Priority(p) \in Int /\ Priority(highP[c]) \in Int /\ Priority(scan[c]) \in Int
        BY <2>1, <3>1, <3>3, <4>1, PriorityType
      <4> QED
        BY <3>1, <3>2, <4>1, <4>2, NoneAssumption DEF Beats
    <3>5. CASE p = scan[c]
      <4>1. Priority(p) \in Int /\ p # None
        BY <2>1, PriorityType, NoneAssumption
      <4>2. CASE Beats(p, highP[c])
        BY <2>2, <3>1, <3>2, <3>5, <4>1, <4>2
      <4>3. CASE ~Beats(p, highP[c])
        <5>1. highP[c] # None /\ ~(Priority(p) > Priority(highP[c]))
          BY <4>3 DEF Beats
        <5>2. Priority(highP[c]) \in Int
          BY <3>3, <5>1, PriorityType
        <5> QED
          BY <2>2, <3>2, <3>3, <3>5, <4>1, <4>3, <5>1, <5>2
      <4> QED
        BY <4>2, <4>3
    <3> QED
      BY <2>2, <3>1, <3>4, <3>5
  <2>5. ASSUME NEW d \in CPU, SchedulerStep(d) PROVE Best(p, highP'[c])
    <3>1. CASE ScanProc(c)
      BY <2>4, <3>1
    <3>2. CASE Wfi(c) \/ BackInScheduler(c)
      BY <2>2, <3>2 DEF Wfi, BackInScheduler, TypeOK
    <3>3. CASE RunChampion(d) \/ (d # c /\ SchedulerStep(d))
      <4>1. scan'[c] = scan[c] /\ highP'[c] = highP[c]
        BY <3>3 DEF SchedulerStep, ScanProc, RunChampion, Wfi, BackInScheduler, TypeOK
      <4> QED
        BY <2>3, <4>1
    <3> QED
      BY <2>5, <3>1, <3>2, <3>3 DEF SchedulerStep
  <2>6. ASSUME NEW d \in CPU, NEW q \in Proc, KernelStep(d, q) \/ Yield(d, q) \/ AcquireLk(d, q)
        PROVE  scan' = scan /\ highP' = highP
    BY ZenonT(60), <2>6 DEF KernelStep, Yield, AcquireLk, Resume, TakeSleepLock, Sleep, ReleaseSleep, Wakeup,
                WakeupDone, cpuVars
  <2> QED
    BY <1>2, <2>3, <2>5, <2>6 DEF Next, Step
<1> QED
  BY <1>1, <1>2 DEF Next

\* Whatever other CPUs do meanwhile, no process that was RUNNABLE throughout a
\* scan beats the champion, and the champion is the first of its priority.
THEOREM ChampionIsBest == Safety => []ChampionBeatsSteady
<1>1. Init => ChampionBeatsSteady
  <2> SUFFICES ASSUME Init, NEW c \in CPU, NEW p \in Proc, p < scan[c] PROVE FALSE
    BY ZenonT(60) DEF ChampionBeatsSteady, Init
  <2> QED
    BY NProcAssumption DEF Init, Proc
<1> QED
  BY <1>1, NextChampion, SchedInvariant, PTL DEF Safety

=============================================================================
