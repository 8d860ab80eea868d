------------------------------ MODULE ProcInv ------------------------------
(***************************************************************************)
(* The invariant of the life of processes, for any number of CPUs, any     *)
(* length of the process table and any number of processes that are born,  *)
(* and proofs that switching, system calls and kfork keep it.  ProcProofs  *)
(* goes on with kexit, kwait and kkill.                                    *)
(***************************************************************************)
EXTENDS Proc, TLAPS

\* Time enough for the provers on a slow machine.
USE SMTT(60)

\* kill() is called with the pids of processes other than the first.
KillsProcesses == KillTargets \cap {0, 1} = {}

Forking == {"fcopy", "fparent", "frun"}
Exiting == {"xreparent", "xwakeinit", "xwakeparent", "xzombie"}
Scanning == {"fscan", "xreparent", "xwakeinit", "wscan", "kscan"}
Label == Preemptible \cup Exiting \cup {"user", "fcopy", "wscan", "wsleep"}

Types == TypeOK /\ pc \in [Proc -> Label]

\* Who holds which p->lock: a process its own while it switches, and kfork that of
\* the child it makes.
Locks(p, q) ==
  \/ q = p /\ cpu[p] \in {"in", "out"}
  \/ q = np[p] /\ pc[p] = "fcopy"

LocksOK ==
  /\ \A p, q \in Proc : plock[q] = p <=> Locks(p, q)
  /\ \A p \in Proc : waitLock = p <=> cpu[p] = "on" /\ pc[p] \in Exiting \cup {"wscan", "wsleep"}

\* What the state of a process says about where its thread is.
StateOK ==
  \A p \in Proc :
    /\ state[p] = "RUNNING" <=> cpu[p] \in {"in", "on"}
    /\ state[p] \in {"UNUSED", "USED"} => cpu[p] = "off" /\ pc[p] \in {"user", "xzombie"}
    /\ state[p] = "ZOMBIE" => pc[p] = "xzombie"
    /\ state[p] = "SLEEPING" => pc[p] = "wacquire" /\ chan[p] = p
    /\ state[p] = "RUNNABLE" \/ cpu[p] = "in" => pc[p] \in Preemptible \cup {"user"}

\* Loop variables are 0 outside their loops.
LocalsOK ==
  \A p \in Proc :
    /\ pc[p] \notin Scanning => i[p] = 0
    /\ pc[p] \notin {"xwakeinit", "xwakeparent"} => j[p] = 0
    /\ pc[p] = "kscan" => target[p] \in KillTargets

\* The child that kfork makes is USED, nobody else's, and at its first instruction
\* once its lock is released.
ChildOK ==
  \A p \in Proc :
    /\ np[p] # None <=> pc[p] \in Forking
    /\ np[p] # None => state[np[p]] = "USED"
    /\ pc[p] \in {"fparent", "frun"} => pc[np[p]] = "user"
    /\ \A q \in Proc : np[p] # None /\ np[p] = np[q] => p = q

\* Pids differ, a free slot is clean, and the first process is not killed.
PidOK ==
  /\ nextpid > 1
  /\ pid[initproc] = 1 /\ ~killed[initproc]
  /\ \A p \in Proc : pid[p] < nextpid
  /\ PidsDistinct
  /\ UnusedIsClean
  /\ \A p \in Proc : state[p] = "USED" => chan[p] = None

\* The first process does not exit.  Any other has a parent that has not exited;
\* whoever exits has passed its children on, up to where reparent has come.
FamilyOK ==
  /\ state[initproc] \notin {"UNUSED", "USED", "ZOMBIE"}
  /\ pc[initproc] \notin Exiting \cup {"xacquire"}
  /\ parent[initproc] = None
  /\ \A p \in Proc : parent[p] # p
  /\ \A p \in Proc \ {initproc} : state[p] \notin {"UNUSED", "USED"} => parent[p] # None
  /\ \A p \in Proc : pc[p] = "frun" => parent[np[p]] # None
  /\ \A p, q \in Proc : parent[q] = p =>
       /\ state[p] \notin {"UNUSED", "USED", "ZOMBIE"}
       /\ pc[p] \notin {"xwakeparent", "xzombie"}
       /\ pc[p] \in {"xreparent", "xwakeinit"} => q >= i[p]

\* No exit is missed: a process that waits has seen no ZOMBIE child; whoever
\* exits has woken its parent, up to where wakeup has come; and if the first
\* process sleeps and has a ZOMBIE child, that was just given to it.
WakeOK ==
  /\ \A p, q \in Proc : parent[q] = p /\ state[q] = "ZOMBIE" =>
       /\ pc[p] # "wsleep"
       /\ pc[p] = "wscan" => q >= i[p]
       /\ state[p] = "SLEEPING" =>
            p = initproc /\ \E r \in Proc : pc[r] = "xwakeinit" /\ j[r] = 0
  /\ \A p, q \in Proc : parent[q] = p /\ state[p] = "SLEEPING" /\ cpu[q] = "on" =>
       /\ pc[q] # "xzombie"
       /\ pc[q] = "xwakeparent" => p >= j[q]

PrInv == Types /\ LocksOK /\ StateOK /\ LocalsOK /\ ChildOK /\ PidOK /\ FamilyOK /\ WakeOK
-----------------------------------------------------------------------------

\* The process table is indexed from 0 to NPROC - 1.
LEMMA Table ==
  /\ initproc \in Proc /\ initproc = 0
  /\ Proc \subseteq Int /\ None \notin Proc
  /\ 0 \in 0..NPROC
  /\ \A k \in 0..NPROC : k < NPROC => k \in Proc /\ k + 1 \in 0..NPROC
  /\ \A q \in Proc : 0 <= q /\ q < NPROC
  BY ProcSizes, NoneAssumption DEF Proc, initproc

\* kfork and its child are left alone by a step of another process, and by a step
\* that keeps its own process inside or outside kfork.
LEMMA ChildFrame ==
  ASSUME PrInv, NEW p \in Proc, state[p] # "USED", np' = np,
         \A q \in Proc \ {p} : pc'[q] = pc[q],
         pc'[p] \in Forking <=> pc[p] \in Forking,
         pc'[p] \in {"fparent", "frun"} => pc[p] \in {"fparent", "frun"},
         \A q \in Proc : state[q] = "USED" => state'[q] = "USED"
  PROVE  ChildOK'
<1> USE Table
<1>1. \A q \in Proc : np[q] # None => np[q] \in Proc /\ np[q] # p
  BY DEF PrInv, Types, TypeOK, ChildOK
<1>2. \A q \in Proc : pc'[q] \in {"fparent", "frun"} => pc[q] \in {"fparent", "frun"}
  OBVIOUS
<1>3. \A q \in Proc : pc'[q] \in Forking <=> pc[q] \in Forking
  OBVIOUS
<1>4. \A q \in Proc : pc[q] \in {"fparent", "frun"} => np[q] # None
  BY DEF PrInv, ChildOK, Forking
<1>5. ASSUME NEW r \in Proc
      PROVE  /\ np'[r] # None <=> pc'[r] \in Forking
             /\ np'[r] # None => state'[np'[r]] = "USED"
             /\ \A q \in Proc : np'[r] # None /\ np'[r] = np'[q] => r = q
  BY ZenonT(60), <1>1 DEF PrInv, ChildOK
<1>6. ASSUME NEW r \in Proc, pc'[r] \in {"fparent", "frun"}
      PROVE  pc'[np'[r]] = "user"
  <2>1. np[r] \in Proc \ {p} /\ pc[np[r]] = "user"
    BY <1>1, <1>4, <1>6 DEF PrInv, ChildOK
  <2> QED
    BY ZenonT(60), <2>1
<1> QED
  BY <1>5, <1>6 DEF ChildOK

\* scheduler() starts a process.
LEMMA DispatchPrInv ==
  ASSUME KillsProcesses, PrInv, NEW p \in Proc, Dispatch(p)
  PROVE  PrInv'
<1> USE Table DEF fields, locals
<1>1. Types'
  BY DEF PrInv, Types, TypeOK, Dispatch
<1>2. LocksOK'
  BY DEF PrInv, Types, TypeOK, LocksOK, Locks, StateOK, Dispatch
<1>3. StateOK'
  BY DEF PrInv, Types, TypeOK, StateOK, Dispatch
<1>4. LocalsOK'
  BY DEF PrInv, LocalsOK, Dispatch
<1>5. ChildOK'
  BY DEF PrInv, ChildOK, Dispatch
<1>6. PidOK'
  BY DEF PrInv, PidOK, PidsDistinct, UnusedIsClean, Dispatch
<1>7. FamilyOK'
  BY DEF PrInv, FamilyOK, Dispatch
<1>8. WakeOK'
  BY DEF PrInv, WakeOK, Dispatch
<1> QED
  BY <1>1, <1>2, <1>3, <1>4, <1>5, <1>6, <1>7, <1>8 DEF PrInv

\* The process releases its lock.
LEMMA ResumePrInv ==
  ASSUME KillsProcesses, PrInv, NEW p \in Proc, Resume(p)
  PROVE  PrInv'
<1> USE Table DEF fields, locals
<1>1. Types'
  BY DEF PrInv, Types, TypeOK, Resume
<1>2. LocksOK'
  BY DEF PrInv, Types, TypeOK, Preemptible, Exiting, LocksOK, Locks, StateOK, Resume
<1>3. StateOK'
  BY DEF PrInv, StateOK, Resume
<1>4. LocalsOK'
  BY DEF PrInv, LocalsOK, Resume
<1>5. ChildOK'
  BY DEF PrInv, ChildOK, Resume
<1>6. PidOK'
  BY DEF PrInv, PidOK, PidsDistinct, UnusedIsClean, Resume
<1>7. FamilyOK'
  BY DEF PrInv, FamilyOK, Resume
<1>8. WakeOK'
  BY DEF PrInv, Preemptible, StateOK, WakeOK, Resume
<1> QED
  BY <1>1, <1>2, <1>3, <1>4, <1>5, <1>6, <1>7, <1>8 DEF PrInv

\* scheduler() releases the lock of a process that has left.
LEMMA SwitchedOutPrInv ==
  ASSUME KillsProcesses, PrInv, NEW p \in Proc, SwitchedOut(p)
  PROVE  PrInv'
<1> USE Table DEF fields, locals
<1>1. Types'
  BY DEF PrInv, Types, TypeOK, SwitchedOut
<1>2. LocksOK'
  BY DEF PrInv, Types, TypeOK, Preemptible, LocksOK, Locks, StateOK, SwitchedOut
<1>3. StateOK'
  BY DEF PrInv, StateOK, SwitchedOut
<1>4. LocalsOK'
  BY DEF PrInv, LocalsOK, SwitchedOut
<1>5. ChildOK'
  BY DEF PrInv, ChildOK, SwitchedOut
<1>6. PidOK'
  BY DEF PrInv, PidOK, PidsDistinct, UnusedIsClean, SwitchedOut
<1>7. FamilyOK'
  BY DEF PrInv, FamilyOK, SwitchedOut
<1>8. WakeOK'
  BY DEF PrInv, WakeOK, SwitchedOut
<1> QED
  BY <1>1, <1>2, <1>3, <1>4, <1>5, <1>6, <1>7, <1>8 DEF PrInv

\* yield().
LEMMA YieldPrInv ==
  ASSUME KillsProcesses, PrInv, NEW p \in Proc, Yield(p)
  PROVE  PrInv'
<1> USE Table DEF fields, locals
<1>1. Types'
  BY DEF PrInv, Types, TypeOK, Label, Yield, Sched, Goto
<1>2. LocksOK'
  BY DEF PrInv, Types, TypeOK, Preemptible, Exiting, LocksOK, Locks, Yield, Sched, Goto
<1>3. StateOK'
  BY DEF PrInv, Types, TypeOK, StateOK, Yield, Sched, Goto
<1>4. LocalsOK'
  BY DEF PrInv, Types, LocalsOK, Scanning, Yield, Goto
<1>5. ChildOK'
  <2>1. cpu[p] = "on" /\ state[p] = "RUNNING" /\ np' = np
    BY DEF PrInv, StateOK, Yield
  <2>2. \A q \in Proc \ {p} : pc'[q] = pc[q]
    BY DEF PrInv, Types, Yield, Goto
  <2>3. /\ pc'[p] \in Forking <=> pc[p] \in Forking
        /\ pc'[p] \in {"fparent", "frun"} => pc[p] \in {"fparent", "frun"}
    BY DEF PrInv, Types, Forking, Yield, Goto
  <2>4. \A q \in Proc : state[q] = "USED" => state'[q] = "USED"
    BY <2>1 DEF Yield, Sched
  <2> QED
    BY <2>1, <2>2, <2>3, <2>4, ChildFrame
<1>6. PidOK'
  BY DEF PrInv, PidOK, PidsDistinct, UnusedIsClean, Yield, Sched
<1>7. FamilyOK'
  BY DEF PrInv, Types, Exiting, StateOK, FamilyOK, Yield, Sched, Goto
<1>8. WakeOK'
  BY DEF PrInv, Types, WakeOK, Yield, Sched, Goto
<1> QED
  BY <1>1, <1>2, <1>3, <1>4, <1>5, <1>6, <1>7, <1>8 DEF PrInv

\* A system call or the timer.
LEMMA TrapPrInv ==
  ASSUME KillsProcesses, PrInv, NEW p \in Proc, Trap(p)
  PROVE  PrInv'
<1> USE Table DEF fields, locals
<1>1. Types'
  BY DEF PrInv, Types, TypeOK, Label, Preemptible, Trap, UnlessKilled, Goto
<1>2. LocksOK'
  BY DEF PrInv, Types, Exiting, LocksOK, Locks, Trap, At, UnlessKilled, Goto
<1>3. StateOK'
  BY DEF PrInv, Types, StateOK, Trap, At, UnlessKilled, Goto
<1>4. LocalsOK'
  BY DEF PrInv, Types, TypeOK, LocalsOK, Scanning, Trap, At, UnlessKilled, Goto
<1>5. ChildOK'
  <2>1. cpu[p] = "on" /\ state[p] = "RUNNING" /\ np' = np
    BY DEF PrInv, StateOK, Trap, At
  <2>2. \A q \in Proc \ {p} : pc'[q] = pc[q]
    BY DEF PrInv, Types, Trap, UnlessKilled, Goto
  <2>3. /\ pc'[p] \in Forking <=> pc[p] \in Forking
        /\ pc'[p] \in {"fparent", "frun"} => pc[p] \in {"fparent", "frun"}
    BY DEF PrInv, Types, Forking, Trap, At, UnlessKilled, Goto
  <2>4. \A q \in Proc : state[q] = "USED" => state'[q] = "USED"
    BY DEF Trap, UnlessKilled
  <2> QED
    BY <2>1, <2>2, <2>3, <2>4, ChildFrame
<1>6. PidOK'
  BY DEF PrInv, PidOK, PidsDistinct, UnusedIsClean, Trap, UnlessKilled
<1>7. FamilyOK'
  BY DEF PrInv, Types, Exiting, PidOK, FamilyOK, Trap, UnlessKilled, Goto
<1>8. WakeOK'
  BY DEF PrInv, Types, WakeOK, Trap, At, UnlessKilled, Goto
<1> QED
  BY <1>1, <1>2, <1>3, <1>4, <1>5, <1>6, <1>7, <1>8 DEF PrInv

\* The end of a system call.
LEMMA TrapReturnPrInv ==
  ASSUME KillsProcesses, PrInv, NEW p \in Proc, TrapReturn(p)
  PROVE  PrInv'
<1> USE Table DEF fields, locals
<1>1. Types'
  BY DEF PrInv, Types, TypeOK, Label, Preemptible, TrapReturn, UnlessKilled, Goto
<1>2. LocksOK'
  BY DEF PrInv, Exiting, LocksOK, Locks, TrapReturn, At, UnlessKilled, Goto
<1>3. StateOK'
  BY DEF PrInv, StateOK, TrapReturn, At, UnlessKilled, Goto
<1>4. LocalsOK'
  BY DEF PrInv, LocalsOK, Scanning, TrapReturn, At, UnlessKilled, Goto
<1>5. ChildOK'
  BY DEF PrInv, ChildOK, Forking, TrapReturn, At, UnlessKilled, Goto
<1>6. PidOK'
  BY DEF PrInv, PidOK, PidsDistinct, UnusedIsClean, TrapReturn, UnlessKilled
<1>7. FamilyOK'
  BY DEF PrInv, Exiting, PidOK, FamilyOK, TrapReturn, UnlessKilled, Goto
<1>8. WakeOK'
  BY DEF PrInv, WakeOK, TrapReturn, At, UnlessKilled, Goto
<1> QED
  BY <1>1, <1>2, <1>3, <1>4, <1>5, <1>6, <1>7, <1>8 DEF PrInv

\* allocproc looks at one process.
LEMMA ForkScanPrInv ==
  ASSUME KillsProcesses, PrInv, NEW p \in Proc, ForkScan(p)
  PROVE  PrInv'
<1> USE Table DEF fields, locals
<1>0. /\ i[p] = NPROC => ~(i[p] < NPROC)
      /\ i[p] < NPROC => i[p] # NPROC
      /\ i[p] # NPROC => i[p] \in Proc /\ i[p] < NPROC /\ i[p] + 1 \in 0..NPROC
  BY ProcSizes DEF PrInv, Types, TypeOK
<1>1. Types'
  BY DEF PrInv, Types, TypeOK, Label, ForkScan, Goto
<1>2. LocksOK'
  BY DEF PrInv, Types, TypeOK, Exiting, LocksOK, Locks, ForkScan, At, Goto
<1>3. StateOK'
  BY DEF PrInv, Types, TypeOK, StateOK, ForkScan, At, Goto
<1>4. LocalsOK'
  BY DEF PrInv, Types, TypeOK, LocalsOK, Scanning, ForkScan, At, Goto
<1>5. ChildOK'
  <2>1. CASE state[i[p]] = "UNUSED"
    <3>1. i[p] \in Proc /\ cpu[p] = "on" /\ pc[p] = "fscan" /\ np[p] = None
      BY <1>0 DEF PrInv, ChildOK, Forking, ForkScan, At
    <3>2. \A q \in Proc : np[q] # i[p]
      BY <2>1, <3>1 DEF PrInv, ChildOK
    <3>3. /\ state' = [state EXCEPT ![i[p]] = "USED"] /\ np' = [np EXCEPT ![p] = i[p]]
          /\ pc' = [pc EXCEPT ![p] = "fcopy"]
      BY <2>1 DEF ForkScan, Goto
    <3>4. i[p] # p /\ \A q \in Proc : pc[q] \in Forking => np[q] # p
      BY <2>1, <3>1 DEF PrInv, ChildOK, StateOK
    <3>5. \A q \in Proc : np[q] # None => np[q] \in Proc /\ np[q] # p
      BY <3>1 DEF PrInv, Types, TypeOK, ChildOK, StateOK
    <3>6. \A q \in Proc : /\ np'[q] = IF q = p THEN i[p] ELSE np[q]
                          /\ state'[q] = IF q = i[p] THEN "USED" ELSE state[q]
                          /\ pc'[q] = IF q = p THEN "fcopy" ELSE pc[q]
      BY <3>3 DEF PrInv, Types, TypeOK
    <3>7. ASSUME NEW r \in Proc
          PROVE  /\ np'[r] # None <=> pc'[r] \in Forking
                 /\ np'[r] # None => state'[np'[r]] = "USED"
                 /\ pc'[r] \in {"fparent", "frun"} => pc'[np'[r]] = "user"
      <4>1. CASE r = p
        BY ZenonT(60), <4>1, <3>1, <3>6 DEF Forking
      <4>2. CASE r # p
        <5>1. CASE np[r] = None
          BY <4>2, <5>1, <3>6 DEF PrInv, ChildOK, Forking
        <5>2. CASE np[r] # None
          <6>1. np'[r] = np[r] /\ pc'[np[r]] = pc[np[r]] /\ state'[np[r]] = state[np[r]]
            BY ZenonT(60), <4>2, <5>2, <3>1, <3>2, <3>5, <3>6
          <6> QED
            BY <6>1, <3>2, <3>6 DEF PrInv, ChildOK
        <5> QED
          BY <5>1, <5>2
      <4> QED
        BY <4>1, <4>2
    <3>8. \A r, q \in Proc : np'[r] # None /\ np'[r] = np'[q] => r = q
      BY <3>2, <3>6 DEF PrInv, ChildOK
    <3> QED
      BY ZenonT(60), <3>7, <3>8 DEF ChildOK
  <2>2. CASE state[i[p]] # "UNUSED"
    BY <2>2 DEF PrInv, ChildOK, ForkScan
  <2> QED
    BY <2>1, <2>2
<1>6. PidOK'
  BY DEF PrInv, Types, TypeOK, PidOK, PidsDistinct, UnusedIsClean, ForkScan
<1>7. FamilyOK'
  BY DEF PrInv, Types, TypeOK, Exiting, Forking, FamilyOK, ForkScan, At, Goto
<1>8. WakeOK'
  BY DEF PrInv, Types, TypeOK, WakeOK, ForkScan, At, Goto
<1> QED
  BY <1>1, <1>2, <1>3, <1>4, <1>5, <1>6, <1>7, <1>8 DEF PrInv

\* allocproc finds no process.
LEMMA ForkFullPrInv ==
  ASSUME KillsProcesses, PrInv, NEW p \in Proc, ForkFull(p)
  PROVE  PrInv'
<1> USE Table DEF fields, locals
<1>1. Types'
  BY DEF PrInv, Types, TypeOK, Label, Preemptible, ForkFull, Goto
<1>2. LocksOK'
  BY DEF PrInv, Exiting, LocksOK, Locks, ForkFull, At, Goto
<1>3. StateOK'
  BY DEF PrInv, StateOK, ForkFull, At, Goto
<1>4. LocalsOK'
  BY DEF PrInv, Types, TypeOK, LocalsOK, ForkFull, At, Goto
<1>5. ChildOK'
  BY DEF PrInv, ChildOK, Forking, ForkFull, At, Goto
<1>6. PidOK'
  BY DEF PrInv, PidOK, PidsDistinct, UnusedIsClean, ForkFull
<1>7. FamilyOK'
  BY DEF PrInv, Exiting, FamilyOK, ForkFull, Goto
<1>8. WakeOK'
  BY DEF PrInv, WakeOK, ForkFull, At, Goto
<1> QED
  BY <1>1, <1>2, <1>3, <1>4, <1>5, <1>6, <1>7, <1>8 DEF PrInv

\* kfork copies, or fails.
LEMMA ForkCopyPrInv ==
  ASSUME KillsProcesses, PrInv, NEW p \in Proc, ForkCopy(p)
  PROVE  PrInv'
<1> USE Table DEF fields, locals
<1>0. np[p] \in Proc /\ state[np[p]] = "USED" /\ np[p] # p /\ np[p] # initproc
  BY DEF PrInv, Types, TypeOK, ChildOK, Forking, StateOK, FamilyOK, ForkCopy, At
<1>1. Types'
  <2>1. CASE pc' = [pc EXCEPT ![p] = "fparent", ![np[p]] = "user"] /\ UNCHANGED <<fields, np>>
    BY <2>1, <1>0 DEF PrInv, Types, TypeOK, Label, Preemptible, ForkCopy
  <2>2. CASE Freeproc(np[p]) /\ np' = [np EXCEPT ![p] = None] /\ Goto(p, "ret")
    BY <2>2, <1>0 DEF PrInv, Types, TypeOK, Label, Preemptible, ForkCopy, Goto, Freeproc
  <2> QED
    BY <2>1, <2>2 DEF ForkCopy
<1>2. LocksOK'
  BY DEF PrInv, Types, TypeOK, Exiting, LocksOK, Locks, StateOK, ChildOK, ForkCopy, At,
         Goto
<1>3. StateOK'
  BY DEF PrInv, Types, TypeOK, StateOK, ChildOK, ForkCopy, At, Goto, Freeproc
<1>4. LocalsOK'
  <2>1. CASE pc' = [pc EXCEPT ![p] = "fparent", ![np[p]] = "user"] /\ UNCHANGED <<fields, np>>
    BY <2>1, <1>0 DEF PrInv, Types, LocalsOK, Scanning, StateOK, ChildOK, Forking,
           ForkCopy
  <2>2. CASE Freeproc(np[p]) /\ np' = [np EXCEPT ![p] = None] /\ Goto(p, "ret")
    BY <2>2, <1>0 DEF PrInv, LocalsOK, Scanning, ChildOK, Forking, ForkCopy, Goto
  <2> QED
    BY <2>1, <2>2 DEF ForkCopy
<1>5. ChildOK'
  <2>0. /\ pc[p] = "fcopy" /\ \A q \in Proc : q # p => np[q] # np[p]
        /\ \A q \in Proc : np[q] # None => np[q] \in Proc /\ np[q] # p
        /\ state[p] = "RUNNING"
    BY <1>0 DEF PrInv, Types, TypeOK, ChildOK, StateOK, ForkCopy, At
  <2>1. CASE pc' = [pc EXCEPT ![p] = "fparent", ![np[p]] = "user"] /\ UNCHANGED <<fields, np>>
    <3>1. \A q \in Proc : pc'[q] = IF q = np[p] THEN "user" ELSE IF q = p THEN "fparent" ELSE pc[q]
      BY <2>1 DEF PrInv, Types
    <3>2. np[np[p]] = None
      BY ZenonT(60), <1>0 DEF PrInv, ChildOK, StateOK, Forking
    <3>3. ASSUME NEW r \in Proc
          PROVE  /\ np[r] # None <=> pc'[r] \in Forking
                 /\ pc'[r] \in {"fparent", "frun"} => pc'[np[r]] = "user"
      <4>1. CASE r \in {p, np[p]}
        BY ZenonT(60), <4>1, <1>0, <3>1, <3>2 DEF Forking
      <4>2. CASE r \notin {p, np[p]}
        <5>1. CASE np[r] = None
          BY <5>1, <2>0, <3>1 DEF PrInv, ChildOK, Forking
        <5>2. CASE np[r] # None
          <6>1. pc'[r] = pc[r] /\ pc'[np[r]] = pc[np[r]]
            BY ZenonT(60), <4>2, <5>2, <1>0, <2>0, <3>1
          <6> QED
            BY <6>1 DEF PrInv, ChildOK
        <5> QED
          BY <5>1, <5>2
      <4> QED
        BY <4>1, <4>2
    <3> QED
      BY ZenonT(60), <2>1, <3>3 DEF PrInv, ChildOK
  <2>2. CASE Freeproc(np[p]) /\ np' = [np EXCEPT ![p] = None] /\ Goto(p, "ret")
    <3>1. \A q \in Proc : /\ pc'[q] = IF q = p THEN "ret" ELSE pc[q]
                          /\ np'[q] = IF q = p THEN None ELSE np[q]
                          /\ state'[q] = IF q = np[p] THEN "UNUSED" ELSE state[q]
      BY <2>2 DEF PrInv, Types, TypeOK, Goto, Freeproc
    <3>2. ASSUME NEW r \in Proc
          PROVE  /\ np'[r] # None <=> pc'[r] \in Forking
                 /\ np'[r] # None => state'[np'[r]] = "USED"
                 /\ pc'[r] \in {"fparent", "frun"} => pc'[np'[r]] = "user"
      <4>1. CASE r = p
        BY <4>1, <3>1 DEF Forking
      <4>2. CASE r # p
        <5>1. CASE np[r] = None
          BY <5>1, <3>1 DEF PrInv, ChildOK, Forking
        <5>2. CASE np[r] # None
          <6>1. np'[r] = np[r] /\ pc'[np[r]] = pc[np[r]] /\ state'[np[r]] = state[np[r]]
            BY ZenonT(60), <4>2, <5>2, <2>0, <3>1
          <6> QED
            BY <5>2, <6>1, <3>1 DEF PrInv, ChildOK
        <5> QED
          BY <5>1, <5>2
      <4> QED
        BY <4>1, <4>2
    <3>3. \A r, q \in Proc : np'[r] # None /\ np'[r] = np'[q] => r = q
      BY <3>1 DEF PrInv, ChildOK
    <3> QED
      BY <3>2, <3>3 DEF ChildOK
  <2> QED
    BY <2>1, <2>2 DEF ForkCopy
<1>6. PidOK'
  <2>1. CASE pc' = [pc EXCEPT ![p] = "fparent", ![np[p]] = "user"] /\ UNCHANGED <<fields, np>>
    BY <2>1 DEF PrInv, PidOK, PidsDistinct, UnusedIsClean, ForkCopy
  <2>2. CASE Freeproc(np[p]) /\ np' = [np EXCEPT ![p] = None] /\ Goto(p, "ret")
    BY <1>0 DEF PrInv, Types, TypeOK, PidOK, PidsDistinct, UnusedIsClean, ForkCopy,
                Freeproc
  <2> QED
    BY <2>1, <2>2 DEF ForkCopy
<1>7. FamilyOK'
  <2>1. CASE pc' = [pc EXCEPT ![p] = "fparent", ![np[p]] = "user"] /\ UNCHANGED <<fields, np>>
    BY <2>1 DEF PrInv, Types, Exiting, FamilyOK, ForkCopy
  <2>2. CASE Freeproc(np[p]) /\ np' = [np EXCEPT ![p] = None] /\ Goto(p, "ret")
    BY <2>2, <1>0 DEF PrInv, Types, Exiting, ChildOK, FamilyOK, ForkCopy, Goto, Freeproc
  <2> QED
    BY <2>1, <2>2 DEF ForkCopy
<1>8. WakeOK'
  BY DEF PrInv, Types, TypeOK, StateOK, ChildOK, WakeOK, ForkCopy, At, Goto, Freeproc
<1> QED
  BY <1>1, <1>2, <1>3, <1>4, <1>5, <1>6, <1>7, <1>8 DEF PrInv

\* kfork sets the parent.
LEMMA ForkParentPrInv ==
  ASSUME KillsProcesses, PrInv, NEW p \in Proc, ForkParent(p)
  PROVE  PrInv'
<1> USE Table DEF fields, locals
<1>1. Types'
  BY DEF PrInv, Types, TypeOK, Label, Preemptible, ChildOK, Forking, ForkParent, At, Goto
<1>2. LocksOK'
  BY DEF PrInv, Exiting, LocksOK, Locks, ForkParent, At, Goto
<1>3. StateOK'
  BY DEF PrInv, StateOK, ForkParent, At, Goto
<1>4. LocalsOK'
  BY DEF PrInv, LocalsOK, Scanning, ForkParent, At, Goto
<1>5. ChildOK'
  BY DEF PrInv, ChildOK, Forking, ForkParent, At, Goto
<1>6. PidOK'
  BY DEF PrInv, ChildOK, PidOK, PidsDistinct, UnusedIsClean, ForkParent
<1>7. FamilyOK'
  BY DEF PrInv, Types, TypeOK, Exiting, StateOK, ChildOK, Forking, FamilyOK, ForkParent,
         At, Goto
<1>8. WakeOK'
  BY DEF PrInv, Types, TypeOK, Label, Preemptible, LocksOK, StateOK, ChildOK, WakeOK,
         ForkParent, Goto
<1> QED
  BY <1>1, <1>2, <1>3, <1>4, <1>5, <1>6, <1>7, <1>8 DEF PrInv

\* kfork makes the child RUNNABLE.
LEMMA ForkRunPrInv ==
  ASSUME KillsProcesses, PrInv, NEW p \in Proc, ForkRun(p)
  PROVE  PrInv'
<1> USE Table DEF fields, locals
<1>0. np[p] \in Proc /\ state[np[p]] = "USED" /\ np[p] # p
  <2>1. cpu[p] = "on" /\ pc[p] = "frun" /\ np \in [Proc -> Proc \cup {None}]
    BY DEF PrInv, Types, TypeOK, ForkRun, At
  <2>2. np[p] # None /\ state[np[p]] = "USED" /\ pc[np[p]] = "user"
    BY ZenonT(60), <2>1 DEF PrInv, ChildOK, Forking
  <2> QED
    BY <2>1, <2>2
<1>1. Types'
  BY ZenonT(60) DEF PrInv, Types, TypeOK, Label, Preemptible, ChildOK, Forking, ForkRun, At, Goto
<1>2. LocksOK'
  BY DEF PrInv, Exiting, LocksOK, Locks, ForkRun, At, Goto
<1>3. StateOK'
  <2>1. /\ state' = [state EXCEPT ![np[p]] = "RUNNABLE"] /\ pc' = [pc EXCEPT ![p] = "ret"]
        /\ cpu[p] = "on" /\ pc[p] = "frun" /\ pc[np[p]] = "user"
        /\ UNCHANGED <<cpu, chan>>
    BY DEF PrInv, ChildOK, ForkRun, At, Goto
  <2> QED
    BY <1>0, <2>1 DEF PrInv, StateOK
<1>4. LocalsOK'
  BY DEF PrInv, LocalsOK, Scanning, ForkRun, At, Goto
<1>5. ChildOK'
  BY DEF PrInv, Types, TypeOK, ChildOK, Forking, ForkRun, At, Goto
<1>6. PidOK'
  BY DEF PrInv, PidOK, PidsDistinct, UnusedIsClean, ForkRun
<1>7. FamilyOK'
  BY DEF PrInv, Types, Exiting, FamilyOK, ForkRun, At, Goto
<1>8. WakeOK'
  BY DEF PrInv, WakeOK, ForkRun, At, Goto
<1> QED
  BY <1>1, <1>2, <1>3, <1>4, <1>5, <1>6, <1>7, <1>8 DEF PrInv

=============================================================================
