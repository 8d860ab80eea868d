----------------------------- MODULE ProcProofs -----------------------------
(***************************************************************************)
(* Proofs about the life of processes: kexit, kwait and kkill keep the     *)
(* invariant of ProcInv, and what follows from it.                         *)
(***************************************************************************)
EXTENDS ProcInv

\* Time enough for the provers on a slow machine.
USE SMTT(60)

\* kexit takes wait_lock.
LEMMA ExitAcquirePrInv ==
  ASSUME KillsProcesses, PrInv, NEW p \in Proc, ExitAcquire(p)
  PROVE  PrInv'
<1> USE Table DEF fields, locals
<1>1. Types'
  BY DEF PrInv, Types, TypeOK, Label, Exiting, ExitAcquire, Goto
<1>2. LocksOK'
  BY DEF PrInv, Types, Exiting, LocksOK, Locks, ExitAcquire, At, Goto
<1>3. StateOK'
  BY DEF PrInv, StateOK, ExitAcquire, At, Goto
<1>4. LocalsOK'
  BY DEF PrInv, LocalsOK, Scanning, ExitAcquire, At, Goto
<1>5. ChildOK'
  BY DEF PrInv, ChildOK, Forking, ExitAcquire, At, Goto
<1>6. PidOK'
  BY DEF PrInv, PidOK, PidsDistinct, UnusedIsClean, ExitAcquire
<1>7. FamilyOK'
  BY DEF PrInv, LocalsOK, Scanning, FamilyOK, ExitAcquire, At, Goto
<1>8. WakeOK'
  BY DEF PrInv, Types, TypeOK, Label, Preemptible, LocksOK, StateOK, WakeOK, ExitAcquire,
         Goto
<1> QED
  BY <1>1, <1>2, <1>3, <1>4, <1>5, <1>6, <1>7, <1>8 DEF PrInv

\* reparent looks at one process.
LEMMA ExitReparentPrInv ==
  ASSUME KillsProcesses, PrInv, NEW p \in Proc, ExitReparent(p)
  PROVE  PrInv'
<1> USE Table DEF fields, locals
<1>0. /\ i[p] = NPROC => ~(i[p] < NPROC)
      /\ i[p] < NPROC => i[p] # NPROC
      /\ i[p] # NPROC => i[p] \in Proc /\ i[p] < NPROC /\ i[p] + 1 \in 0..NPROC
  BY ProcSizes DEF PrInv, Types, TypeOK
<1>1. Types'
  BY DEF PrInv, Types, TypeOK, Label, Exiting, ExitReparent, Goto
<1>2. LocksOK'
  BY DEF PrInv, Types, Exiting, LocksOK, Locks, ExitReparent, At, Goto
<1>3. StateOK'
  BY DEF PrInv, Types, StateOK, ExitReparent, At, Goto
<1>4. LocalsOK'
  BY DEF PrInv, Types, LocalsOK, Scanning, ExitReparent, At, Goto
<1>5. ChildOK'
  <2>1. cpu[p] = "on" /\ state[p] = "RUNNING" /\ np' = np
    BY DEF PrInv, StateOK, ExitReparent, At
  <2>2. \A q \in Proc \ {p} : pc'[q] = pc[q]
    BY DEF PrInv, Types, ExitReparent, Goto
  <2>3. /\ pc'[p] \in Forking <=> pc[p] \in Forking
        /\ pc'[p] \in {"fparent", "frun"} => pc[p] \in {"fparent", "frun"}
    BY DEF PrInv, Types, Forking, ExitReparent, At, Goto
  <2>4. \A q \in Proc : state[q] = "USED" => state'[q] = "USED"
    BY DEF ExitReparent
  <2> QED
    BY <2>1, <2>2, <2>3, <2>4, ChildFrame
<1>6. PidOK'
  BY DEF PrInv, Types, TypeOK, PidOK, PidsDistinct, UnusedIsClean, ExitReparent
<1>7. FamilyOK'
  <2>1. CASE parent[i[p]] = p
    <3>0. cpu[p] = "on" /\ pc[p] = "xreparent" /\ i[p] \in Proc /\ p # initproc
      BY <1>0 DEF PrInv, FamilyOK, Exiting, ExitReparent, At
    <3>1. /\ cpu[p] = "on" /\ pc[p] = "xreparent" /\ i[p] \in Proc /\ p # initproc
          /\ parent' = [parent EXCEPT ![i[p]] = initproc]
          /\ pc' = [pc EXCEPT ![p] = "xwakeinit"]
          /\ i' = [i EXCEPT ![p] = @ + 1]
          /\ UNCHANGED <<state, np>>
      BY <2>1, <3>0 DEF ExitReparent, Goto
    <3>2. i[p] # initproc
      BY <2>1 DEF PrInv, FamilyOK
    <3>3. \A q \in Proc : pc[q] \in Forking => np[q] \in Proc
      BY DEF PrInv, Types, TypeOK, ChildOK
    <3>4. \A q, r \in Proc : parent'[r] = q /\ q # initproc => parent[r] = q /\ r # i[p]
      <4>1. \A r \in Proc : parent'[r] = IF r = i[p] THEN initproc ELSE parent[r]
        BY <3>1 DEF PrInv, Types, TypeOK
      <4> QED
        BY <4>1
    <3>5. \A q \in Proc : parent'[q] # None <=> parent[q] # None
      BY <2>1, <3>1
    <3>6. \A q, r \in Proc : parent'[r] = q =>
            /\ state'[q] \notin {"UNUSED", "USED", "ZOMBIE"}
            /\ pc'[q] \notin {"xwakeparent", "xzombie"}
            /\ pc'[q] \in {"xreparent", "xwakeinit"} => r >= i'[q]
      <4> SUFFICES ASSUME NEW q \in Proc, NEW r \in Proc, parent'[r] = q
                   PROVE  /\ state'[q] \notin {"UNUSED", "USED", "ZOMBIE"}
                          /\ pc'[q] \notin {"xwakeparent", "xzombie"}
                          /\ pc'[q] \in {"xreparent", "xwakeinit"} => r >= i'[q]
        OBVIOUS
      <4>1. CASE q = initproc
        BY <4>1, <3>1 DEF PrInv, FamilyOK, Exiting
      <4>2. CASE q # initproc
        <5>1. parent[r] = q /\ r # i[p]
          BY <4>2, <3>4
        <5>2. CASE q = p
          BY <5>2, <3>1 DEF PrInv, Types, TypeOK, FamilyOK
        <5>3. CASE q # p
          BY <5>1, <5>3, <3>1 DEF PrInv, FamilyOK
        <5> QED
          BY <5>2, <5>3
      <4> QED
        BY <4>1, <4>2
    <3>7. \A q \in Proc : pc'[q] = "frun" => pc[q] = "frun"
      BY <3>1
    <3>8. \A q \in Proc : parent'[q] # q
      BY <3>1, <3>2 DEF PrInv, FamilyOK
    <3>9. parent'[initproc] = None /\ pc'[initproc] = pc[initproc]
      BY <3>1, <3>2 DEF PrInv, FamilyOK
    <3> QED
      BY <3>1, <3>6, <3>9 DEF PrInv, FamilyOK
  <2>2. CASE parent[i[p]] # p
    BY <2>2 DEF PrInv, Types, TypeOK, FamilyOK, ExitReparent
  <2> QED
    BY <2>1, <2>2
<1>8. WakeOK'
  BY DEF PrInv, Types, TypeOK, Label, Preemptible, LocksOK, StateOK, LocalsOK, WakeOK,
         ExitReparent, At, Goto
<1> QED
  BY <1>1, <1>2, <1>3, <1>4, <1>5, <1>6, <1>7, <1>8 DEF PrInv

\* reparent returns.
LEMMA ExitReparentedPrInv ==
  ASSUME KillsProcesses, PrInv, NEW p \in Proc, ExitReparented(p)
  PROVE  PrInv'
<1> USE Table DEF fields, locals
<1>1. Types'
  BY DEF PrInv, Types, TypeOK, Label, Exiting, ExitReparented, Goto
<1>2. LocksOK'
  BY DEF PrInv, Exiting, LocksOK, Locks, ExitReparented, At, Goto
<1>3. StateOK'
  BY DEF PrInv, StateOK, ExitReparented, At, Goto
<1>4. LocalsOK'
  BY DEF PrInv, Types, TypeOK, LocalsOK, ExitReparented, Goto
<1>5. ChildOK'
  BY DEF PrInv, ChildOK, Forking, ExitReparented, At, Goto
<1>6. PidOK'
  BY DEF PrInv, PidOK, PidsDistinct, UnusedIsClean, ExitReparented
<1>7. FamilyOK'
  BY DEF PrInv, Types, TypeOK, Label, Preemptible, FamilyOK, ExitReparented, At, Goto
<1>8. WakeOK'
  BY DEF PrInv, LocalsOK, WakeOK, ExitReparented, At, Goto
<1> QED
  BY <1>1, <1>2, <1>3, <1>4, <1>5, <1>6, <1>7, <1>8 DEF PrInv

\* wakeup(initproc).
LEMMA ExitWakeInitPrInv ==
  ASSUME KillsProcesses, PrInv, NEW p \in Proc, ExitWakeInit(p)
  PROVE  PrInv'
<1> USE Table DEF fields, locals
<1>0. /\ j[p] = NPROC => ~(j[p] < NPROC)
      /\ j[p] < NPROC => j[p] # NPROC
      /\ j[p] # NPROC => j[p] \in Proc /\ j[p] < NPROC /\ j[p] + 1 \in 0..NPROC
  BY ProcSizes DEF PrInv, Types, TypeOK
<1>1. Types'
  <2>1. CASE j[p] = NPROC
    BY <1>0 DEF PrInv, Types, TypeOK, Label, Exiting, ExitWakeInit, Goto, Wakeup
  <2>2. CASE j[p] # NPROC /\ state' = state
    BY <2>2, <1>0 DEF PrInv, Types, TypeOK, ExitWakeInit, Wakeup
  <2>3. CASE j[p] # NPROC /\ state' = [state EXCEPT ![j[p]] = "RUNNABLE"]
    BY <2>3, <1>0 DEF PrInv, Types, TypeOK, ExitWakeInit, Wakeup
  <2> QED
    BY <2>1, <2>2, <2>3 DEF ExitWakeInit, Wakeup
<1>2. LocksOK'
  BY DEF PrInv, Types, Exiting, LocksOK, Locks, ExitWakeInit, At, Goto, Wakeup
<1>3. StateOK'
  BY DEF PrInv, Types, TypeOK, Preemptible, StateOK, ExitWakeInit, At, Goto, Wakeup
<1>4. LocalsOK'
  <2>1. CASE j[p] = NPROC
    BY <2>1 DEF PrInv, Types, TypeOK, LocalsOK, Scanning, ExitWakeInit, Goto, Wakeup
  <2>2. CASE j[p] # NPROC /\ state' = state
    BY <2>2 DEF PrInv, Types, TypeOK, LocalsOK, ExitWakeInit, At, Wakeup
  <2>3. CASE j[p] # NPROC /\ state' = [state EXCEPT ![j[p]] = "RUNNABLE"]
    BY <2>3 DEF PrInv, Types, TypeOK, LocalsOK, ExitWakeInit, At, Wakeup
  <2> QED
    BY <2>1, <2>2, <2>3 DEF ExitWakeInit, Wakeup
<1>5. ChildOK'
  <2>1. cpu[p] = "on" /\ state[p] = "RUNNING" /\ np' = np
    BY DEF PrInv, StateOK, ExitWakeInit, At, Wakeup
  <2>2. \A q \in Proc \ {p} : pc'[q] = pc[q]
    BY DEF PrInv, Types, ExitWakeInit, Goto, Wakeup
  <2>3. /\ pc'[p] \in Forking <=> pc[p] \in Forking
        /\ pc'[p] \in {"fparent", "frun"} => pc[p] \in {"fparent", "frun"}
    BY DEF PrInv, Types, Forking, ExitWakeInit, At, Goto, Wakeup
  <2>4. \A q \in Proc : state[q] = "USED" => state'[q] = "USED"
    BY DEF PrInv, Types, TypeOK, ExitWakeInit, Wakeup
  <2> QED
    BY <2>1, <2>2, <2>3, <2>4, ChildFrame
<1>6. PidOK'
  BY DEF PrInv, Types, TypeOK, PidOK, PidsDistinct, UnusedIsClean, ExitWakeInit, Wakeup
<1>7. FamilyOK'
  BY DEF PrInv, Types, TypeOK, Label, Preemptible, LocalsOK, FamilyOK, ExitWakeInit,
         Goto, Wakeup
<1>8. WakeOK'
  BY DEF PrInv, Types, TypeOK, StateOK, WakeOK, ExitWakeInit, At, Goto, Wakeup
<1> QED
  BY <1>1, <1>2, <1>3, <1>4, <1>5, <1>6, <1>7, <1>8 DEF PrInv

\* wakeup(p->parent).
LEMMA ExitWakeParentPrInv ==
  ASSUME KillsProcesses, PrInv, NEW p \in Proc, ExitWakeParent(p)
  PROVE  PrInv'
<1> USE Table DEF fields, locals
<1>0. /\ j[p] = NPROC => ~(j[p] < NPROC)
      /\ j[p] < NPROC => j[p] # NPROC
      /\ j[p] # NPROC => j[p] \in Proc /\ j[p] < NPROC /\ j[p] + 1 \in 0..NPROC
  BY ProcSizes DEF PrInv, Types, TypeOK
<1>1. Types'
  <2>1. CASE j[p] = NPROC
    BY <1>0 DEF PrInv, Types, TypeOK, Label, Exiting, ExitWakeParent, Goto, Wakeup
  <2>2. CASE j[p] # NPROC /\ state' = state
    BY <2>2, <1>0 DEF PrInv, Types, TypeOK, ExitWakeParent, Wakeup
  <2>3. CASE j[p] # NPROC /\ state' = [state EXCEPT ![j[p]] = "RUNNABLE"]
    BY <2>3, <1>0 DEF PrInv, Types, TypeOK, ExitWakeParent, Wakeup
  <2> QED
    BY <2>1, <2>2, <2>3 DEF ExitWakeParent, Wakeup
<1>2. LocksOK'
  BY DEF PrInv, Types, Exiting, LocksOK, Locks, ExitWakeParent, At, Goto, Wakeup
<1>3. StateOK'
  BY DEF PrInv, Types, TypeOK, Preemptible, StateOK, ExitWakeParent, At, Goto, Wakeup
<1>4. LocalsOK'
  <2>1. CASE j[p] = NPROC
    BY DEF PrInv, Types, TypeOK, LocalsOK, Scanning, ExitWakeParent, At, Goto, Wakeup
  <2>2. CASE j[p] # NPROC /\ state' = state
    BY <2>2 DEF PrInv, Types, TypeOK, LocalsOK, ExitWakeParent, At, Wakeup
  <2>3. CASE j[p] # NPROC /\ state' = [state EXCEPT ![j[p]] = "RUNNABLE"]
    BY <2>3 DEF PrInv, Types, TypeOK, LocalsOK, ExitWakeParent, At, Wakeup
  <2> QED
    BY <2>1, <2>2, <2>3 DEF ExitWakeParent, Wakeup
<1>5. ChildOK'
  <2>1. cpu[p] = "on" /\ state[p] = "RUNNING" /\ np' = np
    BY DEF PrInv, StateOK, ExitWakeParent, At, Wakeup
  <2>2. \A q \in Proc \ {p} : pc'[q] = pc[q]
    BY DEF PrInv, Types, ExitWakeParent, Goto, Wakeup
  <2>3. /\ pc'[p] \in Forking <=> pc[p] \in Forking
        /\ pc'[p] \in {"fparent", "frun"} => pc[p] \in {"fparent", "frun"}
    BY DEF PrInv, Types, Forking, ExitWakeParent, At, Goto, Wakeup
  <2>4. \A q \in Proc : state[q] = "USED" => state'[q] = "USED"
    BY DEF PrInv, Types, TypeOK, ExitWakeParent, Wakeup
  <2> QED
    BY <2>1, <2>2, <2>3, <2>4, ChildFrame
<1>6. PidOK'
  BY DEF PrInv, Types, TypeOK, PidOK, PidsDistinct, UnusedIsClean, ExitWakeParent, Wakeup
<1>7. FamilyOK'
  BY DEF PrInv, Types, TypeOK, Label, Preemptible, FamilyOK, ExitWakeParent, At, Goto,
         Wakeup
<1>8. WakeOK'
  BY DEF PrInv, Types, TypeOK, Preemptible, StateOK, WakeOK, ExitWakeParent, At, Goto,
         Wakeup
<1> QED
  BY <1>1, <1>2, <1>3, <1>4, <1>5, <1>6, <1>7, <1>8 DEF PrInv

\* kexit ends.
LEMMA ExitZombiePrInv ==
  ASSUME KillsProcesses, PrInv, NEW p \in Proc, ExitZombie(p)
  PROVE  PrInv'
<1> USE Table DEF fields, locals
<1>1. Types'
  BY DEF PrInv, Types, TypeOK, ExitZombie, Sched
<1>2. LocksOK'
  BY DEF PrInv, Types, TypeOK, Label, Preemptible, LocksOK, Locks, ExitZombie, At, Sched
<1>3. StateOK'
  BY DEF PrInv, Types, TypeOK, StateOK, ExitZombie, At, Sched
<1>4. LocalsOK'
  BY DEF PrInv, LocalsOK, ExitZombie
<1>5. ChildOK'
  BY DEF PrInv, StateOK, ChildOK, ExitZombie, At, Sched
<1>6. PidOK'
  BY DEF PrInv, PidOK, PidsDistinct, UnusedIsClean, ExitZombie, Sched
<1>7. FamilyOK'
  BY DEF PrInv, Types, Label, Preemptible, StateOK, FamilyOK, ExitZombie, At, Sched
<1>8. WakeOK'
  BY DEF PrInv, Types, TypeOK, Label, Preemptible, LocksOK, StateOK, WakeOK, ExitZombie,
         At, Sched
<1> QED
  BY <1>1, <1>2, <1>3, <1>4, <1>5, <1>6, <1>7, <1>8 DEF PrInv

\* kwait takes wait_lock.
LEMMA WaitAcquirePrInv ==
  ASSUME KillsProcesses, PrInv, NEW p \in Proc, WaitAcquire(p)
  PROVE  PrInv'
<1> USE Table DEF fields, locals
<1>1. Types'
  BY DEF PrInv, Types, TypeOK, Label, WaitAcquire, Goto
<1>2. LocksOK'
  BY DEF PrInv, Types, LocksOK, Locks, WaitAcquire, At, Goto
<1>3. StateOK'
  BY DEF PrInv, StateOK, WaitAcquire, At, Goto
<1>4. LocalsOK'
  BY DEF PrInv, LocalsOK, Scanning, WaitAcquire, At, Goto
<1>5. ChildOK'
  BY DEF PrInv, ChildOK, Forking, WaitAcquire, At, Goto
<1>6. PidOK'
  BY DEF PrInv, PidOK, PidsDistinct, UnusedIsClean, WaitAcquire
<1>7. FamilyOK'
  BY DEF PrInv, Exiting, FamilyOK, WaitAcquire, Goto
<1>8. WakeOK'
  BY DEF PrInv, LocalsOK, Scanning, WakeOK, WaitAcquire, At, Goto
<1> QED
  BY <1>1, <1>2, <1>3, <1>4, <1>5, <1>6, <1>7, <1>8 DEF PrInv

\* kwait looks at one process.
LEMMA WaitScanPrInv ==
  ASSUME KillsProcesses, PrInv, NEW p \in Proc, WaitScan(p)
  PROVE  PrInv'
<1> USE Table DEF fields, locals
<1>1. Types'
  BY DEF PrInv, Types, TypeOK, WaitScan
<1>2. LocksOK'
  BY DEF PrInv, LocksOK, Locks, WaitScan
<1>3. StateOK'
  BY DEF PrInv, StateOK, WaitScan
<1>4. LocalsOK'
  BY DEF PrInv, LocalsOK, Scanning, WaitScan, At
<1>5. ChildOK'
  BY DEF PrInv, ChildOK, WaitScan
<1>6. PidOK'
  BY DEF PrInv, PidOK, PidsDistinct, UnusedIsClean, WaitScan
<1>7. FamilyOK'
  BY DEF PrInv, FamilyOK, WaitScan, At
<1>8. WakeOK'
  BY DEF PrInv, Types, TypeOK, Exiting, WakeOK, WaitScan
<1> QED
  BY <1>1, <1>2, <1>3, <1>4, <1>5, <1>6, <1>7, <1>8 DEF PrInv

\* kwait frees a child.
LEMMA WaitReapPrInv ==
  ASSUME KillsProcesses, PrInv, NEW p \in Proc, WaitReap(p)
  PROVE  PrInv'
<1> USE Table DEF fields, locals
<1>0. /\ i[p] = NPROC => ~(i[p] < NPROC)
      /\ i[p] < NPROC => i[p] # NPROC
      /\ i[p] # NPROC => i[p] \in Proc /\ i[p] < NPROC /\ i[p] + 1 \in 0..NPROC
  BY ProcSizes DEF PrInv, Types, TypeOK
<1>1. Types'
  <2>1. CASE Freeproc(i[p])
    BY <2>1 DEF PrInv, Types, TypeOK, Label, Preemptible, WaitReap, Goto, Freeproc,
                ScanOver
  <2>2. CASE UNCHANGED fields
    BY <2>2 DEF PrInv, Types, TypeOK, Label, Preemptible, WaitReap, Goto, ScanOver
  <2> QED
    BY <2>1, <2>2 DEF WaitReap
<1>2. LocksOK'
  BY DEF PrInv, Types, Exiting, LocksOK, Locks, WaitReap, At, Goto
<1>3. StateOK'
  BY DEF PrInv, Types, TypeOK, LocksOK, Locks, StateOK, WaitReap, At, Goto, Freeproc
<1>4. LocalsOK'
  <2>1. CASE Freeproc(i[p])
    BY DEF PrInv, Types, TypeOK, LocalsOK, WaitReap, At, Goto, ScanOver
  <2>2. CASE UNCHANGED fields
    BY DEF PrInv, Types, TypeOK, LocalsOK, WaitReap, At, Goto, ScanOver
  <2> QED
    BY <2>1, <2>2 DEF WaitReap
<1>5. ChildOK'
  <2>1. cpu[p] = "on" /\ state[p] = "RUNNING" /\ np' = np
    BY DEF PrInv, StateOK, WaitReap, At
  <2>2. \A q \in Proc \ {p} : pc'[q] = pc[q]
    BY DEF WaitReap, Goto
  <2>3. /\ pc'[p] \in Forking <=> pc[p] \in Forking
        /\ pc'[p] \in {"fparent", "frun"} => pc[p] \in {"fparent", "frun"}
    BY DEF Forking, WaitReap, At, Goto
  <2>4. \A q \in Proc : state[q] = "USED" => state'[q] = "USED"
    BY DEF PrInv, Types, TypeOK, WaitReap, Freeproc
  <2> QED
    BY <2>1, <2>2, <2>3, <2>4, ChildFrame
<1>6. PidOK'
  <2>1. CASE Freeproc(i[p])
    BY DEF PrInv, Types, TypeOK, PidOK, PidsDistinct, UnusedIsClean, FamilyOK, WaitReap,
           Freeproc
  <2>2. CASE UNCHANGED fields
    BY <2>2 DEF PrInv, PidOK, PidsDistinct, UnusedIsClean, WaitReap
  <2> QED
    BY <2>1, <2>2 DEF WaitReap
<1>7. FamilyOK'
  <2>1. CASE Freeproc(i[p])
    <3> DEFINE z == i[p]
    <3>1. /\ z \in Proc /\ state[z] = "ZOMBIE" /\ z # initproc /\ z # p
          /\ state[p] = "RUNNING" /\ pc[p] = "wscan"
          /\ \A q \in Proc : parent[q] # z
      BY ZenonT(60), <1>0 DEF PrInv, StateOK, FamilyOK, WaitReap, At
    <3>2. /\ \A q \in Proc : state'[q] = IF q = z THEN "UNUSED" ELSE state[q]
          /\ \A q \in Proc : parent'[q] = IF q = z THEN None ELSE parent[q]
      BY <2>1, <3>1 DEF PrInv, Types, TypeOK, Freeproc
    <3>3. /\ \A q \in Proc : pc'[q] = IF q = p THEN "ret" ELSE pc[q]
          /\ \A q \in Proc \ {p} : i'[q] = i[q]
          /\ np' = np
      BY DEF PrInv, Types, TypeOK, WaitReap, Goto, ScanOver
    <3>4. \A q \in Proc : pc[q] = "frun" => np[q] # z /\ np[q] \in Proc
      BY <3>1 DEF PrInv, Types, TypeOK, ChildOK, Forking
    <3>5. FamilyOK
      BY DEF PrInv
    <3> HIDE DEF z
    <3>6. /\ state'[initproc] \notin {"UNUSED", "USED", "ZOMBIE"}
          /\ pc'[initproc] \notin Exiting \cup {"xacquire"}
          /\ parent'[initproc] = None
          /\ \A q \in Proc : parent'[q] # q
      BY <3>1, <3>2, <3>3, <3>5 DEF FamilyOK, Exiting
    <3>7. ASSUME NEW q \in Proc \ {initproc}, state'[q] \notin {"UNUSED", "USED"}
          PROVE  parent'[q] # None
      BY <3>2, <3>5, <3>7 DEF FamilyOK
    <3>8. ASSUME NEW q \in Proc, pc'[q] = "frun"
          PROVE  parent'[np'[q]] # None
      <4>1. q # p /\ pc[q] = "frun"
        BY <3>3, <3>8
      <4> QED
        BY ZenonT(60), <4>1, <3>2, <3>3, <3>4, <3>5 DEF FamilyOK
    <3>9. ASSUME NEW q \in Proc, NEW r \in Proc, parent'[r] = q
          PROVE  /\ state'[q] \notin {"UNUSED", "USED", "ZOMBIE"}
                 /\ pc'[q] \notin {"xwakeparent", "xzombie"}
                 /\ pc'[q] \in {"xreparent", "xwakeinit"} => r >= i'[q]
      BY <3>1, <3>2, <3>3, <3>5, <3>9 DEF FamilyOK
    <3> QED
      BY <3>6, <3>7, <3>8, <3>9 DEF FamilyOK
  <2>2. CASE UNCHANGED fields
    BY <2>2 DEF PrInv, Types, TypeOK, Preemptible, Exiting, LocksOK, StateOK,
                UnusedIsClean, FamilyOK, WaitReap, At, Goto
  <2> QED
    BY <2>1, <2>2 DEF WaitReap
<1>8. WakeOK'
  BY DEF PrInv, Types, TypeOK, Preemptible, LocksOK, StateOK, WakeOK, WaitReap, At, Goto,
         Freeproc
<1> QED
  BY <1>1, <1>2, <1>3, <1>4, <1>5, <1>6, <1>7, <1>8 DEF PrInv

\* kwait has looked at all.
LEMMA WaitTestPrInv ==
  ASSUME KillsProcesses, PrInv, NEW p \in Proc, WaitTest(p)
  PROVE  PrInv'
<1> USE Table DEF fields, locals
<1>1. Types'
  BY DEF PrInv, Types, TypeOK, Label, Preemptible, WaitTest, Goto, ScanOver
<1>2. LocksOK'
  BY DEF PrInv, Types, Exiting, LocksOK, Locks, WaitTest, At, Goto
<1>3. StateOK'
  BY DEF PrInv, Types, StateOK, WaitTest, At, Goto
<1>4. LocalsOK'
  BY DEF PrInv, Types, TypeOK, LocalsOK, WaitTest, At, Goto, ScanOver
<1>5. ChildOK'
  <2>1. cpu[p] = "on" /\ state[p] = "RUNNING" /\ np' = np
    BY DEF PrInv, StateOK, WaitTest, At
  <2>2. \A q \in Proc \ {p} : pc'[q] = pc[q]
    BY DEF PrInv, Types, WaitTest, Goto
  <2>3. /\ pc'[p] \in Forking <=> pc[p] \in Forking
        /\ pc'[p] \in {"fparent", "frun"} => pc[p] \in {"fparent", "frun"}
    BY DEF PrInv, Types, Forking, WaitTest, At, Goto
  <2>4. \A q \in Proc : state[q] = "USED" => state'[q] = "USED"
    BY DEF WaitTest
  <2> QED
    BY <2>1, <2>2, <2>3, <2>4, ChildFrame
<1>6. PidOK'
  BY DEF PrInv, PidOK, PidsDistinct, UnusedIsClean, WaitTest
<1>7. FamilyOK'
  BY DEF PrInv, Types, Exiting, FamilyOK, WaitTest, Goto, ScanOver
<1>8. WakeOK'
  BY DEF PrInv, Types, TypeOK, WakeOK, WaitTest, At, Goto, ScanOver
<1> QED
  BY <1>1, <1>2, <1>3, <1>4, <1>5, <1>6, <1>7, <1>8 DEF PrInv

\* kwait sleeps.
LEMMA WaitSleepPrInv ==
  ASSUME KillsProcesses, PrInv, NEW p \in Proc, WaitSleep(p)
  PROVE  PrInv'
<1> USE Table DEF fields, locals
<1>1. Types'
  BY DEF PrInv, Types, TypeOK, Label, Preemptible, WaitSleep, Goto, Sched
<1>2. LocksOK'
  BY DEF PrInv, Types, TypeOK, LocksOK, Locks, WaitSleep, At, Goto, Sched
<1>3. StateOK'
  BY DEF PrInv, Types, TypeOK, StateOK, WaitSleep, Goto, Sched
<1>4. LocalsOK'
  BY DEF PrInv, LocalsOK, Scanning, WaitSleep, At, Goto
<1>5. ChildOK'
  BY DEF PrInv, StateOK, ChildOK, Forking, WaitSleep, At, Goto, Sched
<1>6. PidOK'
  BY ZenonT(60) DEF PrInv, Types, TypeOK, PidOK, PidsDistinct, UnusedIsClean, WaitSleep, Sched
<1>7. FamilyOK'
  BY DEF PrInv, Exiting, StateOK, FamilyOK, WaitSleep, At, Goto, Sched
<1>8. WakeOK'
  BY DEF PrInv, Types, Label, Preemptible, LocksOK, WakeOK, WaitSleep, At, Goto, Sched
<1> QED
  BY <1>1, <1>2, <1>3, <1>4, <1>5, <1>6, <1>7, <1>8 DEF PrInv

\* kkill looks at one process.
LEMMA KillScanPrInv ==
  ASSUME KillsProcesses, PrInv, NEW p \in Proc, KillScan(p)
  PROVE  PrInv'
<1> USE Table DEF fields, locals
<1>0. /\ i[p] = NPROC => ~(i[p] < NPROC)
      /\ i[p] # NPROC => i[p] \in Proc /\ i[p] < NPROC /\ i[p] + 1 \in 0..NPROC
  BY ProcSizes DEF PrInv, Types, TypeOK
<1>a. target[p] \notin {0, 1}
  BY DEF PrInv, LocalsOK, KillScan, At, KillsProcesses
<1>b. i[p] # NPROC /\ pid[i[p]] = target[p] => i[p] # initproc /\ state[i[p]] # "UNUSED"
  BY ZenonT(60), <1>0, <1>a DEF PrInv, PidOK, UnusedIsClean
<1>c. UNCHANGED <<chan, pid, parent, plock, waitLock, nextpid, cpu, j, np, havekids>>
  BY DEF KillScan
<1>d. cpu[p] = "on" /\ pc[p] = "kscan"
  BY DEF KillScan, At
<1>e. i[p] # NPROC /\ pid[i[p]] = target[p] =>
        /\ killed' = [killed EXCEPT ![i[p]] = TRUE]
        /\ i' = [i EXCEPT ![p] = 0]
        /\ target' = [target EXCEPT ![p] = 0]
        /\ pc' = [pc EXCEPT ![p] = "ret"]
        /\ \/ state' = state
           \/ state[i[p]] = "SLEEPING" /\ state' = [state EXCEPT ![i[p]] = "RUNNABLE"]
  BY DEF KillScan, Goto
<1>1. Types'
  <2>1. CASE i[p] # NPROC /\ pid[i[p]] # target[p]
    BY <2>1, <1>0 DEF PrInv, Types, TypeOK, KillScan
  <2>2. CASE i[p] = NPROC
    BY <2>2 DEF PrInv, Types, TypeOK, Label, Preemptible, KillScan, Goto
  <2>3. CASE i[p] # NPROC /\ pid[i[p]] = target[p]
    <3>1. state' \in [Proc -> {"UNUSED", "USED", "SLEEPING", "RUNNABLE", "RUNNING", "ZOMBIE"}]
      BY <2>3, <1>e DEF PrInv, Types, TypeOK
    <3>2. killed' \in [Proc -> BOOLEAN]
      BY ZenonT(60), <2>3, <1>e DEF PrInv, Types, TypeOK
    <3>3. i' \in [Proc -> 0..NPROC] /\ target' \in [Proc -> KillTargets \cup {0}]
      BY <2>3, <1>e DEF PrInv, Types, TypeOK
    <3>4. pc' \in [Proc -> Label]
      BY <2>3, <1>e DEF PrInv, Types, Label, Preemptible
    <3> QED
      BY <3>1, <3>2, <3>3, <3>4, <1>c DEF PrInv, Types, TypeOK
  <2> QED
    BY <2>1, <2>2, <2>3
<1>2. LocksOK'
  BY DEF PrInv, Types, Exiting, LocksOK, Locks, KillScan, At, Goto
<1>3. StateOK'
  BY DEF PrInv, Types, TypeOK, Preemptible, StateOK, KillScan, At, Goto
<1>4. LocalsOK'
  <2>1. CASE i[p] # NPROC /\ pid[i[p]] # target[p]
    BY ZenonT(60), <2>1, <1>0 DEF PrInv, Types, TypeOK, LocalsOK, Scanning, KillScan, At
  <2>2. CASE i[p] = NPROC
    BY <2>2 DEF PrInv, Types, TypeOK, LocalsOK, KillScan, At, Goto
  <2>3. CASE i[p] # NPROC /\ pid[i[p]] = target[p]
    BY <2>3, <1>c, <1>d, <1>e DEF PrInv, Types, TypeOK, LocalsOK
  <2> QED
    BY <2>1, <2>2, <2>3
<1>5. ChildOK'
  <2>1. cpu[p] = "on" /\ state[p] = "RUNNING" /\ np' = np
    BY DEF PrInv, StateOK, KillScan, At
  <2>2. \A q \in Proc \ {p} : pc'[q] = pc[q]
    BY DEF PrInv, Types, KillScan, Goto
  <2>3. /\ pc'[p] \in Forking <=> pc[p] \in Forking
        /\ pc'[p] \in {"fparent", "frun"} => pc[p] \in {"fparent", "frun"}
    BY DEF PrInv, Types, Forking, KillScan, At, Goto
  <2>4. \A q \in Proc : state[q] = "USED" => state'[q] = "USED"
    BY DEF PrInv, Types, TypeOK, KillScan
  <2> QED
    BY <2>1, <2>2, <2>3, <2>4, ChildFrame
<1>6. PidOK'
  <2>1. CASE i[p] # NPROC /\ pid[i[p]] # target[p]
    BY ZenonT(60), <2>1, <1>0 DEF PrInv, PidOK, PidsDistinct, UnusedIsClean, KillScan
  <2>2. CASE i[p] = NPROC
    BY ZenonT(60), <2>2 DEF PrInv, PidOK, PidsDistinct, UnusedIsClean, KillScan
  <2>3. CASE i[p] # NPROC /\ pid[i[p]] = target[p]
    BY <2>3, <1>b, <1>c, <1>e DEF PrInv, Types, TypeOK, PidOK, PidsDistinct, UnusedIsClean
  <2> QED
    BY <2>1, <2>2, <2>3
<1>7. FamilyOK'
  BY DEF PrInv, Types, TypeOK, Exiting, FamilyOK, KillScan, At, Goto
<1>8. WakeOK'
  BY DEF PrInv, Types, TypeOK, WakeOK, KillScan, At, Goto
<1> QED
  BY <1>1, <1>2, <1>3, <1>4, <1>5, <1>6, <1>7, <1>8 DEF PrInv

-----------------------------------------------------------------------------

\* After userinit, the first process is RUNNABLE and there is no other.
LEMMA InitPrInv == Init => PrInv
<1> SUFFICES ASSUME Init PROVE PrInv
  OBVIOUS
<1> USE Table
<1>1. Types
  BY DEF Init, Types, TypeOK, Label
<1>2. LocksOK
  BY DEF Init, LocksOK, Locks
<1>3. StateOK
  BY DEF Init, StateOK
<1>4. LocalsOK /\ ChildOK
  BY DEF Init, LocalsOK, ChildOK, Forking
<1>5. PidOK
  BY DEF Init, PidOK, PidsDistinct, UnusedIsClean
<1>6. FamilyOK
  BY DEF Init, FamilyOK, Exiting
<1>7. WakeOK
  BY DEF Init, WakeOK
<1> QED
  BY <1>1, <1>2, <1>3, <1>4, <1>5, <1>6, <1>7 DEF PrInv

\* Every step of a process keeps the invariant.
LEMMA NextPrInv == KillsProcesses /\ PrInv /\ [Next]_vars => PrInv'
<1> SUFFICES ASSUME KillsProcesses, PrInv, [Next]_vars PROVE PrInv'
  BY ZenonT(60)
<1>1. CASE Next
  BY <1>1, DispatchPrInv, ResumePrInv, SwitchedOutPrInv, YieldPrInv, TrapPrInv,
     TrapReturnPrInv, ForkScanPrInv, ForkFullPrInv, ForkCopyPrInv, ForkParentPrInv,
     ForkRunPrInv, ExitAcquirePrInv, ExitReparentPrInv, ExitReparentedPrInv,
     ExitWakeInitPrInv, ExitWakeParentPrInv, ExitZombiePrInv, WaitAcquirePrInv,
     WaitScanPrInv, WaitReapPrInv, WaitTestPrInv, WaitSleepPrInv, KillScanPrInv
     DEF Next
<1>2. CASE UNCHANGED vars
  <2> USE <1>2 DEF vars, fields, locals
  <2>1. Types'
    BY DEF PrInv, Types, TypeOK
  <2>2. LocksOK'
    BY DEF PrInv, LocksOK, Locks
  <2>3. StateOK'
    BY ZenonT(60) DEF PrInv, StateOK
  <2>4. LocalsOK' /\ ChildOK'
    BY ZenonT(60) DEF PrInv, LocalsOK, ChildOK
  <2>5. PidOK'
    BY DEF PrInv, PidOK, PidsDistinct, UnusedIsClean
  <2>6. FamilyOK'
    BY DEF PrInv, FamilyOK
  <2>7. WakeOK'
    BY DEF PrInv, WakeOK
  <2> QED
    BY ZenonT(60), <2>1, <2>2, <2>3, <2>4, <2>5, <2>6, <2>7 DEF PrInv
<1> QED
  BY <1>1, <1>2

\* A thread that exits or makes a child with locks held is on a CPU.
LEMMA LockedOnCpu ==
  ASSUME PrInv, NEW p \in Proc, pc[p] \in {"xreparent", "xwakeinit", "xwakeparent", "fcopy"}
  PROVE  cpu[p] = "on"
<1>1. state[p] = "RUNNING" /\ cpu[p] # "in"
  BY DEF PrInv, Types, TypeOK, StateOK, Preemptible
<1> QED
  BY <1>1 DEF PrInv, StateOK

\* What the invariant says in the words of proc.c.
LEMMA PrInvImplies == PrInv => LifeCycleSound /\ NoLostExit
<1> SUFFICES ASSUME PrInv PROVE LifeCycleSound /\ NoLostExit
  OBVIOUS
<1> USE Table
<1>1. TypeOK /\ UnusedIsClean /\ PidsDistinct
  BY DEF PrInv, Types, PidOK
<1>2. ParentAlive
  BY ZenonT(60) DEF PrInv, Types, TypeOK, FamilyOK, ParentAlive
<1>3. FreedOffCpu
  BY DEF PrInv, StateOK, FreedOffCpu
<1>4. SwitchHoldsOwnLock
  <2> SUFFICES ASSUME NEW p \in Proc, cpu[p] = "out"
               PROVE  waitLock # p /\ \A q \in Proc : plock[q] = p <=> q = p
    BY DEF SwitchHoldsOwnLock
  <2>1. pc[p] # "fcopy"
    BY LockedOnCpu
  <2> QED
    BY <2>1 DEF PrInv, LocksOK, Locks
<1>5. NoLostExit
  <2> SUFFICES ASSUME waitLock = None, NEW p \in Proc, NEW q \in Proc,
                      state[p] = "SLEEPING", parent[q] = p, state[q] = "ZOMBIE"
               PROVE  FALSE
    BY DEF NoLostExit
  <2>1. PICK r \in Proc : pc[r] = "xwakeinit"
    BY DEF PrInv, WakeOK
  <2>2. cpu[r] = "on"
    BY <2>1, LockedOnCpu
  <2>3. waitLock = r
    BY <2>1, <2>2 DEF PrInv, LocksOK, Exiting
  <2> QED
    BY <2>3
<1> QED
  BY <1>1, <1>2, <1>3, <1>4, <1>5 DEF LifeCycleSound

\* A process that takes wait_lock holds no p->lock.
LEMMA StepTakesWaitLockFirst ==
  ASSUME PrInv, Next, NEW p \in Proc,
         ForkParent(p) \/ (waitLock # p /\ waitLock' = p)
  PROVE  \A q \in Proc : plock[q] # p
<1>1. cpu[p] = "on" /\ pc[p] # "fcopy"
  <2>1. CASE ForkParent(p)
    BY <2>1 DEF ForkParent, At
  <2>2. CASE waitLock # p /\ waitLock' = p
    <3>1. PICK r \in Proc :
             \/ Dispatch(r) \/ Resume(r) \/ SwitchedOut(r) \/ Yield(r)
             \/ Trap(r) \/ TrapReturn(r)
             \/ ForkScan(r) \/ ForkFull(r) \/ ForkCopy(r) \/ ForkParent(r) \/ ForkRun(r)
             \/ ExitAcquire(r) \/ ExitReparent(r) \/ ExitReparented(r)
             \/ ExitWakeInit(r) \/ ExitWakeParent(r) \/ ExitZombie(r)
             \/ WaitAcquire(r) \/ WaitScan(r) \/ WaitReap(r) \/ WaitTest(r) \/ WaitSleep(r)
             \/ KillScan(r)
      BY Zenon DEF Next
    <3>2. /\ Dispatch(r) \/ Resume(r) \/ SwitchedOut(r) => waitLock' = waitLock
          /\ Yield(r) \/ TrapReturn(r) => waitLock' = waitLock
      BY ZenonT(60) DEF Dispatch, Resume, SwitchedOut, Yield, TrapReturn, UnlessKilled, locals
    <3>3. Trap(r) => waitLock' = waitLock
      BY DEF Trap, UnlessKilled, locals
    <3>4. /\ ForkScan(r) \/ ForkFull(r) \/ ForkCopy(r) => waitLock' = waitLock
          /\ ForkParent(r) \/ ForkRun(r) => waitLock' = waitLock
      BY ZenonT(60) DEF ForkScan, ForkFull, ForkCopy, ForkParent, ForkRun
    <3>5. /\ ExitReparent(r) \/ ExitReparented(r) => waitLock' = waitLock
          /\ ExitWakeInit(r) \/ ExitWakeParent(r) => waitLock' = waitLock
          /\ ExitZombie(r) => waitLock' = None
      BY ZenonT(60) DEF ExitReparent, ExitReparented, ExitWakeInit, ExitWakeParent, ExitZombie, Wakeup
    <3>6. /\ WaitScan(r) \/ KillScan(r) => waitLock' = waitLock
          /\ WaitReap(r) \/ WaitSleep(r) => waitLock' = None
          /\ WaitTest(r) => waitLock' \in {waitLock, None}
      BY DEF WaitScan, WaitReap, WaitTest, WaitSleep, KillScan
    <3>7. ExitAcquire(r) \/ WaitAcquire(r)
      BY <2>2, <3>1, <3>2, <3>3, <3>4, <3>5, <3>6, Table
    <3> QED
      BY <2>2, <3>7, Table DEF ExitAcquire, WaitAcquire, At
  <2> QED
    BY <2>1, <2>2
<1> QED
  BY <1>1 DEF PrInv, LocksOK, Locks

\* Life of a process, for tables and CPUs of any number: its parent is alive, it is
\* freed only off the CPU and wiped, its pid is its own, and it switches away with
\* its own lock only.  No kill has the pid of a free process or of the first one.
THEOREM LifeCycleIsSound == KillsProcesses => (Spec => []LifeCycleSound)
<1> SUFFICES ASSUME KillsProcesses PROVE Spec => []LifeCycleSound
  OBVIOUS
<1>1. PrInv /\ [Next]_vars => PrInv'
  BY NextPrInv
<1> QED
  BY <1>1, InitPrInv, PrInvImplies, PTL DEF Spec

\* kexit, reparent and kwait lose no exit: while wait_lock is free, no process sleeps
\* in kwait that has a ZOMBIE child.
THEOREM NoExitIsLost == KillsProcesses => (Spec => []NoLostExit)
<1> SUFFICES ASSUME KillsProcesses PROVE Spec => []NoLostExit
  OBVIOUS
<1>1. PrInv /\ [Next]_vars => PrInv'
  BY NextPrInv
<1> QED
  BY <1>1, InitPrInv, PrInvImplies, PTL DEF Spec

\* wait_lock is acquired before any p->lock, in kfork, kexit and kwait.
THEOREM WaitLockIsFirst == KillsProcesses => (Spec => WaitLockFirst)
<1> SUFFICES ASSUME KillsProcesses PROVE Spec => WaitLockFirst
  OBVIOUS
<1>1. PrInv /\ [Next]_vars => PrInv'
  BY NextPrInv
<1>2. PrInv /\ [Next]_vars =>
        [\A p \in Proc : ForkParent(p) \/ (waitLock # p /\ waitLock' = p) =>
           \A q \in Proc : plock[q] # p]_vars
  BY StepTakesWaitLockFirst
<1> QED
  BY <1>1, <1>2, InitPrInv, PTL DEF Spec, WaitLockFirst

=============================================================================
