--------------------------------- MODULE Hart ---------------------------------
(***************************************************************************)
(* Traps, interrupts and spinlocks on each hart: usertrap, prepare_return  *)
(* and kerneltrap of kernel/trap.c, acquire, release, push_off and pop_off *)
(* of kernel/spinlock.c, and what yield, sleep, sched, scheduler and       *)
(* forkret do to the interrupt state of kernel/proc.c.  A context is a     *)
(* kernel thread or the scheduler of a hart.  One spinlock lk stands for   *)
(* those that system calls and interrupt handlers share.                   *)
(***************************************************************************)
EXTENDS Integers, FiniteSets

CONSTANTS Hart, Thread, None

Context == Hart \cup Thread

VARIABLES
  cur,           \* the context that a hart executes; the hart itself: scheduler
  intr,          \* sstatus.SIE
  epc, spp, spie, stvec,  \* trap registers; epc is a context and its place
  noff, intena,  \* of struct cpu
  lk,            \* the hart that holds the lock
  th             \* pc, where to go after a lock or switch, place interrupted,
                 \* and intena, the local of sched()

regs == <<epc, spp, spie, stvec>>
off == <<intr, noff, intena>>
hartVars == <<cur, regs, off, lk, th>>

\* Every thread is about to enter forkret, which runs with interrupts on, and for
\* the first process with locks and sleeps in fsinit and kexec, until it calls
\* prepare_return: as the code of a system call does, whose place it shares.  Its
\* release finds intena as the scheduler's acquire left it, after intr_on.
Init ==
  /\ cur = [h \in Hart |-> h]
  /\ intr = [h \in Hart |-> FALSE]
  /\ epc = [h \in Hart |-> <<h, "idle">>]
  /\ spp = [h \in Hart |-> "S"] /\ spie = [h \in Hart |-> TRUE]
  /\ stvec = [h \in Hart |-> "kernelvec"]
  /\ noff = [h \in Hart |-> 0] /\ intena = [h \in Hart |-> FALSE]
  /\ lk = None
  /\ th = [c \in Context |-> [pc |-> IF c \in Hart THEN "idle" ELSE "out", next |-> "sys",
                              kt |-> None, intena |-> TRUE]]

At(h, pcs) == th[cur[h]].pc \in pcs
Goto(h, l) == th' = [th EXCEPT ![cur[h]].pc = l]

\* pop_off enables interrupts at the last release, if they were on at first.
Enables(h) == noff[h] = 1 /\ intena[h]

\* Faulty: interrupts stay as they are.
PushOffOn(h) ==
  /\ intena' = [intena EXCEPT ![h] = IF noff[h] = 0 THEN intr[h] ELSE @]
  /\ noff' = [noff EXCEPT ![h] = @ + 1]
  /\ UNCHANGED intr

PushOff(h) ==
  /\ intr' = [intr EXCEPT ![h] = FALSE]
  /\ intena' = [intena EXCEPT ![h] = IF noff[h] = 0 THEN intr[h] ELSE @]
  /\ noff' = [noff EXCEPT ![h] = @ + 1]

PopOff(h) ==
  /\ noff' = [noff EXCEPT ![h] = @ - 1]
  /\ intr' = [intr EXCEPT ![h] = @ \/ Enables(h)]
  /\ UNCHANGED intena

-----------------------------------------------------------------------------
(* Locks: in system calls, and in the handlers that devintr calls          *)

\* acquire: interrupts go off before the lock is tried.
Acquire(h) ==
  /\ At(h, {"sys", "udev", "kdev"})
  /\ PushOff(h)
  /\ th' = [th EXCEPT ![cur[h]].pc = "spin",
                      ![cur[h]].next = CASE At(h, {"sys"}) -> "sys" [] At(h, {"udev"}) -> "uend" [] OTHER -> "kend"]
  /\ UNCHANGED <<cur, regs, lk>>

AcquireGets(h) ==
  /\ At(h, {"spin"}) /\ lk = None
  /\ lk' = h
  /\ Goto(h, "crit")
  /\ UNCHANGED <<cur, regs, off>>

Release(h) ==
  /\ At(h, {"crit"})
  /\ lk' = None
  /\ PopOff(h)
  /\ Goto(h, th[cur[h]].next)
  /\ UNCHANGED <<cur, regs>>

-----------------------------------------------------------------------------
(* Switching                                                               *)

\* yield, from usertrap or kerneltrap: acquire(&p->lock), sched.
Yield(h) ==
  LET c == cur[h] IN
    /\ At(h, {"uyield", "kyield"})
    /\ PushOff(h)
    /\ cur' = [cur EXCEPT ![h] = h]
    /\ th' = [th EXCEPT ![c] = [@ EXCEPT !.pc = "out", !.intena = intr[h],
                                !.next = IF At(h, {"uyield"}) THEN "uret0" ELSE "kend"],
                        ![h].pc = "back"]
    /\ UNCHANGED <<regs, lk>>

\* sleep with the lock: it is released when p->lock is held.
Sleep(h) ==
  LET c == cur[h] IN
    /\ At(h, {"crit"}) /\ th[c].next = "sys"
    /\ lk' = None
    /\ cur' = [cur EXCEPT ![h] = h]
    /\ th' = [th EXCEPT ![c] = [@ EXCEPT !.pc = "out", !.intena = intena[h], !.next = "sys"], ![h].pc = "back"]
    /\ UNCHANGED <<regs, off>>

\* scheduler after swtch: release(&p->lock).
Back(h) ==
  /\ At(h, {"back"})
  /\ PopOff(h)
  /\ Goto(h, "idle")
  /\ UNCHANGED <<cur, regs, lk>>

\* The intr_on of the scheduler's loop.
IdleOn(h) ==
  /\ At(h, {"idle"})
  /\ intr' = [intr EXCEPT ![h] = TRUE]
  /\ UNCHANGED <<cur, regs, noff, intena, lk, th>>

\* intena of the hart after swtch in sched, or in forkret.
Restored(h, t) == th[t].intena

\* scheduler: acquire(&p->lock), swtch; the thread, in sched or in forkret, goes on
\* with its intena and releases p->lock.
Dispatch(h, t) ==
  /\ At(h, {"idle"}) /\ th[t].pc = "out"
  /\ cur' = [cur EXCEPT ![h] = t]
  /\ intena' = [intena EXCEPT ![h] = Restored(h, t)]
  /\ intr' = [intr EXCEPT ![h] = Restored(h, t)]
  /\ th' = [th EXCEPT ![t].pc = th[t].next]
  /\ UNCHANGED <<noff, regs, lk>>

-----------------------------------------------------------------------------
(* Traps                                                                   *)

\* The hart takes a trap: interrupts go off, and what they were is in spie.
Trap(h, place, mode) ==
  /\ epc' = [epc EXCEPT ![h] = <<cur[h], place>>]
  /\ spp' = [spp EXCEPT ![h] = mode]
  /\ spie' = [spie EXCEPT ![h] = intr[h]]
  /\ intr' = [intr EXCEPT ![h] = FALSE]

\* A trap from user code to usertrap.
Uservec(h) ==
  /\ At(h, {"user"})
  /\ Trap(h, "user", "U")
  /\ Goto(h, "utrap")
  /\ UNCHANGED <<cur, stvec, noff, intena, lk>>

\* usertrap: a system call runs with interrupts on; a device or page fault
\* handler and the timer with interrupts off.
Usertrap(h, cause) ==
  /\ At(h, {"utrap"})
  /\ stvec' = [stvec EXCEPT ![h] = "kernelvec"]
  /\ intr' = [intr EXCEPT ![h] = cause = "sys"]
  /\ Goto(h, cause)
  /\ UNCHANGED <<cur, epc, spp, spie, noff, intena, lk>>

\* intr_off in prepare_return.
IntrReturning(h) == FALSE

\* prepare_return: intr_off and w_stvec,
PrepareReturn(h) ==
  /\ At(h, {"sys", "uend", "uret0"})
  /\ intr' = [intr EXCEPT ![h] = IntrReturning(h)]
  /\ stvec' = [stvec EXCEPT ![h] = "uservec"]
  /\ Goto(h, "uret1")
  /\ UNCHANGED <<cur, epc, spp, spie, noff, intena, lk>>

\* then w_sstatus and w_sepc from the trapframe.
PrepareRegs(h) ==
  /\ At(h, {"uret1"})
  /\ spp' = [spp EXCEPT ![h] = "U"]
  /\ spie' = [spie EXCEPT ![h] = TRUE]
  /\ epc' = [epc EXCEPT ![h] = <<cur[h], "user">>]
  /\ Goto(h, "sret")
  /\ UNCHANGED <<cur, stvec, off, lk>>

\* An interrupt of kernel code, to kerneltrap.
Kernelvec(h, cause) ==
  LET c == cur[h] IN
    /\ intr[h] /\ th[c].pc # "user"
    /\ cause = "kyield" => c \notin Hart
    /\ Trap(h, th[c].pc, "S")
    /\ th' = [th EXCEPT ![c].pc = cause, ![c].kt = th[c].pc]
    /\ UNCHANGED <<cur, stvec, noff, intena, lk>>

\* Faulty: kerneltrap does not write the trap registers again.
KerneltrapRegs(h) == UNCHANGED <<epc, spp, spie>>

\* w_sepc and w_sstatus at the end of kerneltrap.
WriteRegs(h) ==
  /\ epc' = [epc EXCEPT ![h] = <<cur[h], th[cur[h]].kt>>]
  /\ spp' = [spp EXCEPT ![h] = "S"]
  /\ spie' = [spie EXCEPT ![h] = TRUE]

Kerneltrap(h) ==
  /\ At(h, {"kend"})
  /\ WriteRegs(h)
  /\ Goto(h, "sret")
  /\ UNCHANGED <<cur, stvec, off, lk>>

\* sret: to where the registers say.
Sret(h) ==
  /\ At(h, {"sret"})
  /\ intr' = [intr EXCEPT ![h] = spie[h]]
  /\ th' = [th EXCEPT ![cur[h]].pc = epc[h][2], ![cur[h]].kt = None]
  /\ UNCHANGED <<cur, regs, noff, intena, lk>>

Next ==
  \E h \in Hart :
    \/ Acquire(h) \/ AcquireGets(h) \/ Release(h)
    \/ Yield(h) \/ Sleep(h) \/ Back(h) \/ IdleOn(h)
    \/ \E t \in Thread : Dispatch(h, t)
    \/ Uservec(h) \/ PrepareReturn(h) \/ PrepareRegs(h) \/ Kerneltrap(h) \/ Sret(h)
    \/ \E cause \in {"sys", "udev", "uyield"} : Usertrap(h, cause)
    \/ \E cause \in {"kdev", "kyield"} : Kernelvec(h, cause)

Spec == Init /\ [][Next]_hartVars

-----------------------------------------------------------------------------

\* A trap from kernel code never goes to usertrap, nor one from user code to
\* kerneltrap: wherever a trap can come, stvec fits the mode.
VectorFits ==
  \A h \in Hart :
    /\ At(h, {"user"}) => stvec[h] = "uservec"
    /\ intr[h] /\ ~At(h, {"user"}) => stvec[h] = "kernelvec"

\* No hart spins for a lock that it holds itself: a handler never interrupts the
\* holder of a lock that it takes ("acquire" panics).
NeverWaitsForItself == \A h \in Hart : At(h, {"spin"}) => lk # h

\* The trap registers that sret uses are those of the trap it returns from,
\* whatever traps the hart took in between, and on whichever hart the thread is.
ReturnsToTrapped ==
  \A h \in Hart :
    At(h, {"sret"}) =>
      /\ epc[h] = <<cur[h], IF th[cur[h]].kt = None THEN "user" ELSE th[cur[h]].kt>>
      /\ spp[h] = (IF th[cur[h]].kt = None THEN "U" ELSE "S")
      /\ spie[h]

\* A system call that holds no lock can be interrupted, also after it has slept
\* and goes on on another hart.
SystemCallsInterruptible == \A h \in Hart : At(h, {"sys"}) => intr[h]

\* kerneltrap is not interrupted, so that a kernel stack holds one trap frame, and
\* pop_off finds interrupts off and a count of one or more.
TrapsDoNotNest ==
  \A h \in Hart :
    /\ th[cur[h]].kt # None => ~intr[h]
    /\ At(h, {"crit", "back"}) => ~intr[h] /\ noff[h] = 1
    /\ At(h, {"uyield", "kyield", "idle", "user"}) => noff[h] = 0

\* Traps are taken and returned from as trap.c, trampoline.S and kernelvec.S mean
\* them to: the vector fits, one at a time, back to where it came from, and with
\* interrupts on in system calls.
TrapsSound == VectorFits /\ TrapsDoNotNest /\ ReturnsToTrapped /\ SystemCallsInterruptible
=============================================================================
