-------------------------------- MODULE Clock --------------------------------
(***************************************************************************)
(* The tick counter: clockintr of kernel/trap.c and sys_pause of           *)
(* kernel/sysproc.c.  Every hart has timer interrupts, hart 0 counts them. *)
(* ticks is unsigned and wraps at UINT; a count of ticks to pause is at    *)
(* most INT_MAX, about half of it.  A section under tickslock is one step, *)
(* except that a kill, which needs no tickslock, can come between the test *)
(* of killed and the sleep.                                                *)
(***************************************************************************)
EXTENDS Integers, FiniteSets

CONSTANTS
  Hart, hart0,
  Proc,
  UINT, INT_MAX,
  MaxDelay   \* ticks that a process that could run may be kept from running

VARIABLES
  ticks,
  th,       \* the pause of each process
  killed,
  passed    \* history: ticks since each process called pause, up to a cap

clockVars == <<ticks, th, killed, passed>>

Resting == [pc |-> "idle", ticks0 |-> 0, n |-> 0]
Cap == INT_MAX + MaxDelay + 1

Init ==
  /\ ticks = UINT - 2
  /\ th = [p \in Proc |-> Resting]
  /\ killed = [p \in Proc |-> FALSE]
  /\ passed = [p \in Proc |-> 0]

\* Faulty: every hart counts.
CountsAlways(h) == TRUE

\* cpuid() == 0
Counts(h) == h = hart0

\* wakeup(&ticks), as one process sees it.
Woken(p) == IF th[p].pc = "asleep" THEN [th[p] EXCEPT !.pc = "woken"] ELSE th[p]

\* tickslock is free: no process is between the test and the sleep.
LockFree == \A p \in Proc : th[p].pc # "sleep"

\* clockintr: count and wake the sleepers; the next interrupt is asked for.
Clockintr(h) ==
  /\ Counts(h) => LockFree
  /\ \A p \in Proc : th[p].pc = "woken" => passed[p] < th[p].n + MaxDelay
  /\ IF Counts(h)
     THEN /\ ticks' = (ticks + 1) % UINT
          /\ th' = [p \in Proc |-> Woken(p)]
     ELSE UNCHANGED <<ticks, th>>
  /\ passed' = IF h = hart0
               THEN [p \in Proc |-> IF th[p].pc = "idle" \/ passed[p] = Cap THEN passed[p] ELSE passed[p] + 1]
               ELSE passed
  /\ UNCHANGED killed

\* The condition of the loop of sys_pause, in unsigned arithmetic.
NotYet(t0, n) == (ticks + UINT - t0) % UINT < n

\* The loop of sys_pause under tickslock: return, or go on to sleep.
Loop(p, t0, n) ==
  /\ LockFree
  /\ th' = [th EXCEPT ![p] = IF NotYet(t0, n) /\ ~killed[p]
                             THEN [pc |-> "sleep", ticks0 |-> t0, n |-> n]
                             ELSE [pc |-> IF killed[p] /\ NotYet(t0, n) THEN "failed" ELSE "returned",
                                   ticks0 |-> 0, n |-> n]]
  /\ UNCHANGED <<ticks, killed>>

Pause(p, n) ==
  /\ th[p].pc = "idle"
  /\ Loop(p, ticks, n)
  /\ passed' = [passed EXCEPT ![p] = 0]

\* sleep on ticks releases tickslock.
PauseSleeps(p) ==
  /\ th[p].pc = "sleep"
  /\ th' = [th EXCEPT ![p].pc = "asleep"]
  /\ UNCHANGED <<ticks, killed, passed>>

PauseWakes(p) ==
  /\ th[p].pc = "woken"
  /\ Loop(p, th[p].ticks0, th[p].n)
  /\ UNCHANGED passed

\* The process is back in user space; a killed one makes way for another.
User(p) ==
  /\ th[p].pc \in {"returned", "failed"}
  /\ th' = [th EXCEPT ![p] = Resting]
  /\ killed' = [killed EXCEPT ![p] = FALSE]
  /\ passed' = [passed EXCEPT ![p] = 0]
  /\ UNCHANGED ticks

\* kkill marks a process and wakes it.
Killed(p) ==
  /\ killed' = [killed EXCEPT ![p] = TRUE]
  /\ th' = [th EXCEPT ![p].pc = IF @ = "asleep" THEN "woken" ELSE @]
  /\ UNCHANGED <<ticks, passed>>

Next ==
  \/ \E h \in Hart : Clockintr(h)
  \/ \E p \in Proc : (\E n \in 0..INT_MAX : Pause(p, n)) \/ PauseSleeps(p) \/ PauseWakes(p) \/ User(p) \/ Killed(p)

Spec == Init /\ [][Next]_clockVars

-----------------------------------------------------------------------------

\* sys_pause returns 0 after n ticks and not before, also when ticks wraps; nobody
\* sleeps once they have passed.
PausesExactly ==
  \A p \in Proc :
    /\ th[p].pc = "returned" => passed[p] >= th[p].n
    /\ th[p].pc = "asleep" => passed[p] < th[p].n

=============================================================================
