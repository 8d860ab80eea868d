----------------------------- MODULE HartProofs -----------------------------
(***************************************************************************)
(* Proofs about traps, interrupts and spinlocks, for any harts and kernel  *)
(* threads.  The inductive invariant HInv gives, for each place of the     *)
(* code, what the registers and the interrupt state of the hart that       *)
(* executes it are.                                                        *)
(***************************************************************************)
EXTENDS Hart, TLAPS

\* Time enough for the provers on a slow machine.
USE SMTT(60)

\* A hart is no kernel thread, and no lock holder or interrupted place is None.
TrapConstants == Hart \cap Thread = {} /\ None \notin Hart \cup {"sys", "idle"}

Place == {"user", "utrap", "sys", "udev", "uyield", "uend", "uret0", "uret1", "spin", "crit",
          "kdev", "kyield", "kend", "sret", "idle", "back", "out"}

Frame == [pc : Place, next : Place, kt : {None, "sys", "idle"}, intena : BOOLEAN]

HartTypes ==
  /\ cur \in [Hart -> Context]
  /\ intr \in [Hart -> BOOLEAN] /\ intena \in [Hart -> BOOLEAN] /\ noff \in [Hart -> Int]
  /\ epc \in [Hart -> Context \X {"user", "sys", "idle"}]
  /\ spp \in [Hart -> {"U", "S"}] /\ spie \in [Hart -> BOOLEAN]
  /\ stvec \in [Hart -> {"uservec", "kernelvec"}]
  /\ lk \in Hart \cup {None}
  /\ th \in [Context -> Frame]

\* A context runs on one hart at most, the scheduler of a hart only there.
CurOK ==
  \A h, g \in Hart :
    /\ cur[h] \in Hart => cur[h] = h
    /\ cur[h] = cur[g] => h = g

\* A thread is out exactly when no hart runs it, with what it needs to go on: in
\* a system call interrupts come back on, at the end of a trap they stay off.
OutOK ==
  \A t \in Thread :
    /\ th[t].pc = "out" <=> \A h \in Hart : cur[h] # t
    /\ th[t].pc = "out" =>
         /\ th[t].next \in {"uret0", "sys", "kend"}
         /\ th[t].intena <=> th[t].next = "sys"
         /\ th[t].kt = IF th[t].next = "kend" THEN "sys" ELSE None

\* The scheduler that has switched away goes on where it left.
SchedulerOK == \A h \in Hart : cur[h] # h => th[h].pc = "idle" /\ th[h].kt = None

LockOK == \A h \in Hart : lk = h <=> th[cur[h]].pc = "crit"

\* The hart h and the context f = th[c] that it runs.
HartOK(h) ==
  LET c == cur[h]
      f == th[c]
  IN  /\ f.pc # "out"
      /\ intr[h] => f.pc \in {"user", "sys", "idle"}
      /\ f.pc \in {"user", "sys"} => intr[h]
      /\ noff[h] = IF f.pc \in {"spin", "crit", "back"} THEN 1 ELSE 0
      /\ stvec[h] = IF f.pc \in {"user", "utrap", "uret1"} \/ (f.pc = "sret" /\ f.kt = None)
                    THEN "uservec" ELSE "kernelvec"
      /\ f.pc \in {"idle", "back"} => c = h
      /\ c = h => f.pc \in {"idle", "back", "kdev", "kend", "spin", "crit", "sret"}
      /\ f.kt = "sys" => c # h
      /\ f.kt = "idle" => c = h
      /\ f.pc \in {"kdev", "kyield", "kend"} => f.kt # None
      /\ f.kt # None => f.pc \in {"kdev", "kyield", "kend", "spin", "crit", "sret"}
      /\ f.pc \in {"spin", "crit"} =>
           /\ f.next \in {"sys", "uend", "kend"}
           /\ intena[h] <=> f.next = "sys"
           /\ f.next = "kend" <=> f.kt # None
           /\ c = h => f.next = "kend"
      /\ f.pc = "sret" =>
           /\ epc[h] = <<c, IF f.kt = None THEN "user" ELSE f.kt>>
           /\ spp[h] = (IF f.kt = None THEN "U" ELSE "S")
           /\ spie[h]
           /\ c = h => f.kt # None

HInv ==
  /\ HartTypes /\ CurOK /\ OutOK /\ SchedulerOK /\ LockOK
  /\ \A h \in Hart : HartOK(h)

-----------------------------------------------------------------------------

\* The registers and the interrupt state of every hart but h stay.
OthersKeep(h) ==
  \A g \in Hart \ {h} :
    /\ cur'[g] = cur[g] /\ intr'[g] = intr[g] /\ intena'[g] = intena[g] /\ noff'[g] = noff[g]
    /\ epc'[g] = epc[g] /\ spp'[g] = spp[g] /\ spie'[g] = spie[g] /\ stvec'[g] = stvec[g]

\* A hart g keeps its part of the invariant when neither it nor its context
\* changes.
LEMMA HartKept ==
  ASSUME NEW h \in Hart, NEW g \in Hart \ {h}, OthersKeep(h), HartOK(g),
         th'[cur[g]] = th[cur[g]]
  PROVE  HartOK(g)'
<1>1. /\ cur'[g] = cur[g] /\ intr'[g] = intr[g] /\ intena'[g] = intena[g]
      /\ noff'[g] = noff[g] /\ epc'[g] = epc[g] /\ spp'[g] = spp[g]
      /\ spie'[g] = spie[g] /\ stvec'[g] = stvec[g]
  BY DEF OthersKeep
<1> QED
  BY <1>1 DEF HartOK

\* A step of the context that h runs, without a switch.
LEMMA OwnStep ==
  ASSUME TrapConstants, HInv, NEW h \in Hart,
         HartTypes', cur' = cur, OthersKeep(h),
         \A d \in Context \ {cur[h]} : th'[d] = th[d],
         HartOK(h)', LockOK'
  PROVE  HInv'
<1>1. /\ cur[h] \in Context /\ \A g \in Hart : cur[g] \in Context
      /\ \A g \in Hart \ {h} : cur[g] # cur[h]
  BY DEF HInv, HartTypes, CurOK
<1>2. CurOK'
  BY DEF HInv, CurOK
<1>3. \A g \in Hart : HartOK(g)'
  BY <1>1, HartKept DEF HInv
<1>4. OutOK'
  <2>1. th'[cur[h]].pc # "out" /\ th[cur[h]].pc # "out"
    BY DEF HInv, HartOK
  <2> QED
    BY <2>1 DEF HInv, OutOK, Context
<1>5. SchedulerOK'
  <2> SUFFICES ASSUME NEW g \in Hart, cur[g] # g PROVE th'[g].pc = "idle" /\ th'[g].kt = None
    BY DEF SchedulerOK
  <2>1. g # cur[h]
    BY DEF HInv, CurOK
  <2> QED
    BY <2>1 DEF HInv, SchedulerOK, Context
<1> QED
  BY <1>2, <1>3, <1>4, <1>5 DEF HInv

\* A step that neither takes nor gives the lock keeps LockOK.
LEMMA LockKept ==
  ASSUME HInv, NEW h \in Hart, cur' = cur, lk' = lk,
         \A d \in Context \ {cur[h]} : th'[d] = th[d],
         th[cur[h]].pc # "crit", th'[cur[h]].pc # "crit"
  PROVE  LockOK'
<1>1. \A g \in Hart \ {h} : cur[g] \in Context \ {cur[h]}
  BY DEF HInv, HartTypes, CurOK
<1> QED
  BY <1>1 DEF HInv, LockOK

\* What the frame of the running context is.
LEMMA FrameFacts ==
  ASSUME HInv, NEW h \in Hart
  PROVE  /\ cur[h] \in Context
         /\ th[cur[h]] \in Frame
         /\ HartOK(h)
         /\ intr[h] \in BOOLEAN /\ intena[h] \in BOOLEAN /\ noff[h] \in Int
  BY DEF HInv, HartTypes

\* The threads and harts start in the invariant.
LEMMA InitHInv == TrapConstants /\ Init => HInv
<1> SUFFICES ASSUME TrapConstants, Init PROVE HInv
  OBVIOUS
<1> USE DEF Init, TrapConstants, Context
<1>1. HartTypes
  BY DEF HartTypes, Frame, Place
<1>2. CurOK /\ OutOK /\ SchedulerOK /\ LockOK
  BY DEF CurOK, OutOK, SchedulerOK, LockOK
<1>3. \A h \in Hart : HartOK(h)
  BY DEF HartOK
<1> QED
  BY <1>1, <1>2, <1>3 DEF HInv

-----------------------------------------------------------------------------
(* Steps without a switch                                                  *)

\* What putting a frame in place of that of the running context does.
LEMMA FrameSet ==
  ASSUME HInv, NEW h \in Hart, NEW f \in Frame, th' = [th EXCEPT ![cur[h]] = f]
  PROVE  /\ th' \in [Context -> Frame]
         /\ th'[cur[h]] = f
         /\ \A d \in Context \ {cur[h]} : th'[d] = th[d]
  BY FrameFacts DEF HInv, HartTypes

\* Goto moves the running context and nothing else.
LEMMA GotoFacts ==
  ASSUME HInv, NEW h \in Hart, NEW l \in Place, Goto(h, l)
  PROVE  /\ th' \in [Context -> Frame]
         /\ th'[cur[h]].pc = l
         /\ th'[cur[h]].next = th[cur[h]].next
         /\ th'[cur[h]].kt = th[cur[h]].kt
         /\ \A d \in Context \ {cur[h]} : th'[d] = th[d]
<1> DEFINE f == [th[cur[h]] EXCEPT !.pc = l]
<1>1. f \in Frame /\ f.pc = l /\ f.next = th[cur[h]].next /\ f.kt = th[cur[h]].kt
  BY FrameFacts DEF Frame
<1>2. th' = [th EXCEPT ![cur[h]] = f]
  BY DEF Goto
<1> HIDE DEF f
<1> QED
  BY ZenonT(60), <1>1, <1>2, FrameSet

\* What a switch from the thread c to the scheduler of h does to their frames.
LEMMA FramesSwitched ==
  ASSUME HInv, NEW h \in Hart, NEW f \in Frame, NEW c \in Context \ {h},
         th' = [th EXCEPT ![c] = f, ![h].pc = "back"]
  PROVE  /\ th' \in [Context -> Frame]
         /\ th'[c] = f /\ th'[h].pc = "back" /\ th'[h].kt = th[h].kt
         /\ \A d \in Context \ {c, h} : th'[d] = th[d]
<1> DEFINE b == [th[h] EXCEPT !.pc = "back"]
<1>1. th \in [Context -> Frame] /\ h \in Context
  BY DEF HInv, HartTypes, Context
<1>2. b \in Frame /\ b.pc = "back" /\ b.kt = th[h].kt
  BY <1>1 DEF Frame, Place
<1>3. th' = [th EXCEPT ![c] = f, ![h] = b]
  BY ZenonT(60), <1>1
<1> HIDE DEF b
<1> QED
  BY <1>1, <1>2, <1>3

\* acquire up to its loop: interrupts go off, and intena keeps what they were.
LEMMA AcquireHInv ==
  ASSUME TrapConstants, HInv, NEW h \in Hart, Acquire(h) PROVE HInv'
<1> DEFINE c == cur[h]
<1>0. HartOK(h) /\ c \in Context /\ th[c] \in Frame
  BY FrameFacts
<1>1. /\ th[c].pc \in {"sys", "udev", "kdev"} /\ th'[c].pc = "spin" /\ th'[c].kt = th[c].kt
      /\ th'[c].next = IF th[c].pc = "sys" THEN "sys" ELSE IF th[c].pc = "udev" THEN "uend" ELSE "kend"
      /\ th' \in [Context -> Frame]
      /\ \A d \in Context \ {c} : th'[d] = th[d]
  <2> DEFINE f == [th[c] EXCEPT !.pc = "spin",
                              !.next = IF th[c].pc = "sys" THEN "sys" ELSE IF th[c].pc = "udev" THEN "uend" ELSE "kend"]
  <2>1. th[c].pc \in {"sys", "udev", "kdev"} /\ th' = [th EXCEPT ![c] = f]
    BY ZenonT(60), <1>0 DEF Acquire, At
  <2>2. f \in Frame /\ f.pc = "spin" /\ f.kt = th[c].kt
          /\ f.next = IF th[c].pc = "sys" THEN "sys" ELSE IF th[c].pc = "udev" THEN "uend" ELSE "kend"
    BY ZenonT(60), <1>0, <2>1 DEF Frame, Place, HartOK
  <2> HIDE DEF f
  <2> QED
    BY ZenonT(60), <2>1, <2>2, FrameSet
<1>2. /\ cur' = cur /\ lk' = lk /\ OthersKeep(h)
      /\ intr'[h] = FALSE /\ noff'[h] = 1 /\ intena'[h] = intr[h]
      /\ epc'[h] = epc[h] /\ spp'[h] = spp[h] /\ spie'[h] = spie[h] /\ stvec'[h] = stvec[h]
  <2>1. noff[h] = 0
    BY <1>0, <1>1 DEF HartOK
  <2> QED
    BY <2>1 DEF Acquire, PushOff, regs, OthersKeep, HInv, HartTypes
<1>3. HartTypes'
  BY <1>0, <1>1, FrameFacts DEF Acquire, At, PushOff, regs, off, HInv, HartTypes
<1>4. HartOK(h)'
  <2>1. /\ th[c].kt \in {None, "sys", "idle"} /\ intr[h] \in BOOLEAN /\ intena[h] \in BOOLEAN
        /\ cur'[h] = c
    BY <1>0, <1>2, FrameFacts DEF Frame
  <2> QED
    BY <1>0, <1>1, <1>2, <2>1 DEF HartOK, TrapConstants
<1>5. LockOK'
  BY <1>0, <1>1, <1>2, LockKept
<1> QED
  BY <1>1, <1>2, <1>3, <1>4, <1>5, OwnStep

\* The release of the scheduler after swtch.
LEMMA BackHInv ==
  ASSUME TrapConstants, HInv, NEW h \in Hart, Back(h) PROVE HInv'
<1> DEFINE c == cur[h]
<1>0. HartOK(h) /\ c \in Context /\ th[c] \in Frame
  BY FrameFacts
<1>1. /\ th[c].pc \in {"back"} /\ th'[c].pc = "idle"
      /\ th'[c].next = th[c].next /\ th'[c].kt = th[c].kt /\ th' \in [Context -> Frame]
      /\ \A d \in Context \ {c} : th'[d] = th[d]
  BY GotoFacts, "idle" \in Place DEF Back, At, Place
<1>2. /\ cur' = cur /\ lk' = lk /\ OthersKeep(h)
      /\ intr'[h] = intena[h] /\ noff'[h] = 0 /\ intena'[h] = intena[h]
      /\ epc'[h] = epc[h] /\ spp'[h] = spp[h] /\ spie'[h] = spie[h] /\ stvec'[h] = stvec[h]
  <2>1. noff[h] = 1 /\ intr[h] = FALSE /\ intena[h] \in BOOLEAN
    BY <1>0, <1>1, FrameFacts DEF HartOK
  <2> QED
    BY <2>1 DEF Back, PopOff, Enables, regs, OthersKeep, HInv, HartTypes
<1>3. HartTypes'
  BY <1>0, <1>1, FrameFacts DEF Back, At, PopOff, Enables, regs, off, HInv, HartTypes
<1>4. HartOK(h)'
  <2>1. /\ th[c].kt \in {None, "sys", "idle"} /\ intr[h] \in BOOLEAN /\ intena[h] \in BOOLEAN
        /\ cur'[h] = c
    BY ZenonT(60), <1>0, <1>2, FrameFacts DEF Frame
  <2> QED
    BY <1>0, <1>1, <1>2, <2>1 DEF HartOK, TrapConstants
<1>5. LockOK'
  BY <1>0, <1>1, <1>2, LockKept
<1> QED
  BY <1>1, <1>2, <1>3, <1>4, <1>5, OwnStep

\* intr_on in the loop of the scheduler.
LEMMA IdleOnHInv ==
  ASSUME TrapConstants, HInv, NEW h \in Hart, IdleOn(h) PROVE HInv'
<1> USE FrameFacts DEF IdleOn, At, regs, off
<1>1. cur' = cur /\ lk' = lk /\ \A d \in Context \ {cur[h]} : th'[d] = th[d]
  BY DEF HInv, HartTypes
<1>2. OthersKeep(h)
  BY ZenonT(60) DEF OthersKeep, HInv, HartTypes
<1>3. HartTypes'
  BY ZenonT(60) DEF HInv, HartTypes, Frame, Place, HartOK
<1>4. HartOK(h)'
  BY DEF HInv, HartTypes, HartOK, Frame, TrapConstants
<1>5. LockOK'
  <2>1. th[cur[h]].pc # "crit" /\ th'[cur[h]].pc # "crit"
    BY DEF HInv, HartTypes, HartOK, Frame
  <2> QED
    BY ZenonT(60), <1>1, <2>1, LockKept
<1> QED
  BY <1>1, <1>2, <1>3, <1>4, <1>5, OwnStep

\* A trap from user code.
LEMMA UservecHInv ==
  ASSUME TrapConstants, HInv, NEW h \in Hart, Uservec(h) PROVE HInv'
<1> DEFINE c == cur[h]
<1>0. HartOK(h) /\ c \in Context /\ th[c] \in Frame
  BY FrameFacts
<1>1. /\ th[c].pc \in {"user"} /\ th'[c].pc = "utrap"
      /\ th'[c].next = th[c].next /\ th'[c].kt = th[c].kt /\ th' \in [Context -> Frame]
      /\ \A d \in Context \ {c} : th'[d] = th[d]
  BY GotoFacts, "utrap" \in Place DEF Uservec, At, Place
<1>2. /\ cur' = cur /\ lk' = lk /\ OthersKeep(h)
      /\ intr'[h] = FALSE /\ noff'[h] = noff[h] /\ intena'[h] = intena[h]
      /\ epc'[h] = <<c, "user">> /\ spp'[h] = "U" /\ spie'[h] = intr[h] /\ stvec'[h] = stvec[h]
  BY <1>0, FrameFacts DEF Uservec, Trap, At, regs, off, OthersKeep, HInv, HartTypes
<1>3. HartTypes'
  BY ZenonT(60), <1>0, <1>1, FrameFacts DEF Uservec, Trap, At, regs, off, HInv, HartTypes
<1>4. HartOK(h)'
  <2>1. /\ th[c].kt \in {None, "sys", "idle"} /\ intr[h] \in BOOLEAN /\ intena[h] \in BOOLEAN
        /\ cur'[h] = c
    BY ZenonT(60), <1>0, <1>2, FrameFacts DEF Frame
  <2> QED
    BY ZenonT(60), <1>0, <1>1, <1>2, <2>1 DEF HartOK, TrapConstants
<1>5. LockOK'
  BY ZenonT(60), <1>0, <1>1, <1>2, LockKept
<1> QED
  BY ZenonT(60), <1>1, <1>2, <1>3, <1>4, <1>5, OwnStep

\* usertrap up to the system call, the device or yield.
LEMMA UsertrapHInv ==
  ASSUME TrapConstants, HInv, NEW h \in Hart, NEW cause \in {"sys", "udev", "uyield"}, Usertrap(h, cause) PROVE HInv'
<1> DEFINE c == cur[h]
<1>0. HartOK(h) /\ c \in Context /\ th[c] \in Frame
  BY ZenonT(60), FrameFacts
<1>1. /\ th[c].pc \in {"utrap"} /\ th'[c].pc = cause
      /\ th'[c].next = th[c].next /\ th'[c].kt = th[c].kt /\ th' \in [Context -> Frame]
      /\ \A d \in Context \ {c} : th'[d] = th[d]
  BY ZenonT(60), GotoFacts, cause \in Place DEF Usertrap, At, Place
<1>2. /\ cur' = cur /\ lk' = lk /\ OthersKeep(h)
      /\ intr'[h] = (cause = "sys") /\ noff'[h] = noff[h] /\ intena'[h] = intena[h]
      /\ epc'[h] = epc[h] /\ spp'[h] = spp[h] /\ spie'[h] = spie[h] /\ stvec'[h] = "kernelvec"
  BY <1>0, FrameFacts DEF Usertrap, At, regs, off, OthersKeep, HInv, HartTypes
<1>3. HartTypes'
  BY <1>0, <1>1, FrameFacts DEF Usertrap, At, regs, off, HInv, HartTypes
<1>4. HartOK(h)'
  <2>1. /\ th[c].kt \in {None, "sys", "idle"} /\ intr[h] \in BOOLEAN /\ intena[h] \in BOOLEAN
        /\ cur'[h] = c
    BY <1>0, <1>2, FrameFacts DEF Frame
  <2> QED
    BY ZenonT(60), <1>0, <1>1, <1>2, <2>1 DEF HartOK, TrapConstants
<1>5. LockOK'
  BY ZenonT(60), <1>0, <1>1, <1>2, LockKept
<1> QED
  BY ZenonT(60), <1>1, <1>2, <1>3, <1>4, <1>5, OwnStep

\* prepare_return: interrupts go off before the vector is that of user traps.
LEMMA PrepareReturnHInv ==
  ASSUME TrapConstants, HInv, NEW h \in Hart, PrepareReturn(h) PROVE HInv'
<1> DEFINE c == cur[h]
<1>0. HartOK(h) /\ c \in Context /\ th[c] \in Frame
  BY FrameFacts
<1>1. /\ th[c].pc \in {"sys", "uend", "uret0"} /\ th'[c].pc = "uret1"
      /\ th'[c].next = th[c].next /\ th'[c].kt = th[c].kt /\ th' \in [Context -> Frame]
      /\ \A d \in Context \ {c} : th'[d] = th[d]
  BY ZenonT(60), GotoFacts, "uret1" \in Place DEF PrepareReturn, At, Place
<1>2. /\ cur' = cur /\ lk' = lk /\ OthersKeep(h)
      /\ intr'[h] = FALSE /\ noff'[h] = noff[h] /\ intena'[h] = intena[h]
      /\ epc'[h] = epc[h] /\ spp'[h] = spp[h] /\ spie'[h] = spie[h] /\ stvec'[h] = "uservec"
  BY <1>0, FrameFacts DEF PrepareReturn, IntrReturning, At, regs, off, OthersKeep, HInv, HartTypes
<1>3. HartTypes'
  BY ZenonT(60), <1>0, <1>1, FrameFacts DEF PrepareReturn, IntrReturning, At, regs, off, HInv, HartTypes
<1>4. HartOK(h)'
  <2>1. /\ th[c].kt \in {None, "sys", "idle"} /\ intr[h] \in BOOLEAN /\ intena[h] \in BOOLEAN
        /\ cur'[h] = c
    BY ZenonT(60), <1>0, <1>2, FrameFacts DEF Frame
  <2> QED
    BY ZenonT(60), <1>0, <1>1, <1>2, <2>1 DEF HartOK, TrapConstants
<1>5. LockOK'
  BY <1>0, <1>1, <1>2, LockKept
<1> QED
  BY ZenonT(60), <1>1, <1>2, <1>3, <1>4, <1>5, OwnStep

\* The rest of prepare_return: the registers for sret.
LEMMA PrepareRegsHInv ==
  ASSUME TrapConstants, HInv, NEW h \in Hart, PrepareRegs(h) PROVE HInv'
<1> DEFINE c == cur[h]
<1>0. HartOK(h) /\ c \in Context /\ th[c] \in Frame
  BY FrameFacts
<1>1. /\ th[c].pc \in {"uret1"} /\ th'[c].pc = "sret"
      /\ th'[c].next = th[c].next /\ th'[c].kt = th[c].kt /\ th' \in [Context -> Frame]
      /\ \A d \in Context \ {c} : th'[d] = th[d]
  BY ZenonT(60), GotoFacts, "sret" \in Place DEF PrepareRegs, At, Place
<1>2. /\ cur' = cur /\ lk' = lk /\ OthersKeep(h)
      /\ intr'[h] = intr[h] /\ noff'[h] = noff[h] /\ intena'[h] = intena[h]
      /\ epc'[h] = <<c, "user">> /\ spp'[h] = "U" /\ spie'[h] = TRUE /\ stvec'[h] = stvec[h]
  BY <1>0, FrameFacts DEF PrepareRegs, At, regs, off, OthersKeep, HInv, HartTypes
<1>3. HartTypes'
  BY ZenonT(60), <1>0, <1>1, FrameFacts DEF PrepareRegs, At, regs, off, HInv, HartTypes
<1>4. HartOK(h)'
  <2>1. /\ th[c].kt \in {None, "sys", "idle"} /\ intr[h] \in BOOLEAN /\ intena[h] \in BOOLEAN
        /\ cur'[h] = c
    BY <1>0, <1>2, FrameFacts DEF Frame
  <2> QED
    BY ZenonT(60), <1>0, <1>1, <1>2, <2>1 DEF HartOK, TrapConstants
<1>5. LockOK'
  BY ZenonT(60), <1>0, <1>1, <1>2, LockKept
<1> QED
  BY ZenonT(60), <1>1, <1>2, <1>3, <1>4, <1>5, OwnStep

\* An interrupt of kernel code.
LEMMA KernelvecHInv ==
  ASSUME TrapConstants, HInv, NEW h \in Hart, NEW cause \in {"kdev", "kyield"}, Kernelvec(h, cause) PROVE HInv'
<1> DEFINE c == cur[h]
<1>0. HartOK(h) /\ c \in Context /\ th[c] \in Frame
  BY FrameFacts
<1>1. /\ th[c].pc \in {"sys", "idle"} /\ th'[c].pc = cause /\ th'[c].kt = th[c].pc
      /\ th' \in [Context -> Frame]
      /\ \A d \in Context \ {c} : th'[d] = th[d]
  <2> DEFINE f == [th[c] EXCEPT !.pc = cause, !.kt = th[c].pc]
  <2>1. th[c].pc \in {"sys", "idle"} /\ th' = [th EXCEPT ![c] = f]
    BY ZenonT(60), <1>0 DEF Kernelvec, At, HartOK
  <2>2. f \in Frame /\ f.pc = cause /\ f.kt = th[c].pc
    BY ZenonT(60), <1>0, <2>1 DEF Frame, Place, HartOK
  <2> HIDE DEF f
  <2> QED
    BY ZenonT(60), <2>1, <2>2, FrameSet
<1>a. cause = "kyield" => c # h
  BY DEF Kernelvec
<1>2. /\ cur' = cur /\ lk' = lk /\ OthersKeep(h)
      /\ intr'[h] = FALSE /\ noff'[h] = noff[h] /\ intena'[h] = intena[h]
      /\ epc'[h] = <<c, th[c].pc>> /\ spp'[h] = "S" /\ spie'[h] = intr[h] /\ stvec'[h] = stvec[h]
  BY <1>0, FrameFacts DEF Kernelvec, Trap, At, regs, off, OthersKeep, HInv, HartTypes
<1>3. HartTypes'
  BY <1>0, <1>1, FrameFacts DEF Kernelvec, Trap, At, regs, off, HInv, HartTypes
<1>4. HartOK(h)'
  <2>1. /\ th[c].kt \in {None, "sys", "idle"} /\ intr[h] \in BOOLEAN /\ intena[h] \in BOOLEAN
        /\ cur'[h] = c
    BY ZenonT(60), <1>0, <1>2, FrameFacts DEF Frame
  <2> QED
    BY ZenonT(60), <1>0, <1>a, <1>1, <1>2, <2>1 DEF HartOK, TrapConstants
<1>5. LockOK'
  BY ZenonT(60), <1>0, <1>1, <1>2, LockKept
<1> QED
  BY ZenonT(60), <1>1, <1>2, <1>3, <1>4, <1>5, OwnStep

\* The end of kerneltrap: the trap registers are written again.
LEMMA KerneltrapHInv ==
  ASSUME TrapConstants, HInv, NEW h \in Hart, Kerneltrap(h) PROVE HInv'
<1> DEFINE c == cur[h]
<1>0. HartOK(h) /\ c \in Context /\ th[c] \in Frame
  BY FrameFacts
<1>1. /\ th[c].pc \in {"kend"} /\ th'[c].pc = "sret"
      /\ th'[c].next = th[c].next /\ th'[c].kt = th[c].kt /\ th' \in [Context -> Frame]
      /\ \A d \in Context \ {c} : th'[d] = th[d]
  BY ZenonT(60), GotoFacts, "sret" \in Place DEF Kerneltrap, At, Place
<1>2. /\ cur' = cur /\ lk' = lk /\ OthersKeep(h)
      /\ intr'[h] = intr[h] /\ noff'[h] = noff[h] /\ intena'[h] = intena[h]
      /\ epc'[h] = <<c, th[c].kt>> /\ spp'[h] = "S" /\ spie'[h] = TRUE /\ stvec'[h] = stvec[h]
  BY <1>0, FrameFacts DEF Kerneltrap, WriteRegs, At, regs, off, OthersKeep, HInv, HartTypes
<1>3. HartTypes'
  <2>1. th[c].kt \in {"sys", "idle"}
    BY <1>0, <1>1 DEF HartOK, Frame
  <2> QED
    BY ZenonT(60), <1>0, <1>1, <2>1 DEF Kerneltrap, WriteRegs, At, regs, off, HInv, HartTypes
<1>4. HartOK(h)'
  <2>1. /\ th[c].kt \in {None, "sys", "idle"} /\ intr[h] \in BOOLEAN /\ intena[h] \in BOOLEAN
        /\ cur'[h] = c
    BY ZenonT(60), <1>0, <1>2, FrameFacts DEF Frame
  <2> QED
    BY ZenonT(60), <1>0, <1>1, <1>2, <2>1 DEF HartOK, TrapConstants
<1>5. LockOK'
  BY ZenonT(60), <1>0, <1>1, <1>2, LockKept
<1> QED
  BY ZenonT(60), <1>1, <1>2, <1>3, <1>4, <1>5, OwnStep

\* sret goes back to what was interrupted.
LEMMA SretHInv ==
  ASSUME TrapConstants, HInv, NEW h \in Hart, Sret(h) PROVE HInv'
<1> DEFINE c == cur[h]
<1>0. HartOK(h) /\ c \in Context /\ th[c] \in Frame
  BY FrameFacts
<1>1. /\ th[c].pc \in {"sret"} /\ th'[c].kt = None
      /\ th'[c].pc = IF th[c].kt = None THEN "user" ELSE th[c].kt
      /\ th' \in [Context -> Frame]
      /\ \A d \in Context \ {c} : th'[d] = th[d]
  <2> DEFINE f == [th[c] EXCEPT !.pc = epc[h][2], !.kt = None]
  <2>1. th[c].pc \in {"sret"} /\ th' = [th EXCEPT ![c] = f]
    BY ZenonT(60), <1>0 DEF Sret, At
  <2>2. epc[h][2] = (IF th[c].kt = None THEN "user" ELSE th[c].kt) /\ epc[h][2] \in Place
    BY <1>0, <2>1 DEF Frame, Place, HartOK
  <2>3. f \in Frame /\ f.kt = None
          /\ f.pc = IF th[c].kt = None THEN "user" ELSE th[c].kt
    BY ZenonT(60), <1>0, <2>2 DEF Frame
  <2> HIDE DEF f
  <2> QED
    BY ZenonT(60), <2>1, <2>3, FrameSet
<1>2. /\ cur' = cur /\ lk' = lk /\ OthersKeep(h)
      /\ intr'[h] = TRUE /\ noff'[h] = noff[h] /\ intena'[h] = intena[h]
      /\ epc'[h] = epc[h] /\ spp'[h] = spp[h] /\ spie'[h] = spie[h] /\ stvec'[h] = stvec[h]
  <2>1. spie[h] = TRUE
    <3>1. spie[h] /\ spie[h] \in BOOLEAN
      BY ZenonT(60), <1>0, <1>1 DEF HInv, HartTypes, HartOK
    <3> QED
      BY <3>1
  <2>2. intr' = [intr EXCEPT ![h] = spie[h]] /\ UNCHANGED <<cur, epc, spp, spie, stvec, noff, intena, lk>>
    BY DEF Sret, regs
  <2> QED
    BY <1>0, <2>1, <2>2, FrameFacts DEF OthersKeep, HInv, HartTypes
<1>3. HartTypes'
  BY ZenonT(60), <1>0, <1>1, FrameFacts DEF Sret, At, regs, off, HInv, HartTypes
<1>4. HartOK(h)'
  <2>1. /\ th[c].kt \in {None, "sys", "idle"} /\ intr[h] \in BOOLEAN /\ intena[h] \in BOOLEAN
        /\ cur'[h] = c
    BY <1>0, <1>2, FrameFacts DEF Frame
  <2> QED
    BY ZenonT(60), <1>0, <1>1, <1>2, <2>1 DEF HartOK, TrapConstants
<1>5. LockOK'
  <2>1. th'[c].pc # "crit"
    BY <1>0, <1>1 DEF Frame
  <2> QED
    BY ZenonT(60), <1>0, <1>1, <1>2, <2>1, LockKept
<1> QED
  BY ZenonT(60), <1>1, <1>2, <1>3, <1>4, <1>5, OwnStep

\* acquire gets the lock.
LEMMA AcquireGetsHInv ==
  ASSUME TrapConstants, HInv, NEW h \in Hart, AcquireGets(h) PROVE HInv'
<1> DEFINE c == cur[h]
<1>0. HartOK(h) /\ c \in Context /\ th[c] \in Frame
  BY FrameFacts
<1>1. /\ th[c].pc = "spin" /\ th'[c].pc = "crit"
      /\ th'[c].next = th[c].next /\ th'[c].kt = th[c].kt /\ th' \in [Context -> Frame]
      /\ \A d \in Context \ {c} : th'[d] = th[d]
  BY GotoFacts, "crit" \in Place DEF AcquireGets, At, Place
<1>2. /\ cur' = cur /\ OthersKeep(h) /\ lk = None /\ lk' = h
      /\ intr'[h] = intr[h] /\ noff'[h] = noff[h] /\ intena'[h] = intena[h]
      /\ epc'[h] = epc[h] /\ spp'[h] = spp[h] /\ spie'[h] = spie[h] /\ stvec'[h] = stvec[h]
  BY DEF AcquireGets, regs, off, OthersKeep
<1>3. HartTypes'
  BY ZenonT(60), <1>1 DEF AcquireGets, regs, off, HInv, HartTypes
<1>4. HartOK(h)'
  <2>1. /\ th[c].kt \in {None, "sys", "idle"} /\ intr[h] \in BOOLEAN /\ intena[h] \in BOOLEAN
        /\ cur'[h] = c
    BY ZenonT(60), <1>0, <1>2, FrameFacts DEF Frame
  <2> QED
    BY <1>0, <1>1, <1>2, <2>1 DEF HartOK, TrapConstants
<1>5. LockOK'
  <2>1. \A g \in Hart \ {h} : cur[g] \in Context \ {c} /\ lk # g
    BY <1>2 DEF HInv, HartTypes, CurOK, TrapConstants
  <2> QED
    BY ZenonT(60), <1>1, <1>2, <2>1 DEF HInv, LockOK
<1> QED
  BY <1>1, <1>2, <1>3, <1>4, <1>5, OwnStep

\* release.
LEMMA ReleaseHInv ==
  ASSUME TrapConstants, HInv, NEW h \in Hart, Release(h) PROVE HInv'
<1> DEFINE c == cur[h]
<1>0. HartOK(h) /\ c \in Context /\ th[c] \in Frame /\ th[c].pc = "crit"
  BY FrameFacts DEF Release, At
<1>a. th[c].next \in {"sys", "uend", "kend"}
  BY ZenonT(60), <1>0 DEF HartOK
<1>1. /\ th'[c].pc = th[c].next
      /\ th'[c].next = th[c].next /\ th'[c].kt = th[c].kt /\ th' \in [Context -> Frame]
      /\ \A d \in Context \ {c} : th'[d] = th[d]
  BY ZenonT(60), <1>a, GotoFacts, th[c].next \in Place DEF Release, Place
<1>2. /\ cur' = cur /\ OthersKeep(h) /\ lk' = None
      /\ intr'[h] = intena[h] /\ noff'[h] = 0 /\ intena'[h] = intena[h]
      /\ epc'[h] = epc[h] /\ spp'[h] = spp[h] /\ spie'[h] = spie[h] /\ stvec'[h] = stvec[h]
  <2>1. noff[h] = 1 /\ intr[h] = FALSE /\ intena[h] \in BOOLEAN
    BY ZenonT(60), <1>0, FrameFacts DEF HartOK
  <2> QED
    BY <2>1 DEF Release, PopOff, Enables, regs, OthersKeep, HInv, HartTypes
<1>3. HartTypes'
  BY <1>1, FrameFacts DEF Release, PopOff, Enables, regs, HInv, HartTypes
<1>4. HartOK(h)'
  <2>1. /\ th[c].kt \in {None, "sys", "idle"} /\ intr[h] \in BOOLEAN /\ intena[h] \in BOOLEAN
        /\ cur'[h] = c
    BY <1>0, <1>2, FrameFacts DEF Frame
  <2> QED
    BY ZenonT(60), <1>0, <1>a, <1>1, <1>2, <2>1 DEF HartOK, TrapConstants
<1>5. LockOK'
  <2>1. \A g \in Hart \ {h} : cur[g] \in Context \ {c} /\ th[cur[g]].pc # "crit"
    BY ZenonT(60), <1>0 DEF HInv, HartTypes, CurOK, LockOK
  <2> QED
    BY ZenonT(60), <1>a, <1>1, <1>2, <2>1 DEF LockOK, TrapConstants
<1> QED
  BY ZenonT(60), <1>1, <1>2, <1>3, <1>4, <1>5, OwnStep

-----------------------------------------------------------------------------
(* Switches                                                                *)

\* The thread that h runs switches to the scheduler of h, and leaves the frame f.
LEMMA SwitchOut ==
  ASSUME TrapConstants, HInv, NEW h \in Hart, cur[h] # h,
         NEW f \in Frame, f.pc = "out", f.next \in {"uret0", "sys", "kend"},
         f.intena <=> f.next = "sys", f.kt = IF f.next = "kend" THEN "sys" ELSE None,
         cur'[h] = h, th'[cur[h]] = f, th'[h].pc = "back", th'[h].kt = th[h].kt,
         \A d \in Context \ {cur[h], h} : th'[d] = th[d],
         OthersKeep(h), HartTypes', intr'[h] = FALSE, noff'[h] = 1, stvec'[h] = "kernelvec",
         lk' = IF th[cur[h]].pc = "crit" THEN None ELSE lk
  PROVE  HInv'
<1> DEFINE c == cur[h]
<1>1. /\ c \in Thread /\ c # h /\ c \notin Hart
      /\ \A g \in Hart \ {h} : cur[g] \in Context \ {c, h} /\ cur'[g] = cur[g]
  BY DEF HInv, HartTypes, CurOK, Context, TrapConstants, OthersKeep
<1>2. th[h] \in Frame /\ th[h].pc = "idle" /\ th[h].kt = None
  BY DEF HInv, HartTypes, SchedulerOK, Context
<1>4. CurOK'
  BY <1>1 DEF HInv, CurOK
<1>5. OutOK'
  <2> SUFFICES ASSUME NEW t \in Thread
               PROVE  /\ th'[t].pc = "out" <=> \A g \in Hart : cur'[g] # t
                      /\ th'[t].pc = "out" =>
                           /\ th'[t].next \in {"uret0", "sys", "kend"}
                           /\ th'[t].intena <=> th'[t].next = "sys"
                           /\ th'[t].kt = IF th'[t].next = "kend" THEN "sys" ELSE None
    BY DEF OutOK
  <2>1. CASE t = c
    BY <1>1, <2>1
  <2>2. CASE t # c
    <3>1. t # h /\ t \in Context /\ th'[t] = th[t]
      BY <2>2 DEF Context, TrapConstants
    <3>2. (\A g \in Hart : cur'[g] # t) <=> (\A g \in Hart : cur[g] # t)
      BY <1>1, <2>2, <3>1
    <3> QED
      BY <3>1, <3>2 DEF HInv, OutOK
  <2> QED
    BY <2>1, <2>2
<1>6. SchedulerOK'
  <2> SUFFICES ASSUME NEW g \in Hart, cur'[g] # g PROVE th'[g].pc = "idle" /\ th'[g].kt = None
    BY DEF SchedulerOK
  <2>1. g # h /\ cur[g] # g /\ g \in Context \ {c, h}
    BY <1>1 DEF Context
  <2> QED
    BY <2>1 DEF HInv, SchedulerOK
<1>7. LockOK'
  <2> SUFFICES ASSUME NEW g \in Hart PROVE lk' = g <=> th'[cur'[g]].pc = "crit"
    BY DEF LockOK
  <2>1. (lk = g <=> th[cur[g]].pc = "crit") /\ (lk = h <=> th[c].pc = "crit") /\ None # g
    BY DEF HInv, LockOK, TrapConstants
  <2>2. CASE g = h
    BY <2>1, <2>2
  <2>3. CASE g # h
    BY <1>1, <2>1, <2>3
  <2> QED
    BY <2>2, <2>3
<1>8. HartOK(h)'
  BY <1>2 DEF HartOK, TrapConstants
<1>9. \A g \in Hart : HartOK(g)'
  BY <1>1, <1>8, HartKept DEF HInv
<1> QED
  BY ZenonT(60), <1>4, <1>5, <1>6, <1>7, <1>9 DEF HInv

\* yield.
LEMMA YieldHInv ==
  ASSUME TrapConstants, HInv, NEW h \in Hart, Yield(h) PROVE HInv'
<1> DEFINE c == cur[h]
           f == [th[c] EXCEPT !.pc = "out", !.intena = intr[h],
                              !.next = IF th[c].pc = "uyield" THEN "uret0" ELSE "kend"]
<1>1. HartOK(h) /\ c \in Context /\ th[c] \in Frame /\ th[c].pc \in {"uyield", "kyield"}
  BY FrameFacts DEF Yield, At
<1>2. /\ c # h /\ intr[h] = FALSE /\ noff[h] = 0 /\ stvec[h] = "kernelvec"
      /\ th[c].kt = IF th[c].pc = "kyield" THEN "sys" ELSE None
  BY ZenonT(60), <1>1, FrameFacts DEF HartOK, Frame
<1>3. /\ f \in Frame /\ f.pc = "out" /\ f.intena = FALSE /\ f.kt = th[c].kt
      /\ f.next = IF th[c].pc = "uyield" THEN "uret0" ELSE "kend"
  BY ZenonT(60), <1>1, <1>2 DEF Frame, Place
<1>4. /\ cur' = [cur EXCEPT ![h] = h] /\ th' = [th EXCEPT ![c] = f, ![h].pc = "back"]
      /\ lk' = lk
  BY DEF Yield, At
<1> HIDE DEF f
<1>5. /\ OthersKeep(h) /\ intr'[h] = FALSE /\ noff'[h] = 1 /\ stvec'[h] = "kernelvec"
  BY <1>2 DEF Yield, PushOff, regs, OthersKeep, HInv, HartTypes
<1>6. /\ th' \in [Context -> Frame]
      /\ th'[c] = f /\ th'[h].pc = "back" /\ th'[h].kt = th[h].kt
      /\ \A d \in Context \ {c, h} : th'[d] = th[d]
  BY ZenonT(60), <1>1, <1>2, <1>3, <1>4, FramesSwitched
<1>7. HartTypes' /\ cur'[h] = h
  BY <1>2, <1>4, <1>6 DEF Yield, PushOff, regs, HInv, HartTypes, Context
<1>8. th[c].pc # "crit" /\ (f.intena <=> f.next = "sys") /\ f.next \in {"uret0", "sys", "kend"}
      /\ f.kt = IF f.next = "kend" THEN "sys" ELSE None
  BY <1>1, <1>2, <1>3
<1> QED
  BY ZenonT(60), <1>2, <1>3, <1>4, <1>5, <1>6, <1>7, <1>8, SwitchOut

\* sleep: the caller's lock goes when p->lock is held.
LEMMA SleepHInv ==
  ASSUME TrapConstants, HInv, NEW h \in Hart, Sleep(h) PROVE HInv'
<1> DEFINE c == cur[h]
           f == [th[c] EXCEPT !.pc = "out", !.intena = intena[h], !.next = "sys"]
<1>1. /\ HartOK(h) /\ c \in Context /\ th[c] \in Frame
      /\ th[c].pc = "crit" /\ th[c].next = "sys"
  BY ZenonT(60), FrameFacts DEF Sleep, At
<1>2. /\ c # h /\ intr[h] = FALSE /\ noff[h] = 1 /\ stvec[h] = "kernelvec"
      /\ th[c].kt = None /\ intena[h] = TRUE
  BY <1>1, FrameFacts DEF HartOK, Frame
<1>3. f \in Frame /\ f.pc = "out" /\ f.intena = TRUE /\ f.kt = None /\ f.next = "sys"
  BY ZenonT(60), <1>1, <1>2 DEF Frame, Place
<1>4. /\ cur' = [cur EXCEPT ![h] = h] /\ th' = [th EXCEPT ![c] = f, ![h].pc = "back"]
      /\ lk' = None
  BY DEF Sleep
<1> HIDE DEF f
<1>5. /\ OthersKeep(h) /\ intr'[h] = FALSE /\ noff'[h] = 1 /\ stvec'[h] = "kernelvec"
  BY <1>2 DEF Sleep, off, regs, OthersKeep, HInv, HartTypes
<1>6. /\ th' \in [Context -> Frame]
      /\ th'[c] = f /\ th'[h].pc = "back" /\ th'[h].kt = th[h].kt
      /\ \A d \in Context \ {c, h} : th'[d] = th[d]
  BY ZenonT(60), <1>1, <1>2, <1>3, <1>4, FramesSwitched
<1>7. HartTypes' /\ cur'[h] = h
  BY <1>4, <1>6 DEF Sleep, off, regs, HInv, HartTypes, Context
<1> QED
  BY ZenonT(60), <1>1, <1>2, <1>3, <1>4, <1>5, <1>6, <1>7, SwitchOut

\* The scheduler switches to a thread, which goes on where it left.
LEMMA DispatchHInv ==
  ASSUME TrapConstants, HInv, NEW h \in Hart, NEW t \in Thread, Dispatch(h, t) PROVE HInv'
<1>1. /\ HartOK(h) /\ cur[h] = h /\ th[h].pc = "idle" /\ th[h].kt = None
      /\ noff[h] = 0 /\ stvec[h] = "kernelvec"
  BY FrameFacts DEF Dispatch, At, HartOK
<1>2. /\ t \in Context /\ t \notin Hart /\ th[t] \in Frame /\ th[t].pc = "out"
      /\ th[t].next \in {"uret0", "sys", "kend"} /\ (th[t].intena <=> th[t].next = "sys")
      /\ th[t].kt = (IF th[t].next = "kend" THEN "sys" ELSE None)
      /\ th[t].intena \in BOOLEAN
      /\ \A g \in Hart : cur[g] # t
  BY DEF Dispatch, HInv, HartTypes, OutOK, Context, TrapConstants, Frame
<1>3. /\ th' \in [Context -> Frame]
      /\ th'[t].pc = th[t].next /\ th'[t].next = th[t].next /\ th'[t].kt = th[t].kt
      /\ \A d \in Context \ {t} : th'[d] = th[d]
  <2> DEFINE f == [th[t] EXCEPT !.pc = th[t].next]
  <2>1. f \in Frame /\ f.pc = th[t].next /\ f.next = th[t].next /\ f.kt = th[t].kt
    BY <1>2 DEF Frame, Place
  <2>2. th' = [th EXCEPT ![t] = f]
    BY DEF Dispatch
  <2> HIDE DEF f
  <2> QED
    BY <1>2, <2>1, <2>2 DEF HInv, HartTypes
<1>4. /\ cur'[h] = t /\ lk' = lk /\ noff'[h] = 0 /\ stvec'[h] = "kernelvec"
      /\ intr'[h] = th[t].intena /\ intena'[h] = th[t].intena
      /\ \A g \in Hart \ {h} : cur'[g] = cur[g]
  BY <1>1 DEF Dispatch, Restored, regs, HInv, HartTypes
<1>5. OthersKeep(h)
  BY DEF Dispatch, Restored, regs, OthersKeep, HInv, HartTypes
<1>6. HartTypes'
  BY <1>2, <1>3 DEF Dispatch, Restored, regs, HInv, HartTypes
<1>7. \A g \in Hart \ {h} : cur[g] \in Context \ {t, h}
  BY <1>1, <1>2 DEF HInv, HartTypes, CurOK
<1>8. CurOK'
  BY <1>2, <1>4 DEF HInv, CurOK
<1>9. OutOK'
  <2> SUFFICES ASSUME NEW s \in Thread
               PROVE  /\ th'[s].pc = "out" <=> \A g \in Hart : cur'[g] # s
                      /\ th'[s].pc = "out" =>
                           /\ th'[s].next \in {"uret0", "sys", "kend"}
                           /\ th'[s].intena <=> th'[s].next = "sys"
                           /\ th'[s].kt = IF th'[s].next = "kend" THEN "sys" ELSE None
    BY DEF OutOK
  <2>1. CASE s = t
    BY <1>2, <1>3, <1>4, <2>1
  <2>2. CASE s # t
    <3>1. s # h /\ s \in Context /\ th'[s] = th[s]
      BY <1>3, <2>2 DEF Context, TrapConstants
    <3>2. (\A g \in Hart : cur'[g] # s) <=> (\A g \in Hart : cur[g] # s)
      BY <1>1, <1>4, <2>2, <3>1
    <3> QED
      BY <3>1, <3>2 DEF HInv, OutOK
  <2> QED
    BY <2>1, <2>2
<1>10. SchedulerOK'
  BY <1>1, <1>2, <1>3, <1>4 DEF HInv, SchedulerOK, Context
<1>11. LockOK'
  BY <1>1, <1>2, <1>3, <1>4, <1>7 DEF HInv, LockOK
<1>12. HartOK(h)'
  BY <1>2, <1>3, <1>4 DEF HartOK, TrapConstants
<1>13. \A g \in Hart : HartOK(g)'
  BY <1>3, <1>5, <1>7, <1>12, HartKept DEF HInv
<1> QED
  BY <1>6, <1>8, <1>9, <1>10, <1>11, <1>13 DEF HInv

-----------------------------------------------------------------------------

\* Every step of a hart keeps the invariant.
LEMMA NextHInv == TrapConstants /\ HInv /\ [Next]_hartVars => HInv'
<1> SUFFICES ASSUME TrapConstants, HInv, [Next]_hartVars PROVE HInv'
  OBVIOUS
<1>1. CASE Next
  <2> PICK h \in Hart :
        \/ Acquire(h) \/ AcquireGets(h) \/ Release(h)
        \/ Yield(h) \/ Sleep(h) \/ Back(h) \/ IdleOn(h)
        \/ \E t \in Thread : Dispatch(h, t)
        \/ Uservec(h) \/ PrepareReturn(h) \/ PrepareRegs(h) \/ Kerneltrap(h) \/ Sret(h)
        \/ \E cause \in {"sys", "udev", "uyield"} : Usertrap(h, cause)
        \/ \E cause \in {"kdev", "kyield"} : Kernelvec(h, cause)
    BY <1>1 DEF Next
  <2>1. CASE Acquire(h) \/ AcquireGets(h) \/ Release(h)
    BY <2>1, AcquireHInv, AcquireGetsHInv, ReleaseHInv
  <2>2. CASE Yield(h) \/ Sleep(h) \/ \E t \in Thread : Dispatch(h, t)
    BY <2>2, YieldHInv, SleepHInv, DispatchHInv
  <2>3. CASE Back(h) \/ IdleOn(h)
    BY <2>3, BackHInv, IdleOnHInv
  <2>4. CASE Uservec(h) \/ \E cause \in {"sys", "udev", "uyield"} : Usertrap(h, cause)
    BY <2>4, UservecHInv, UsertrapHInv
  <2>5. CASE PrepareReturn(h) \/ PrepareRegs(h)
    BY <2>5, PrepareReturnHInv, PrepareRegsHInv
  <2>6. CASE Kerneltrap(h) \/ Sret(h) \/ \E cause \in {"kdev", "kyield"} : Kernelvec(h, cause)
    BY <2>6, KernelvecHInv, KerneltrapHInv, SretHInv
  <2> QED
    BY <2>1, <2>2, <2>3, <2>4, <2>5, <2>6
<1>2. CASE UNCHANGED hartVars
  <2> USE <1>2 DEF hartVars, regs, off, HInv
  <2>1. HartTypes' /\ CurOK' /\ LockOK'
    BY DEF HartTypes, CurOK, LockOK
  <2>2. OutOK' /\ SchedulerOK'
    BY DEF OutOK, SchedulerOK
  <2>3. ASSUME NEW h \in Hart PROVE HartOK(h)'
    <3>1. HartOK(h)
      OBVIOUS
    <3>2. /\ cur' = cur /\ intr' = intr /\ intena' = intena /\ noff' = noff /\ th' = th
          /\ epc' = epc /\ spp' = spp /\ spie' = spie /\ stvec' = stvec
      OBVIOUS
    <3> HIDE <1>2 DEF hartVars, regs, off, HInv
    <3> QED
      BY ONLY ZenonT(60), <3>1, <3>2 DEF HartOK
  <2> QED
    BY <2>1, <2>2, <2>3
<1> QED
  BY <1>1, <1>2

\* On any number of harts and threads, traps are taken and returned from as
\* trap.c, trampoline.S and kernelvec.S mean them to.
THEOREM TrapsAreSound == TrapConstants => (Spec => []TrapsSound)
<1> SUFFICES ASSUME TrapConstants PROVE Spec => []TrapsSound
  BY ZenonT(60)
<1>1. HInv => TrapsSound
  <2> SUFFICES ASSUME HInv, NEW h \in Hart
               PROVE  /\ At(h, {"user"}) => stvec[h] = "uservec"
                      /\ intr[h] /\ ~At(h, {"user"}) => stvec[h] = "kernelvec"
                      /\ th[cur[h]].kt # None => ~intr[h]
                      /\ At(h, {"crit", "back"}) => ~intr[h] /\ noff[h] = 1
                      /\ At(h, {"uyield", "kyield", "idle", "user"}) => noff[h] = 0
                      /\ At(h, {"sret"}) =>
                           /\ epc[h] = <<cur[h], IF th[cur[h]].kt = None THEN "user" ELSE th[cur[h]].kt>>
                           /\ spp[h] = (IF th[cur[h]].kt = None THEN "U" ELSE "S")
                           /\ spie[h]
                      /\ At(h, {"sys"}) => intr[h]
    BY DEF TrapsSound, VectorFits, TrapsDoNotNest, ReturnsToTrapped, SystemCallsInterruptible
  <2> QED
    BY ZenonT(60), FrameFacts DEF HartOK, At
<1>2. Init => HInv
  BY InitHInv
<1>3. HInv /\ [Next]_hartVars => HInv'
  BY NextHInv
<1> QED
  BY <1>1, <1>2, <1>3, PTL DEF Spec

\* No interrupt handler ever waits for a lock that its own hart holds, whatever
\* the numbers of harts and threads: acquire's panic is never met.
THEOREM NoSelfDeadlock == TrapConstants => (Spec => []NeverWaitsForItself)
<1> SUFFICES ASSUME TrapConstants PROVE Spec => []NeverWaitsForItself
  OBVIOUS
<1>1. HInv => NeverWaitsForItself
  BY DEF HInv, LockOK, NeverWaitsForItself, At
<1>2. Init => HInv
  BY InitHInv
<1>3. HInv /\ [Next]_hartVars => HInv'
  BY NextHInv
<1> QED
  BY <1>1, <1>2, <1>3, PTL DEF Spec
=============================================================================
