----------------------------- MODULE PipeProofs -----------------------------
(***************************************************************************)
(* Proofs about pipes, for any readers and writers, any size of the ring   *)
(* and any width of its counters.                                          *)
(***************************************************************************)
EXTENDS Pipe, SequenceTheorems, TLAPS

\* Time enough for the provers on a slow machine.
USE SMTT(60)

\* No writer is killed: pipewrite of a killed writer returns without a wakeup,
\* and a reader may then sleep on bytes that were written.
WritersSurvive == Killable \cap Writer = {}

WriterPlace == {"user", "wacquire", "write", "wsleep", "closed"}
ReaderPlace == {"user", "racquire", "wait", "read", "rsleep", "closed"}

PipeTypes ==
  /\ TypeOK
  /\ i \in [Proc -> Nat]
  /\ pc \in [Proc -> WriterPlace \cup ReaderPlace]
  /\ \A p \in Writer : pc[p] \in WriterPlace
  /\ \A p \in Reader : pc[p] \in ReaderPlace
  /\ \A p \in Proc : killed[p] => p \in Killable
  /\ \A p \in Proc : pc[p] = "user" => i[p] = 0

\* pi->lock is held from acquire to release or sleep.
LockHeld == \A p \in Proc : lock = p <=> pc[p] \in {"write", "wait", "read"}

\* A reader asleep has nothing to read, or a writer is still to wake it; so for
\* a writer.
ReaderAsleep ==
  WritersSurvive =>
    \A p \in Reader : pc[p] = "rsleep" => (Empty /\ writeopen) \/ lock \in Writer
WriterAsleep ==
  \A p \in Writer :
    pc[p] = "wsleep" => (Full /\ readopen) \/ (lock \in Reader /\ pc[lock] = "read")

\* An end is open while some process has it open.
EndsOpen ==
  /\ ~readopen <=> \A p \in Reader : pc[p] = "closed"
  /\ ~writeopen <=> \A p \in Writer : pc[p] = "closed"
  /\ freed <=> ~readopen /\ ~writeopen

PInv == PipeTypes /\ LockHeld /\ ReaderAsleep /\ WriterAsleep /\ EndsOpen

-----------------------------------------------------------------------------

\* A new pipe satisfies the invariant.
LEMMA InitPInv == Init => PInv
<1> SUFFICES ASSUME Init PROVE PInv
  OBVIOUS
<1> USE PipeSizes, EndsAssumption, NoneAssumption, ByteAssumption DEF Init, Proc
<1>1. TypeOK
  <2> DEFINE z == CHOOSE b \in Byte : TRUE
  <2>1. z \in Byte
    OBVIOUS
  <2>2. data \in [0..(PIPESIZE - 1) -> {z}]
    OBVIOUS
  <2> HIDE DEF z
  <2>3. data \in [0..(PIPESIZE - 1) -> Byte]
    BY <2>1, <2>2
  <2>4. nread \in 0..(UINT - 1) /\ nwrite \in 0..(UINT - 1)
    OBVIOUS
  <2>5. n \in [Proc -> 0..MaxN] /\ \A p \in Proc : i[p] \in 0..n[p]
    OBVIOUS
  <2>6. killed \in [Proc -> BOOLEAN] /\ lock \in Proc \cup {None}
    OBVIOUS
  <2> QED
    BY ZenonT(60), <2>3, <2>4, <2>5, <2>6 DEF TypeOK
<1>2. PipeTypes
  BY <1>1 DEF PipeTypes, WriterPlace, ReaderPlace
<1>3. LockHeld /\ ReaderAsleep /\ WriterAsleep /\ EndsOpen
  BY DEF LockHeld, ReaderAsleep, WriterAsleep, EndsOpen
<1> QED
  BY <1>2, <1>3 DEF PInv

\* The next counter value is again a counter value.
LEMMA CounterType == \A x \in 0..(UINT - 1) : (x + 1) % UINT \in 0..(UINT - 1)
  BY PipeSizes

\* pipewrite is called.
LEMMA CallWritePInv ==
  ASSUME PInv, NEW p \in Writer, NEW m \in 0..MaxN, Call(p, m, "wacquire")
  PROVE  PInv'
<1> USE EndsAssumption, NoneAssumption DEF PInv, Call, pipe
<1>1. PipeTypes'
  BY PipeSizes DEF PipeTypes, TypeOK, WriterPlace, ReaderPlace, Proc
<1>2. LockHeld'
  BY DEF LockHeld, PipeTypes, TypeOK, WriterPlace, ReaderPlace, Proc
<1>3. ReaderAsleep'
  BY DEF ReaderAsleep, LockHeld, PipeTypes, TypeOK, WriterPlace, ReaderPlace, Proc, Empty
<1>4. WriterAsleep'
  BY DEF WriterAsleep, LockHeld, PipeTypes, TypeOK, WriterPlace, ReaderPlace, Proc, Full
<1>5. EndsOpen'
  BY DEF EndsOpen, LockHeld, PipeTypes, TypeOK, WriterPlace, ReaderPlace, Proc
<1> QED
  BY <1>1, <1>2, <1>3, <1>4, <1>5

\* piperead is called.
LEMMA CallReadPInv ==
  ASSUME PInv, NEW p \in Reader, NEW m \in 0..MaxN, Call(p, m, "racquire")
  PROVE  PInv'
<1> USE EndsAssumption, NoneAssumption DEF PInv, Call, pipe
<1>1. PipeTypes'
  BY PipeSizes DEF PipeTypes, TypeOK, WriterPlace, ReaderPlace, Proc
<1>2. LockHeld'
  BY DEF LockHeld, PipeTypes, TypeOK, WriterPlace, ReaderPlace, Proc
<1>3. ReaderAsleep'
  BY DEF ReaderAsleep, LockHeld, PipeTypes, TypeOK, WriterPlace, ReaderPlace, Proc, Empty
<1>4. WriterAsleep'
  BY DEF WriterAsleep, LockHeld, PipeTypes, TypeOK, WriterPlace, ReaderPlace, Proc, Full
<1>5. EndsOpen'
  BY DEF EndsOpen, LockHeld, PipeTypes, TypeOK, WriterPlace, ReaderPlace, Proc
<1> QED
  BY <1>1, <1>2, <1>3, <1>4, <1>5

\* A writer gets pi->lock.
LEMMA AcquireWritePInv ==
  ASSUME PInv, NEW p \in Writer, Acquire(p, "wacquire", "write")
  PROVE  PInv'
<1> USE EndsAssumption, NoneAssumption DEF PInv, Acquire, pipe
<1>1. PipeTypes'
  BY PipeSizes DEF PipeTypes, TypeOK, WriterPlace, ReaderPlace, Proc
<1>2. LockHeld'
  BY DEF LockHeld, PipeTypes, TypeOK, WriterPlace, ReaderPlace, Proc
<1>3. ReaderAsleep'
  BY DEF ReaderAsleep, LockHeld, PipeTypes, TypeOK, WriterPlace, ReaderPlace, Proc, Empty
<1>4. WriterAsleep'
  BY DEF WriterAsleep, LockHeld, PipeTypes, TypeOK, WriterPlace, ReaderPlace, Proc, Full
<1>5. EndsOpen'
  BY DEF EndsOpen, LockHeld, PipeTypes, TypeOK, WriterPlace, ReaderPlace, Proc
<1> QED
  BY <1>1, <1>2, <1>3, <1>4, <1>5

\* A reader gets pi->lock.
LEMMA AcquireReadPInv ==
  ASSUME PInv, NEW p \in Reader, Acquire(p, "racquire", "wait")
  PROVE  PInv'
<1> USE EndsAssumption, NoneAssumption DEF PInv, Acquire, pipe
<1>1. PipeTypes'
  BY PipeSizes DEF PipeTypes, TypeOK, WriterPlace, ReaderPlace, Proc
<1>2. LockHeld'
  BY DEF LockHeld, PipeTypes, TypeOK, WriterPlace, ReaderPlace, Proc
<1>3. ReaderAsleep'
  BY DEF ReaderAsleep, LockHeld, PipeTypes, TypeOK, WriterPlace, ReaderPlace, Proc, Empty
<1>4. WriterAsleep'
  BY DEF WriterAsleep, LockHeld, PipeTypes, TypeOK, WriterPlace, ReaderPlace, Proc, Full
<1>5. EndsOpen'
  BY DEF EndsOpen, LockHeld, PipeTypes, TypeOK, WriterPlace, ReaderPlace, Proc
<1> QED
  BY <1>1, <1>2, <1>3, <1>4, <1>5

\* pipewrite fails: no reader is left, or the writer was killed.
LEMMA WriteFailsPInv ==
  ASSUME PInv, NEW p \in Writer, WriteFails(p)
  PROVE  PInv'
<1> USE EndsAssumption, NoneAssumption DEF PInv, WriteFails, Return, pipe
<1>1. PipeTypes'
  BY PipeSizes DEF PipeTypes, TypeOK, WriterPlace, ReaderPlace, Proc
<1>2. LockHeld'
  BY DEF LockHeld, PipeTypes, TypeOK, WriterPlace, ReaderPlace, Proc
<1>3. ReaderAsleep'
  BY DEF ReaderAsleep, WritersSurvive, EndsOpen, LockHeld, PipeTypes, TypeOK, WriterPlace, ReaderPlace, Proc, Empty
<1>4. WriterAsleep'
  BY DEF WriterAsleep, LockHeld, PipeTypes, TypeOK, WriterPlace, ReaderPlace, Proc, Full
<1>5. EndsOpen'
  BY DEF EndsOpen, LockHeld, PipeTypes, TypeOK, WriterPlace, ReaderPlace, Proc
<1> QED
  BY <1>1, <1>2, <1>3, <1>4, <1>5

\* The pipe is full, and the writer sleeps.
LEMMA WriteSleepsPInv ==
  ASSUME PInv, NEW p \in Writer, WriteSleeps(p)
  PROVE  PInv'
<1> USE EndsAssumption, NoneAssumption DEF PInv, WriteSleeps, WakeReaders, Wake, pipe
<1>1. PipeTypes'
  BY ZenonT(60), PipeSizes DEF PipeTypes, TypeOK, WriterPlace, ReaderPlace, Proc
<1>2. LockHeld'
  BY DEF LockHeld, PipeTypes, TypeOK, WriterPlace, ReaderPlace, Proc
<1>3. ReaderAsleep'
  BY DEF ReaderAsleep, LockHeld, PipeTypes, TypeOK, WriterPlace, ReaderPlace, Proc, Empty
<1>4. WriterAsleep'
  BY DEF WriterAsleep, LockHeld, PipeTypes, TypeOK, WriterPlace, ReaderPlace, Proc, Full
<1>5. EndsOpen'
  BY ZenonT(60) DEF EndsOpen, LockHeld, PipeTypes, TypeOK, WriterPlace, ReaderPlace, Proc
<1> QED
  BY <1>1, <1>2, <1>3, <1>4, <1>5

\* A byte goes into the ring.
LEMMA WriteBytePInv ==
  ASSUME PInv, NEW p \in Writer, NEW ch \in Byte, WriteByte(p, ch)
  PROVE  PInv'
<1> USE EndsAssumption, NoneAssumption DEF PInv, WriteByte
<1>1. PipeTypes'
  <2> USE DEF PipeTypes, TypeOK, Proc
  <2>1. /\ data' \in [0..(PIPESIZE - 1) -> Byte] /\ nwrite' \in 0..(UINT - 1)
        /\ nread' \in 0..(UINT - 1)
    BY PipeSizes, CounterType
  <2>2. i[p] + 1 \in 0..n[p] /\ i[p] + 1 \in Nat
    OBVIOUS
  <2>3. i' \in [Proc -> Nat] /\ \A q \in Proc : i'[q] \in 0..n'[q]
    BY <2>2
  <2> QED
    BY ZenonT(60), <2>1, <2>3 DEF WriterPlace, ReaderPlace
<1>2. LockHeld'
  BY DEF LockHeld, PipeTypes, TypeOK, WriterPlace, ReaderPlace, Proc
<1>3. ReaderAsleep'
  BY DEF ReaderAsleep, LockHeld, PipeTypes, TypeOK, WriterPlace, ReaderPlace, Proc, Empty
<1>4. WriterAsleep'
  BY DEF WriterAsleep, LockHeld, PipeTypes, TypeOK, WriterPlace, ReaderPlace, Proc, Full
<1>5. EndsOpen'
  BY ZenonT(60) DEF EndsOpen, LockHeld, PipeTypes, TypeOK, WriterPlace, ReaderPlace, Proc
<1> QED
  BY <1>1, <1>2, <1>3, <1>4, <1>5

\* pipewrite returns.
LEMMA WriteDonePInv ==
  ASSUME PInv, NEW p \in Writer, WriteDone(p)
  PROVE  PInv'
<1> USE EndsAssumption, NoneAssumption DEF PInv, WriteDone, Return, WakeReaders, Wake, pipe
<1>1. PipeTypes'
  <2> USE DEF PipeTypes, TypeOK, Proc
  <2>1. i' \in [Proc -> Nat] /\ n' \in [Proc -> 0..MaxN] /\ \A q \in Proc : i'[q] \in 0..n'[q]
    BY PipeSizes
  <2>2. /\ pc' \in [Proc -> WriterPlace \cup ReaderPlace]
        /\ \A q \in Writer : pc'[q] \in WriterPlace
        /\ \A q \in Reader : pc'[q] \in ReaderPlace
        /\ \A q \in Proc : pc'[q] = "user" => q = p \/ pc[q] = "user"
    BY ZenonT(60) DEF WriterPlace, ReaderPlace
  <2>3. \A q \in Proc : pc'[q] = "user" => i'[q] = 0
    BY <2>2
  <2> QED
    BY ZenonT(60), <2>1, <2>2, <2>3
<1>2. LockHeld'
  BY DEF LockHeld, PipeTypes, TypeOK, WriterPlace, ReaderPlace, Proc
<1>3. ReaderAsleep'
  BY DEF ReaderAsleep, LockHeld, PipeTypes, TypeOK, WriterPlace, ReaderPlace, Proc, Empty
<1>4. WriterAsleep'
  BY DEF WriterAsleep, LockHeld, PipeTypes, TypeOK, WriterPlace, ReaderPlace, Proc, Full
<1>5. EndsOpen'
  BY ZenonT(60) DEF EndsOpen, LockHeld, PipeTypes, TypeOK, WriterPlace, ReaderPlace, Proc
<1> QED
  BY <1>1, <1>2, <1>3, <1>4, <1>5

\* piperead fails: the reader was killed.
LEMMA ReadFailsPInv ==
  ASSUME PInv, NEW p \in Reader, ReadFails(p)
  PROVE  PInv'
<1> USE EndsAssumption, NoneAssumption DEF PInv, ReadFails, Return, pipe
<1>1. PipeTypes'
  BY PipeSizes DEF PipeTypes, TypeOK, WriterPlace, ReaderPlace, Proc
<1>2. LockHeld'
  BY DEF LockHeld, PipeTypes, TypeOK, WriterPlace, ReaderPlace, Proc
<1>3. ReaderAsleep'
  BY DEF ReaderAsleep, LockHeld, PipeTypes, TypeOK, WriterPlace, ReaderPlace, Proc, Empty
<1>4. WriterAsleep'
  BY DEF WriterAsleep, LockHeld, PipeTypes, TypeOK, WriterPlace, ReaderPlace, Proc, Full
<1>5. EndsOpen'
  BY DEF EndsOpen, LockHeld, PipeTypes, TypeOK, WriterPlace, ReaderPlace, Proc
<1> QED
  BY <1>1, <1>2, <1>3, <1>4, <1>5

\* The pipe is empty, and the reader sleeps.
LEMMA ReadSleepsPInv ==
  ASSUME PInv, NEW p \in Reader, ReadSleeps(p)
  PROVE  PInv'
<1> USE EndsAssumption, NoneAssumption DEF PInv, ReadSleeps, pipe
<1>1. PipeTypes'
  BY PipeSizes DEF PipeTypes, TypeOK, WriterPlace, ReaderPlace, Proc
<1>2. LockHeld'
  BY DEF LockHeld, PipeTypes, TypeOK, WriterPlace, ReaderPlace, Proc
<1>3. ReaderAsleep'
  BY DEF ReaderAsleep, LockHeld, PipeTypes, TypeOK, WriterPlace, ReaderPlace, Proc, Empty
<1>4. WriterAsleep'
  BY DEF WriterAsleep, LockHeld, PipeTypes, TypeOK, WriterPlace, ReaderPlace, Proc, Full
<1>5. EndsOpen'
  BY DEF EndsOpen, LockHeld, PipeTypes, TypeOK, WriterPlace, ReaderPlace, Proc
<1> QED
  BY <1>1, <1>2, <1>3, <1>4, <1>5

\* There is something for the reader.
LEMMA ReadStartsPInv ==
  ASSUME PInv, NEW p \in Reader, ReadStarts(p)
  PROVE  PInv'
<1> USE EndsAssumption, NoneAssumption DEF PInv, ReadStarts, pipe
<1>1. PipeTypes'
  BY PipeSizes DEF PipeTypes, TypeOK, WriterPlace, ReaderPlace, Proc
<1>2. LockHeld'
  BY DEF LockHeld, PipeTypes, TypeOK, WriterPlace, ReaderPlace, Proc
<1>3. ReaderAsleep'
  BY DEF ReaderAsleep, LockHeld, PipeTypes, TypeOK, WriterPlace, ReaderPlace, Proc, Empty
<1>4. WriterAsleep'
  BY DEF WriterAsleep, LockHeld, PipeTypes, TypeOK, WriterPlace, ReaderPlace, Proc, Full
<1>5. EndsOpen'
  BY DEF EndsOpen, LockHeld, PipeTypes, TypeOK, WriterPlace, ReaderPlace, Proc
<1> QED
  BY <1>1, <1>2, <1>3, <1>4, <1>5

\* A byte comes out of the ring.
LEMMA ReadBytePInv ==
  ASSUME PInv, NEW p \in Reader, ReadByte(p)
  PROVE  PInv'
<1> USE EndsAssumption, NoneAssumption DEF PInv, ReadByte
<1>1. PipeTypes'
  <2> USE DEF PipeTypes, TypeOK, Proc
  <2>1. nread' \in 0..(UINT - 1)
    BY CounterType
  <2>2. i[p] + 1 \in 0..n[p] /\ i[p] + 1 \in Nat
    OBVIOUS
  <2>3. i' \in [Proc -> Nat] /\ \A q \in Proc : i'[q] \in 0..n'[q]
    BY ZenonT(60), <2>2
  <2> QED
    BY ZenonT(60), <2>1, <2>3 DEF WriterPlace, ReaderPlace
<1>2. LockHeld'
  BY DEF LockHeld, PipeTypes, TypeOK, WriterPlace, ReaderPlace, Proc
<1>3. ReaderAsleep'
  BY DEF ReaderAsleep, LockHeld, PipeTypes, TypeOK, WriterPlace, ReaderPlace, Proc, Empty
<1>4. WriterAsleep'
  BY DEF WriterAsleep, LockHeld, PipeTypes, TypeOK, WriterPlace, ReaderPlace, Proc, Full
<1>5. EndsOpen'
  BY ZenonT(60) DEF EndsOpen, LockHeld, PipeTypes, TypeOK, WriterPlace, ReaderPlace, Proc
<1> QED
  BY <1>1, <1>2, <1>3, <1>4, <1>5

\* piperead returns.
LEMMA ReadDonePInv ==
  ASSUME PInv, NEW p \in Reader, ReadDone(p)
  PROVE  PInv'
<1> USE EndsAssumption, NoneAssumption DEF PInv, ReadDone, Return, WakeWriters, Wake, pipe
<1>1. PipeTypes'
  <2> USE DEF PipeTypes, TypeOK, Proc
  <2>1. i' \in [Proc -> Nat] /\ n' \in [Proc -> 0..MaxN] /\ \A q \in Proc : i'[q] \in 0..n'[q]
    BY PipeSizes
  <2>2. /\ pc' \in [Proc -> WriterPlace \cup ReaderPlace]
        /\ \A q \in Writer : pc'[q] \in WriterPlace
        /\ \A q \in Reader : pc'[q] \in ReaderPlace
        /\ \A q \in Proc : pc'[q] = "user" => q = p \/ pc[q] = "user"
    BY ZenonT(60) DEF WriterPlace, ReaderPlace
  <2>3. \A q \in Proc : pc'[q] = "user" => i'[q] = 0
    BY <2>2
  <2> QED
    BY ZenonT(60), <2>1, <2>2, <2>3
<1>2. LockHeld'
  BY ZenonT(60) DEF LockHeld, PipeTypes, TypeOK, WriterPlace, ReaderPlace, Proc
<1>3. ReaderAsleep'
  BY DEF ReaderAsleep, LockHeld, PipeTypes, TypeOK, WriterPlace, ReaderPlace, Proc, Empty
<1>4. WriterAsleep'
  BY DEF WriterAsleep, LockHeld, PipeTypes, TypeOK, WriterPlace, ReaderPlace, Proc, Full
<1>5. EndsOpen'
  BY ZenonT(60) DEF EndsOpen, LockHeld, PipeTypes, TypeOK, WriterPlace, ReaderPlace, Proc
<1> QED
  BY <1>1, <1>2, <1>3, <1>4, <1>5

\* A descriptor is closed, and others of its end are left.
LEMMA ClosePInv ==
  ASSUME PInv, NEW p \in Proc, Close(p)
  PROVE  PInv'
<1> USE EndsAssumption, NoneAssumption DEF PInv, Close, pipe
<1>1. PipeTypes'
  BY ZenonT(60), PipeSizes DEF PipeTypes, TypeOK, WriterPlace, ReaderPlace, Proc
<1>2. LockHeld'
  BY DEF LockHeld, PipeTypes, TypeOK, WriterPlace, ReaderPlace, Proc
<1>3. ReaderAsleep'
  BY DEF ReaderAsleep, LockHeld, PipeTypes, TypeOK, WriterPlace, ReaderPlace, Proc, Empty
<1>4. WriterAsleep'
  BY DEF WriterAsleep, LockHeld, PipeTypes, TypeOK, WriterPlace, ReaderPlace, Proc, Full
<1>5. EndsOpen'
  BY ZenonT(60) DEF EndsOpen, LockHeld, PipeTypes, TypeOK, WriterPlace, ReaderPlace, Proc
<1> QED
  BY <1>1, <1>2, <1>3, <1>4, <1>5

\* The last descriptor of an end is closed.
LEMMA PipeClosePInv ==
  ASSUME PInv, NEW p \in Proc, PipeClose(p)
  PROVE  PInv'
<1> USE EndsAssumption, NoneAssumption DEF PInv, PipeClose, WakeReaders, WakeWriters, Wake
<1>1. PipeTypes'
  BY ZenonT(60), PipeSizes DEF PipeTypes, TypeOK, WriterPlace, ReaderPlace, Proc
<1>2. LockHeld'
  BY DEF LockHeld, PipeTypes, TypeOK, WriterPlace, ReaderPlace, Proc
<1>3. ReaderAsleep'
  BY DEF ReaderAsleep, LockHeld, PipeTypes, TypeOK, WriterPlace, ReaderPlace, Proc, Empty
<1>4. WriterAsleep'
  BY DEF WriterAsleep, LockHeld, PipeTypes, TypeOK, WriterPlace, ReaderPlace, Proc, Full
<1>5. EndsOpen'
  BY ZenonT(60) DEF EndsOpen, LockHeld, PipeTypes, TypeOK, WriterPlace, ReaderPlace, Proc
<1> QED
  BY <1>1, <1>2, <1>3, <1>4, <1>5

\* A process is killed.
LEMMA KillPInv ==
  ASSUME PInv, NEW p \in Proc, Kill(p)
  PROVE  PInv'
<1> USE EndsAssumption, NoneAssumption DEF PInv, Kill, pipe
<1>1. PipeTypes'
  BY ZenonT(60), PipeSizes DEF PipeTypes, TypeOK, WriterPlace, ReaderPlace, Proc
<1>2. LockHeld'
  BY ZenonT(60) DEF LockHeld, PipeTypes, TypeOK, WriterPlace, ReaderPlace, Proc
<1>3. ReaderAsleep'
  BY DEF ReaderAsleep, LockHeld, PipeTypes, TypeOK, WriterPlace, ReaderPlace, Proc, Empty
<1>4. WriterAsleep'
  BY DEF WriterAsleep, LockHeld, PipeTypes, TypeOK, WriterPlace, ReaderPlace, Proc, Full
<1>5. EndsOpen'
  BY ZenonT(60) DEF EndsOpen, LockHeld, PipeTypes, TypeOK, WriterPlace, ReaderPlace, Proc
<1> QED
  BY <1>1, <1>2, <1>3, <1>4, <1>5

-----------------------------------------------------------------------------

\* Every step of a reader, a writer or kill keeps the invariant.
LEMMA NextPInv == PInv /\ [Next]_vars => PInv'
<1> SUFFICES ASSUME PInv, [Next]_vars PROVE PInv'
  OBVIOUS
<1>1. CASE \E p \in Writer : WriteStep(p) \/ \E m \in 0..MaxN : Call(p, m, "wacquire")
  <2> PICK p \in Writer : WriteStep(p) \/ \E m \in 0..MaxN : Call(p, m, "wacquire")
    BY <1>1
  <2>1. CASE \E m \in 0..MaxN : Call(p, m, "wacquire")
    BY <2>1, CallWritePInv
  <2>2. CASE WriteStep(p)
    BY <2>2, AcquireWritePInv, WriteFailsPInv, WriteSleepsPInv, WriteBytePInv, WriteDonePInv
       DEF WriteStep
  <2> QED
    BY <2>1, <2>2
<1>2. CASE \E p \in Reader : ReadStep(p) \/ \E m \in 0..MaxN : Call(p, m, "racquire")
  <2> PICK p \in Reader : ReadStep(p) \/ \E m \in 0..MaxN : Call(p, m, "racquire")
    BY <1>2
  <2>1. CASE \E m \in 0..MaxN : Call(p, m, "racquire")
    BY <2>1, CallReadPInv
  <2>2. CASE ReadStep(p)
    BY <2>2, AcquireReadPInv, ReadFailsPInv, ReadSleepsPInv, ReadStartsPInv, ReadBytePInv, ReadDonePInv
       DEF ReadStep
  <2> QED
    BY <2>1, <2>2
<1>3. CASE \E p \in Proc : Close(p) \/ PipeClose(p) \/ Kill(p)
  BY <1>3, ClosePInv, PipeClosePInv, KillPInv
<1>4. CASE UNCHANGED vars
  BY <1>4 DEF vars, pipe, PInv, PipeTypes, TypeOK, LockHeld, ReaderAsleep, WriterAsleep, EndsOpen, Empty, Full
<1> QED
  BY <1>1, <1>2, <1>3, <1>4 DEF Next

\* If no writer is killed, whoever sleeps at a pipe has a reason to, and the pipe
\* is freed when, and only when, both ends are closed.
THEOREM PipeIsSound == WritersSurvive => (Spec => []PipeSound)
<1> SUFFICES ASSUME WritersSurvive PROVE Spec => []PipeSound
  OBVIOUS
<1>1. PInv => PipeSound
  <2> SUFFICES ASSUME PInv PROVE PipeSound
    OBVIOUS
  <2>1. TypeOK
    BY DEF PInv, PipeTypes
  <2>2. ReaderNotForgotten
    BY NoneAssumption DEF PInv, ReaderAsleep, ReaderNotForgotten, Proc
  <2>3. WriterNotForgotten
    BY NoneAssumption DEF PInv, WriterAsleep, WriterNotForgotten, Proc
  <2>4. FreedWhenUnused
    BY DEF PInv, EndsOpen, FreedWhenUnused, Proc
  <2> QED
    BY <2>1, <2>2, <2>3, <2>4 DEF PipeSound
<1> QED
  BY <1>1, InitPInv, NextPInv, PTL DEF Spec

\* Killed writers included, no writer is forgotten and the pipe is freed in time.
THEOREM WritersNotForgotten == Spec => [](WriterNotForgotten /\ FreedWhenUnused)
<1>1. PInv => WriterNotForgotten /\ FreedWhenUnused
  BY NoneAssumption DEF PInv, WriterAsleep, WriterNotForgotten, EndsOpen, FreedWhenUnused, Proc
<1> QED
  BY <1>1, InitPInv, NextPInv, PTL DEF Spec

-----------------------------------------------------------------------------
(* Arithmetic of counters that wrap                                        *)

\* A remainder is below the divisor.
LEMMA ModRange == ASSUME NEW x \in Int, NEW d \in Nat \ {0} PROVE x % d \in 0..(d - 1)
  OBVIOUS

\* A number is its quotient times the divisor, and its remainder.
LEMMA ModDiv ==
  ASSUME NEW x \in Int, NEW d \in Nat \ {0} PROVE \E k \in Int : x = d * k + (x % d)
<1>1. x \div d \in Int /\ x = d * (x \div d) + (x % d)
  OBVIOUS
<1> QED
  BY ZenonT(60), <1>1

\* Multiples of the divisor are apart by at least the divisor.
LEMMA Multiples ==
  ASSUME NEW d \in Nat \ {0}, NEW a \in Int, NEW b \in Int, a > b PROVE d * a >= d * b + d
<1>1. d * (a - b) >= d
  OBVIOUS
<1> QED
  BY <1>1

\* Quotient and remainder are the only such pair.
LEMMA ModUnique ==
  ASSUME NEW x \in Int, NEW d \in Nat \ {0}, NEW k \in Int, NEW r \in 0..(d - 1), x = d * k + r
  PROVE  x % d = r
<1>1. PICK j \in Int : x = d * j + (x % d)
  BY ZenonT(60), ModDiv
<1>2. x % d \in 0..(d - 1)
  BY ModRange
<1>3. CASE j > k
  BY <1>1, <1>2, <1>3, Multiples
<1>4. CASE k > j
  BY <1>1, <1>2, <1>4, Multiples
<1>5. CASE k = j
  BY <1>1, <1>2, <1>5
<1> QED
  BY <1>3, <1>4, <1>5

\* A remainder modulo a multiple of d can be taken first.
LEMMA ModMod ==
  ASSUME NEW x \in Int, NEW d \in Nat \ {0}, NEW m \in Nat \ {0}, m % d = 0
  PROVE  (x % m) % d = x % d
<1> DEFINE y == x % m
           r == y % d
<1>1. PICK a \in Int : x = m * a + y
  BY ZenonT(60), ModDiv
<1>2. PICK u \in Int : m = d * u
  <2>1. m \in Int
    OBVIOUS
  <2>2. \E v \in Int : m = d * v + (m % d)
    BY ZenonT(60), <2>1, ModDiv
  <2> QED
    BY <2>1, <2>2
<1>3. y \in Int
  BY ModRange
<1> HIDE DEF y
<1>4. PICK b \in Int : y = d * b + r
  BY ZenonT(60), <1>3, ModDiv
<1>5. r \in 0..(d - 1)
  BY <1>3, ModRange
<1> HIDE DEF r
<1>6. PICK e \in Int : e = u * a
  OBVIOUS
<1>7. m * a = d * e
  BY <1>2, <1>6
<1>8. d * (e + b) = d * e + d * b
  OBVIOUS
<1>9. x = d * (e + b) + r /\ e + b \in Int
  BY <1>1, <1>4, <1>5, <1>7, <1>8
<1>10. x % d = r
  BY <1>5, <1>9, ModUnique
<1> QED
  BY <1>10 DEF r, y

\* A multiple of d less leaves the same remainder.
LEMMA ModShift ==
  ASSUME NEW x \in Int, NEW d \in Nat \ {0}, NEW m \in Nat \ {0}, m % d = 0
  PROVE  (x - m) % d = x % d
<1> DEFINE r == x % d
<1>1. PICK a \in Int : x = d * a + r
  BY ZenonT(60), ModDiv
<1>2. PICK u \in Int : m = d * u
  <2>1. m \in Int
    OBVIOUS
  <2>2. \E v \in Int : m = d * v + (m % d)
    BY ZenonT(60), <2>1, ModDiv
  <2> QED
    BY <2>1, <2>2
<1>3. r \in 0..(d - 1)
  BY ModRange
<1> HIDE DEF r
<1>4. PICK e \in Int : e = a - u
  OBVIOUS
<1>5. d * e = d * a - d * u
  BY <1>4
<1>6. x - m = d * e + r /\ x - m \in Int
  BY <1>1, <1>2, <1>3, <1>5
<1>7. (x - m) % d = r
  BY <1>3, <1>6, ModUnique
<1> QED
  BY <1>7 DEF r

\* Less than d numbers in a row have different remainders.
LEMMA ModDistinct ==
  ASSUME NEW x \in Int, NEW y \in Int, NEW d \in Nat \ {0}, x < y, y < x + d
  PROVE  x % d # y % d
<1> SUFFICES ASSUME x % d = y % d PROVE FALSE
  OBVIOUS
<1>1. PICK a \in Int : x = d * a + (x % d)
  BY ZenonT(60), ModDiv
<1>2. PICK b \in Int : y = d * b + (y % d)
  BY ZenonT(60), ModDiv
<1>3. x % d \in 0..(d - 1)
  BY ModRange
<1>4. CASE b > a
  BY <1>1, <1>2, <1>3, <1>4, Multiples
<1>5. CASE a > b
  BY <1>1, <1>2, <1>3, <1>5, Multiples
<1>6. CASE a = b
  BY <1>1, <1>2, <1>3, <1>6
<1> QED
  BY <1>4, <1>5, <1>6

-----------------------------------------------------------------------------
(* The ring is a first-in first-out queue                                  *)

\* The number of bytes in the ring.
Filled == (nwrite - nread) % UINT

RingInv == PInv /\ Filled <= PIPESIZE

\* The number of bytes, without wrapping.
LEMMA FilledIs ==
  ASSUME NEW w \in 0..(UINT - 1), NEW r \in 0..(UINT - 1)
  PROVE  (w - r) % UINT = IF w >= r THEN w - r ELSE w - r + UINT
<1> USE PipeSizes
<1>1. CASE w >= r
  <2>1. w - r = UINT * 0 + (w - r) /\ w - r \in 0..(UINT - 1)
    BY <1>1
  <2> QED
    BY <1>1, <2>1, ModUnique
<1>2. CASE w < r
  <2>1. w - r = UINT * (-1) + (w - r + UINT) /\ w - r + UINT \in 0..(UINT - 1)
    BY <1>2
  <2> QED
    BY <1>2, <2>1, ModUnique
<1> QED
  BY <1>1, <1>2

\* A sum of two counters that wraps at most once.
LEMMA CounterSum ==
  ASSUME NEW x \in 0..(UINT - 1), NEW y \in 0..UINT
  PROVE  (x + y) % UINT = IF x + y >= UINT THEN x + y - UINT ELSE x + y
<1> USE PipeSizes
<1>1. CASE x + y < UINT
  <2>1. x + y = UINT * 0 + (x + y) /\ x + y \in 0..(UINT - 1)
    BY <1>1
  <2> QED
    BY <1>1, <2>1, ModUnique
<1>2. CASE x + y >= UINT
  <2>1. x + y = UINT * 1 + (x + y - UINT) /\ x + y - UINT \in 0..(UINT - 1)
    BY <1>2
  <2> QED
    BY <1>2, <2>1, ModUnique
<1> QED
  BY <1>1, <1>2

\* What Full and Empty say of the number of bytes, and where the writer is.
LEMMA RingFacts ==
  ASSUME PInv
  PROVE  /\ nread \in 0..(UINT - 1) /\ nwrite \in 0..(UINT - 1) /\ Filled \in 0..(UINT - 1)
         /\ Full <=> Filled = PIPESIZE
         /\ Empty <=> Filled = 0
         /\ nwrite % PIPESIZE = (nread + Filled) % PIPESIZE
<1> USE PipeSizes
<1>1. nread \in 0..(UINT - 1) /\ nwrite \in 0..(UINT - 1)
  BY DEF PInv, PipeTypes, TypeOK
<1>2. Filled = IF nwrite >= nread THEN nwrite - nread ELSE nwrite - nread + UINT
  BY <1>1, FilledIs DEF Filled
<1>3. (nread + PIPESIZE) % UINT =
        IF nread + PIPESIZE >= UINT THEN nread + PIPESIZE - UINT ELSE nread + PIPESIZE
  BY <1>1, CounterSum
<1>4. Filled \in 0..(UINT - 1) /\ (Full <=> Filled = PIPESIZE) /\ (Empty <=> Filled = 0)
  BY <1>1, <1>2, <1>3 DEF Full, Empty
<1>5. nwrite = (nread + Filled) % UINT
  <2>1. (nread + Filled) % UINT =
          IF nread + Filled >= UINT THEN nread + Filled - UINT ELSE nread + Filled
    BY <1>1, <1>4, CounterSum
  <2> QED
    BY <1>1, <1>2, <2>1
<1>6. ((nread + Filled) % UINT) % PIPESIZE = (nread + Filled) % PIPESIZE
  <2>1. nread + Filled \in Int /\ UINT \in Nat \ {0} /\ UINT % PIPESIZE = 0
    BY <1>1, <1>4
  <2> QED
    BY <2>1, ModMod
<1> QED
  BY <1>1, <1>4, <1>5, <1>6

\* The m bytes of a ring d from r on.
Bytes(d, r, m) == [k \in 1..m |-> d[(r + k - 1) % PIPESIZE]]

\* The contents of the ring are a sequence of bytes.
LEMMA BytesSeq ==
  ASSUME NEW d \in [0..(PIPESIZE - 1) -> Byte], NEW r \in Nat, NEW m \in Nat
  PROVE  /\ Bytes(d, r, m) \in Seq(Byte) /\ Len(Bytes(d, r, m)) = m
         /\ \A k \in 1..m : Bytes(d, r, m)[k] = d[(r + k - 1) % PIPESIZE]
<1> USE PipeSizes
<1>1. \A k \in 1..m : (r + k - 1) % PIPESIZE \in 0..(PIPESIZE - 1)
  BY ModRange
<1>2. Bytes(d, r, m) \in [1..m -> Byte]
  BY <1>1 DEF Bytes
<1>3. Bytes(d, r, m) \in Seq(Byte)
  BY <1>2, SeqDef
<1>4. Len(Bytes(d, r, m)) = m
  BY <1>2, <1>3, LenProperties
<1> QED
  BY <1>3, <1>4 DEF Bytes

\* The contents are a sequence of bytes.
LEMMA ContentsSeq ==
  ASSUME PInv
  PROVE  /\ Contents \in Seq(Byte) /\ Len(Contents) = Filled
         /\ \A k \in 1..Filled : Contents[k] = data[(nread + k - 1) % PIPESIZE]
<1>1. data \in [0..(PIPESIZE - 1) -> Byte] /\ nread \in Nat /\ Filled \in Nat
  BY RingFacts, PipeSizes DEF PInv, PipeTypes, TypeOK
<1>2. Contents = Bytes(data, nread, Filled)
  BY DEF Contents, Filled, Bytes
<1> QED
  BY ZenonT(60), <1>1, <1>2, BytesSeq

\* A byte goes into the ring at its end.
LEMMA WriteBytePuts ==
  ASSUME RingInv, PInv', NEW p \in Writer, NEW ch \in Byte, WriteByte(p, ch)
  PROVE  F!Put(ch) /\ Filled' <= PIPESIZE
<1> USE PipeSizes DEF RingInv
<1>1. /\ nread' = nread /\ nwrite' = (nwrite + 1) % UINT /\ ~Full
      /\ data' = [data EXCEPT ![nwrite % PIPESIZE] = ch]
      /\ data \in [0..(PIPESIZE - 1) -> Byte]
  BY DEF WriteByte, PInv, PipeTypes, TypeOK
<1>2. /\ nread \in 0..(UINT - 1) /\ nwrite \in 0..(UINT - 1) /\ Filled \in 0..(UINT - 1)
      /\ Filled < PIPESIZE /\ nwrite % PIPESIZE = (nread + Filled) % PIPESIZE
  BY <1>1, RingFacts
<1>3. Filled' = Filled + 1
  <2>1. nwrite' = IF nwrite + 1 >= UINT THEN nwrite + 1 - UINT ELSE nwrite + 1
    BY <1>1, <1>2, CounterSum
  <2>2. nwrite' \in 0..(UINT - 1)
    BY <1>2, <2>1
  <2>3. Filled' = IF nwrite' >= nread THEN nwrite' - nread ELSE nwrite' - nread + UINT
    BY <1>1, <1>2, <2>2, FilledIs DEF Filled
  <2>4. Filled = IF nwrite >= nread THEN nwrite - nread ELSE nwrite - nread + UINT
    BY <1>2, FilledIs DEF Filled
  <2> QED
    BY <1>2, <2>1, <2>3, <2>4
<1>4. /\ Contents \in Seq(Byte) /\ Len(Contents) = Filled
      /\ \A k \in 1..Filled : Contents[k] = data[(nread + k - 1) % PIPESIZE]
  BY ContentsSeq
<1>5. /\ Contents' \in Seq(Byte) /\ Len(Contents') = Filled + 1
      /\ \A k \in 1..(Filled + 1) : Contents'[k] = data'[(nread + k - 1) % PIPESIZE]
  <2>1. data' \in [0..(PIPESIZE - 1) -> Byte] /\ nread \in Nat /\ Filled + 1 \in Nat
    BY <1>1, <1>2
  <2>2. Contents' = Bytes(data', nread, Filled + 1)
    BY <1>1, <1>3 DEF Contents, Filled, Bytes
  <2>3. PICK d \in [0..(PIPESIZE - 1) -> Byte], r \in Nat, m \in Nat :
               d = data' /\ r = nread /\ m = Filled + 1
    BY <2>1
  <2> HIDE PipeSizes
  <2>4. /\ Bytes(d, r, m) \in Seq(Byte) /\ Len(Bytes(d, r, m)) = m
        /\ \A k \in 1..m : Bytes(d, r, m)[k] = d[(r + k - 1) % PIPESIZE]
    BY ZenonT(60), BytesSeq
  <2> QED
    BY <2>2, <2>3, <2>4
<1>6. ASSUME NEW k \in 1..Filled PROVE Contents'[k] = Contents[k]
  <2> DEFINE x == nread + k - 1
  <2>1. x \in Int /\ x < nread + Filled /\ nread + Filled < x + PIPESIZE /\ nread + Filled \in Int
    BY <1>2
  <2>2. x % PIPESIZE # nwrite % PIPESIZE /\ x % PIPESIZE \in 0..(PIPESIZE - 1)
    BY ZenonT(60), <1>2, <2>1, ModDistinct, ModRange
  <2>3. data'[x % PIPESIZE] = data[x % PIPESIZE]
    BY <1>1, <2>2
  <2> QED
    BY <1>2, <1>4, <1>5, <2>3, k \in 1..(Filled + 1)
<1>7. Contents'[Filled + 1] = ch
  <2>1. nread + (Filled + 1) - 1 = nread + Filled /\ nwrite % PIPESIZE \in 0..(PIPESIZE - 1)
    BY <1>2, ModRange
  <2> QED
    BY <1>1, <1>2, <1>5, <2>1
<1>8. Contents' = Append(Contents, ch)
  <2>1. /\ Append(Contents, ch) \in Seq(Byte) /\ Len(Append(Contents, ch)) = Filled + 1
        /\ \A k \in 1..Filled : Append(Contents, ch)[k] = Contents[k]
        /\ Append(Contents, ch)[Filled + 1] = ch
    BY <1>4, AppendProperties
  <2>2. \A k \in 1..(Filled + 1) : Contents'[k] = Append(Contents, ch)[k]
    BY <1>2, <1>6, <1>7, <2>1
  <2> QED
    BY <1>5, <2>1, <2>2, SeqEqual
<1> QED
  BY <1>2, <1>3, <1>4, <1>8 DEF F!Put

\* A byte comes out of the ring at its front.
LEMMA ReadByteGets ==
  ASSUME RingInv, PInv', NEW p \in Reader, ReadByte(p)
  PROVE  F!Get /\ Filled' <= PIPESIZE
<1> USE PipeSizes DEF RingInv
<1>1. nread' = (nread + 1) % UINT /\ nwrite' = nwrite /\ data' = data /\ ~Empty
  BY DEF ReadByte
<1>2. /\ nread \in 0..(UINT - 1) /\ nwrite \in 0..(UINT - 1) /\ Filled \in 1..(UINT - 1)
  BY <1>1, RingFacts
<1>3. nread' = IF nread + 1 >= UINT THEN nread + 1 - UINT ELSE nread + 1
  BY <1>1, <1>2, CounterSum
<1>4. Filled' = Filled - 1
  <2>1. nread' \in 0..(UINT - 1)
    BY <1>2, <1>3
  <2>2. Filled' = IF nwrite >= nread' THEN nwrite - nread' ELSE nwrite - nread' + UINT
    <3>1. (nwrite - nread') % UINT =
             IF nwrite >= nread' THEN nwrite - nread' ELSE nwrite - nread' + UINT
      BY <1>2, <2>1, FilledIs
    <3> QED
      BY <1>1, <3>1 DEF Filled
  <2>3. Filled = IF nwrite >= nread THEN nwrite - nread ELSE nwrite - nread + UINT
    BY <1>2, FilledIs DEF Filled
  <2> QED
    BY <1>1, <1>2, <1>3, <2>2, <2>3 DEF Empty
<1>5. /\ Contents \in Seq(Byte) /\ Len(Contents) = Filled
      /\ \A k \in 1..Filled : Contents[k] = data[(nread + k - 1) % PIPESIZE]
  BY ContentsSeq
<1>6. /\ Contents' \in Seq(Byte) /\ Len(Contents') = Filled - 1
      /\ \A k \in 1..(Filled - 1) : Contents'[k] = data[(nread' + k - 1) % PIPESIZE]
  <2>1. data \in [0..(PIPESIZE - 1) -> Byte] /\ nread' \in Nat /\ Filled - 1 \in Nat
    BY <1>2, <1>3 DEF PInv, PipeTypes, TypeOK
  <2>2. Contents' = Bytes(data, nread', Filled - 1)
    BY <1>1, <1>4 DEF Contents, Filled, Bytes
  <2>3. PICK d \in [0..(PIPESIZE - 1) -> Byte], r \in Nat, m \in Nat :
               d = data /\ r = nread' /\ m = Filled - 1
    BY <2>1
  <2> HIDE PipeSizes
  <2>4. /\ Bytes(d, r, m) \in Seq(Byte) /\ Len(Bytes(d, r, m)) = m
        /\ \A k \in 1..m : Bytes(d, r, m)[k] = d[(r + k - 1) % PIPESIZE]
    BY ZenonT(60), BytesSeq
  <2> QED
    BY <2>2, <2>3, <2>4
<1>7. ASSUME NEW k \in 1..(Filled - 1) PROVE Contents'[k] = Contents[k + 1]
  <2> DEFINE x == nread + k
  <2>1. x \in Int /\ UINT \in Nat \ {0} /\ nread + (k + 1) - 1 = x /\ nread' + k - 1 \in Int
    BY <1>2, <1>3
  <2>2. nread' + k - 1 = x \/ nread' + k - 1 = x - UINT
    BY <1>2, <1>3
  <2>3. (x - UINT) % PIPESIZE = x % PIPESIZE
    BY <2>1, ModShift
  <2>4. k + 1 \in 1..Filled
    BY <1>2
  <2> HIDE DEF x
  <2>5. Contents[k + 1] = data[x % PIPESIZE]
    BY <1>5, <2>1, <2>4
  <2>6. Contents'[k] = data[(nread' + k - 1) % PIPESIZE]
    BY <1>6
  <2> QED
    BY <2>2, <2>3, <2>5, <2>6
<1>8. Contents' = Tail(Contents)
  <2>1. Contents # <<>>
    BY <1>2, <1>5
  <2>2. /\ Tail(Contents) \in Seq(Byte) /\ Len(Tail(Contents)) = Filled - 1
        /\ \A k \in 1..(Filled - 1) : Tail(Contents)[k] = Contents[k + 1]
    BY <1>5, <2>1, HeadTailProperties
  <2>3. \A k \in 1..(Filled - 1) : Contents'[k] = Tail(Contents)[k]
    BY <1>7, <2>2
  <2> QED
    BY <1>6, <2>2, <2>3, SeqEqual
<1> QED
  BY <1>2, <1>4, <1>5, <1>8 DEF F!Get

\* Every other step leaves the ring as it is.
LEMMA RingKept ==
  ASSUME [Next]_vars, \A p \in Writer, ch \in Byte : ~WriteByte(p, ch),
         \A p \in Reader : ~ReadByte(p)
  PROVE  data' = data /\ nread' = nread /\ nwrite' = nwrite
<1> USE DEF pipe
<1>1. CASE \E p \in Writer : WriteStep(p) \/ \E m \in 0..MaxN : Call(p, m, "wacquire")
  BY <1>1 DEF WriteStep, Call, Acquire, WriteFails, WriteSleeps, WriteDone, Return
<1>2. CASE \E p \in Reader : ReadStep(p) \/ \E m \in 0..MaxN : Call(p, m, "racquire")
  BY <1>2 DEF ReadStep, Call, Acquire, ReadFails, ReadSleeps, ReadStarts, ReadDone, Return
<1>3. CASE \E p \in Proc : Close(p) \/ PipeClose(p) \/ Kill(p)
  BY <1>3 DEF Close, PipeClose, Kill
<1>4. CASE UNCHANGED vars
  BY <1>4 DEF vars
<1> QED
  BY <1>1, <1>2, <1>3, <1>4 DEF Next

\* Every step of the pipe puts a byte, takes the oldest, or stutters.
LEMMA NextPutsOrGets == RingInv /\ [Next]_vars => RingInv' /\ [F!Next]_Contents
<1> SUFFICES ASSUME RingInv, [Next]_vars PROVE RingInv' /\ [F!Next]_Contents
  OBVIOUS
<1>1. PInv'
  BY NextPInv DEF RingInv
<1>2. CASE \E p \in Writer, ch \in Byte : WriteByte(p, ch)
  BY <1>1, <1>2, WriteBytePuts DEF F!Next, RingInv
<1>3. CASE \E p \in Reader : ReadByte(p)
  BY <1>1, <1>3, ReadByteGets DEF F!Next, RingInv
<1>4. CASE ~(\E p \in Writer, ch \in Byte : WriteByte(p, ch)) /\ ~\E p \in Reader : ReadByte(p)
  <2>1. data' = data /\ nread' = nread /\ nwrite' = nwrite
    BY <1>4, RingKept
  <2>2. Contents' = Contents /\ Filled' = Filled
    BY <2>1 DEF Contents, Filled
  <2> QED
    BY <1>1, <2>2 DEF RingInv
<1> QED
  BY <1>2, <1>3, <1>4

\* A new pipe is an empty queue.
LEMMA InitEmpty == Init => RingInv /\ F!Init
<1> SUFFICES ASSUME Init PROVE RingInv /\ F!Init
  OBVIOUS
<1>1. PInv
  BY InitPInv
<1>2. Empty
  BY DEF Init, Empty
<1>3. Filled = 0
  BY <1>1, <1>2, RingFacts
<1>4. Contents = <<>>
  BY <1>1, <1>3, ContentsSeq, EmptySeq
<1> QED
  BY <1>1, <1>3, <1>4, PipeSizes DEF RingInv, F!Init

\* The ring of pipe.c with its wrapping counters is a bounded first-in first-out
\* queue, for any size of the ring that divides the range of the counters.
THEOREM PipeImplementsFifo == Spec => ImplementsFifo
<1>1. Init => RingInv /\ F!Init
  BY InitEmpty
<1>2. RingInv /\ [Next]_vars => RingInv' /\ [F!Next]_Contents
  BY NextPutsOrGets
<1> QED
  BY <1>1, <1>2, PTL DEF Spec, ImplementsFifo, F!Spec

=============================================================================
