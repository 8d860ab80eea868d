-------------------------------- MODULE Pipe --------------------------------
(***************************************************************************)
(* kernel/pipe.c: one pipe, the processes that hold its ends, and the      *)
(* 32-bit counters nread and nwrite, which wrap.  The ring buffer, the     *)
(* sleeps on &pi->nread and &pi->nwrite, a close of the last descriptor of *)
(* an end (fileclose in kernel/file.c), and kill.  While pi->lock is held  *)
(* a step is one iteration of a loop; sleep gives the lock up and marks    *)
(* the sleeper in one step, which is what module Sched shows of sleep().   *)
(***************************************************************************)
EXTENDS Integers, Sequences

CONSTANTS
  Reader, Writer,   \* processes with a descriptor of the read, write end
  Killable,         \* processes that somebody may kill
  Byte,
  PIPESIZE,
  UINT,             \* 2^32 in the code
  MaxN,             \* bound on the size of a read or write
  None

Proc == Reader \cup Writer

ASSUME PipeSizes ==
  /\ PIPESIZE \in Nat \ {0}
  /\ UINT \in Nat /\ UINT > PIPESIZE /\ UINT % PIPESIZE = 0
  /\ MaxN \in Nat \ {0}
ASSUME EndsAssumption ==
  Reader # {} /\ Writer # {} /\ Reader \cap Writer = {} /\ Killable \subseteq Proc
ASSUME ByteAssumption == Byte # {}
ASSUME NoneAssumption == None \notin Proc

VARIABLES
  data, nread, nwrite, readopen, writeopen,   \* fields of struct pipe
  lock,      \* pi->lock: the process that holds it
  freed,     \* kfree(pi) has been called
  killed,
  pc,        \* where each process is
  n, i       \* of its pipewrite or piperead

pipe == <<data, nread, nwrite, readopen, writeopen>>
vars == <<pipe, lock, freed, killed, pc, n, i>>

\* pipealloc has returned.
Init ==
  /\ data \in [0..(PIPESIZE - 1) -> {CHOOSE b \in Byte : TRUE}]
  /\ nread = 0
  /\ nwrite = 0
  /\ readopen = TRUE
  /\ writeopen = TRUE
  /\ lock = None
  /\ freed = FALSE
  /\ killed = [p \in Proc |-> FALSE]
  /\ pc = [p \in Proc |-> "user"]
  /\ n = [p \in Proc |-> 0]
  /\ i = [p \in Proc |-> 0]

-----------------------------------------------------------------------------

Full == nwrite = (nread + PIPESIZE) % UINT
Empty == nread = nwrite

\* wakeup on a channel: its sleepers go on to reacquire pi->lock.
Wake(procs, asleep, awake) ==
  [p \in Proc |-> IF procs[p] = asleep THEN awake ELSE procs[p]]
WakeReaders(procs) == Wake(procs, "rsleep", "racquire")
WakeWriters(procs) == Wake(procs, "wsleep", "wacquire")

\* A call of pipewrite or piperead, up to its first acquire.
Call(p, m, l) ==
  /\ pc[p] = "user"
  /\ pc' = [pc EXCEPT ![p] = l]
  /\ n' = [n EXCEPT ![p] = m]
  /\ UNCHANGED <<pipe, lock, freed, killed, i>>

Acquire(p, from, l) ==
  /\ pc[p] = from
  /\ lock = None
  /\ lock' = p
  /\ pc' = [pc EXCEPT ![p] = l]
  /\ UNCHANGED <<pipe, freed, killed, n, i>>

\* The call returns, with procs as the other processes are left.
Return(p, procs) ==
  /\ lock' = None
  /\ pc' = [procs EXCEPT ![p] = "user"]
  /\ n' = [n EXCEPT ![p] = 0]
  /\ i' = [i EXCEPT ![p] = 0]
  /\ UNCHANGED <<pipe, freed, killed>>

\* pipewrite returns -1: no reader is left, or the process was killed.
WriteFails(p) ==
  /\ pc[p] = "write"
  /\ i[p] < n[p]
  /\ ~readopen \/ killed[p]
  /\ Return(p, pc)

\* Faulty: the readers are woken only at the end of the call.
WriteSleepsSilently(p) ==
  /\ pc[p] = "write"
  /\ i[p] < n[p]
  /\ readopen /\ ~killed[p]
  /\ Full
  /\ lock' = None
  /\ pc' = [pc EXCEPT ![p] = "wsleep"]
  /\ UNCHANGED <<pipe, freed, killed, n, i>>

\* The pipe is full: wake the readers and sleep.
WriteSleeps(p) ==
  /\ pc[p] = "write"
  /\ i[p] < n[p]
  /\ readopen /\ ~killed[p]
  /\ Full
  /\ lock' = None
  /\ pc' = [WakeReaders(pc) EXCEPT ![p] = "wsleep"]
  /\ UNCHANGED <<pipe, freed, killed, n, i>>

\* Faulty: the counter moves before the byte is stored.
WriteBytePreIncrement(p, ch) ==
  /\ pc[p] = "write"
  /\ i[p] < n[p]
  /\ readopen /\ ~killed[p]
  /\ ~Full
  /\ data' = [data EXCEPT ![(nwrite + 1) % PIPESIZE] = ch]
  /\ nwrite' = (nwrite + 1) % UINT
  /\ i' = [i EXCEPT ![p] = @ + 1]
  /\ UNCHANGED <<nread, readopen, writeopen, lock, freed, killed, pc, n>>

\* A byte goes into the ring.
WriteByte(p, ch) ==
  /\ pc[p] = "write"
  /\ i[p] < n[p]
  /\ readopen /\ ~killed[p]
  /\ ~Full
  /\ data' = [data EXCEPT ![nwrite % PIPESIZE] = ch]
  /\ nwrite' = (nwrite + 1) % UINT
  /\ i' = [i EXCEPT ![p] = @ + 1]
  /\ UNCHANGED <<nread, readopen, writeopen, lock, freed, killed, pc, n>>

\* All bytes are in, or copyin failed: wake the readers and return.
WriteDone(p) ==
  /\ pc[p] = "write"
  /\ i[p] = n[p] \/ (readopen /\ ~killed[p] /\ ~Full)
  /\ Return(p, WakeReaders(pc))

\* piperead returns -1: killed while the pipe is empty.
ReadFails(p) ==
  /\ pc[p] = "wait"
  /\ Empty /\ writeopen
  /\ killed[p]
  /\ Return(p, pc)

\* The pipe is empty: sleep.
ReadSleeps(p) ==
  /\ pc[p] = "wait"
  /\ Empty /\ writeopen
  /\ ~killed[p]
  /\ lock' = None
  /\ pc' = [pc EXCEPT ![p] = "rsleep"]
  /\ UNCHANGED <<pipe, freed, killed, n, i>>

\* There is a byte, or no writer is left: piperead goes on to copy.
ReadStarts(p) ==
  /\ pc[p] = "wait"
  /\ ~Empty \/ ~writeopen
  /\ pc' = [pc EXCEPT ![p] = "read"]
  /\ UNCHANGED <<pipe, lock, freed, killed, n, i>>

\* A byte comes out of the ring.
ReadByte(p) ==
  /\ pc[p] = "read"
  /\ i[p] < n[p]
  /\ ~Empty
  /\ nread' = (nread + 1) % UINT
  /\ i' = [i EXCEPT ![p] = @ + 1]
  /\ UNCHANGED <<data, nwrite, readopen, writeopen, lock, freed, killed, pc, n>>

\* n bytes are read, the pipe is empty, or copyout failed: wake the writers.
ReadDone(p) ==
  /\ pc[p] = "read"
  /\ Return(p, WakeWriters(pc))

\* fileclose, when other processes still have a descriptor of that end.
Close(p) ==
  /\ pc[p] = "user"
  /\ \E q \in (IF p \in Writer THEN Writer ELSE Reader) \ {p} : pc[q] # "closed"
  /\ pc' = [pc EXCEPT ![p] = "closed"]
  /\ UNCHANGED <<pipe, lock, freed, killed, n, i>>

\* fileclose of the last descriptor of an end: pipeclose.
PipeClose(p) ==
  /\ pc[p] = "user"
  /\ \A q \in (IF p \in Writer THEN Writer ELSE Reader) \ {p} : pc[q] = "closed"
  /\ lock = None
  /\ writeopen' = (writeopen /\ p \notin Writer)
  /\ readopen' = (readopen /\ p \in Writer)
  /\ pc' = [(IF p \in Writer THEN WakeReaders(pc) ELSE WakeWriters(pc)) EXCEPT ![p] = "closed"]
  /\ freed' = (~readopen' /\ ~writeopen')
  /\ UNCHANGED <<data, nread, nwrite, lock, killed, n, i>>

\* kkill: a sleeper is woken.
Kill(p) ==
  /\ p \in Killable
  /\ ~killed[p]
  /\ pc[p] # "closed"
  /\ killed' = [killed EXCEPT ![p] = TRUE]
  /\ pc' = [pc EXCEPT ![p] = CASE @ = "rsleep" -> "racquire"
                               [] @ = "wsleep" -> "wacquire"
                               [] OTHER -> @]
  /\ UNCHANGED <<pipe, lock, freed, n, i>>

WriteStep(p) ==
  \/ Acquire(p, "wacquire", "write")
  \/ WriteFails(p)
  \/ WriteSleeps(p)
  \/ \E ch \in Byte : WriteByte(p, ch)
  \/ WriteDone(p)

ReadStep(p) ==
  \/ Acquire(p, "racquire", "wait")
  \/ ReadFails(p)
  \/ ReadSleeps(p)
  \/ ReadStarts(p)
  \/ ReadByte(p)
  \/ ReadDone(p)

Next ==
  \/ \E p \in Writer : WriteStep(p) \/ \E m \in 0..MaxN : Call(p, m, "wacquire")
  \/ \E p \in Reader : ReadStep(p) \/ \E m \in 0..MaxN : Call(p, m, "racquire")
  \/ \E p \in Proc : Close(p) \/ PipeClose(p) \/ Kill(p)

Spec == Init /\ [][Next]_vars

-----------------------------------------------------------------------------

\* The variables have their types.
TypeOK ==
  /\ data \in [0..(PIPESIZE - 1) -> Byte]
  /\ nread \in 0..(UINT - 1)
  /\ nwrite \in 0..(UINT - 1)
  /\ readopen \in BOOLEAN
  /\ writeopen \in BOOLEAN
  /\ lock \in Proc \cup {None}
  /\ freed \in BOOLEAN
  /\ killed \in [Proc -> BOOLEAN]
  /\ n \in [Proc -> 0..MaxN]
  /\ \A p \in Proc : i[p] \in 0..n[p]

\* No reader sleeps in piperead once there is something for it, a byte or the
\* end of file: pipe.c lets it sleep only on an empty pipe with a writer.
ReaderNotForgotten ==
  lock = None => \A p \in Reader : pc[p] = "rsleep" => Empty /\ writeopen

\* No writer sleeps in pipewrite once there is room for a byte, or no reader.
WriterNotForgotten ==
  lock = None => \A p \in Writer : pc[p] = "wsleep" => Full /\ readopen

\* pipeclose frees the pipe when, and only when, no process can use it again.
FreedWhenUnused == freed <=> \A p \in Proc : pc[p] = "closed"

\* A pipe is sound: whoever sleeps at it has a reason to, and it is freed when
\* both ends are closed.
PipeSound == TypeOK /\ ReaderNotForgotten /\ WriterNotForgotten /\ FreedWhenUnused

\* The bytes in the ring, oldest first.
Contents ==
  [k \in 1..((nwrite - nread) % UINT) |-> data[(nread + k - 1) % PIPESIZE]]

F == INSTANCE Fifo WITH Capacity <- PIPESIZE, q <- Contents

\* The ring with its wrapping counters is a bounded first-in first-out queue.
ImplementsFifo == F!Spec

=============================================================================
