-------------------------------- MODULE Log ---------------------------------
(***************************************************************************)
(* The redo log of kernel/log.c over a disk that writes one block at a     *)
(* time: group commit, absorption, pinning of logged buffers, waiting for  *)
(* space, and recovery after a crash at any point, recovery included.      *)
(* A critical section under log.lock is one step; so is each disk write.   *)
(* The buffer cache appears as the block contents it holds: a buffer that  *)
(* nobody pins may be recycled.                                            *)
(***************************************************************************)
EXTENDS Integers, Sequences, FiniteSets

CONSTANTS
  Proc,          \* processes that make file-system calls
  Block,         \* home blocks
  Val,           \* block contents
  MAXOPBLOCKS,   \* space begin_op reserves for an operation
  LOGBLOCKS,     \* slots of the log
  OPBLOCKS,      \* distinct blocks an operation really writes
  NotCached      \* a block that is in no buffer

ASSUME LogSizes ==
  /\ OPBLOCKS \in Nat \ {0}
  /\ MAXOPBLOCKS \in Nat /\ OPBLOCKS <= MAXOPBLOCKS
  /\ LOGBLOCKS \in Nat /\ MAXOPBLOCKS <= LOGBLOCKS
ASSUME ProcAssumption == IsFiniteSet(Proc)
ASSUME NotCachedAssumption == NotCached \notin Val

\* The data block of the log that holds entry tail of the header is tail + 1.
Slot == 1..LOGBLOCKS

VARIABLES
  dhome,         \* disk: the home blocks
  dlog,          \* disk: the log's data blocks
  dhead,         \* disk: the log's header block, its n entries
  cache,         \* contents of the buffer of each block
  pin,           \* references that bpin has added to that buffer
  lh,            \* log.lh, its n entries
  outstanding,   \* log.outstanding
  committing,    \* log.committing
  pc,            \* where each process is
  wrote,         \* blocks the current operation of a process has logged
  phase,         \* how far commit() or recover_from_log() is
  tail           \* their loop variable

disk == <<dhome, dlog, dhead>>
vars == <<disk, cache, pin, lh, outstanding, committing, pc, wrote, phase, tail>>

\* An empty log and, in memory, nothing: a machine about to boot.
Init ==
  /\ dhome \in [Block -> Val]
  /\ \E v \in Val : dlog = [i \in Slot |-> v]
  /\ dhead = <<>>
  /\ cache = [b \in Block |-> NotCached]
  /\ pin = [b \in Block |-> 0]
  /\ lh = <<>>
  /\ outstanding = 0
  /\ committing = FALSE
  /\ pc = [p \in Proc |-> "idle"]
  /\ wrote = [p \in Proc |-> {}]
  /\ phase = "readhead"
  /\ tail = 0

-----------------------------------------------------------------------------

Logged(h) == {h[i] : i \in 1..Len(h)}

\* bread: the buffer, filled from the disk when the block was in none.
Bread(b) == IF cache[b] = NotCached THEN dhome[b] ELSE cache[b]

\* wakeup(&log): every sleeper runs its loop in begin_op again.
Wakeup(procs) == [p \in Proc |-> IF procs[p] = "sleep" THEN "retry" ELSE procs[p]]

\* bget recycles a buffer whose refcnt is 0.
Recycle(b) ==
  /\ pin[b] = 0
  /\ cache[b] # NotCached
  /\ cache' = [cache EXCEPT ![b] = NotCached]
  /\ UNCHANGED <<disk, pin, lh, outstanding, committing, pc, wrote, phase, tail>>

-----------------------------------------------------------------------------

\* initlog runs before the first operation.
Recovering == phase \in {"readhead", "rinstall"}

NoSpace == Len(lh) + (outstanding + 1) * MAXOPBLOCKS > LOGBLOCKS

\* begin_op, from its start or woken from its sleep.
BeginOp(p) ==
  /\ ~Recovering
  /\ pc[p] \in {"idle", "retry"}
  /\ IF committing \/ NoSpace
     THEN /\ pc' = [pc EXCEPT ![p] = "sleep"]
          /\ UNCHANGED outstanding
     ELSE /\ pc' = [pc EXCEPT ![p] = "op"]
          /\ outstanding' = outstanding + 1
  /\ UNCHANGED <<disk, cache, pin, lh, committing, wrote, phase, tail>>

\* An operation may log b: it writes at most OPBLOCKS different blocks.
MayLog(p, b) ==
  /\ pc[p] = "op"
  /\ Cardinality(wrote[p] \cup {b}) <= OPBLOCKS

\* log_write's two panics.
LogWritePanics == Len(lh) >= LOGBLOCKS \/ outstanding < 1

\* An operation reads b, changes it and calls log_write, which absorbs a
\* block that the log already has and otherwise appends and pins it.
LogWrite(p, b, v) ==
  /\ MayLog(p, b)
  /\ ~LogWritePanics
  /\ cache' = [cache EXCEPT ![b] = v]
  /\ IF b \in Logged(lh)
     THEN UNCHANGED <<lh, pin>>
     ELSE /\ lh' = Append(lh, b)
          /\ pin' = [pin EXCEPT ![b] = @ + 1]
  /\ wrote' = [wrote EXCEPT ![p] = @ \cup {b}]
  /\ UNCHANGED <<disk, outstanding, committing, pc, phase, tail>>

\* Faulty: only the operation that commits wakes the sleepers.
EndOpWithoutWakeup(p) ==
  /\ pc[p] = "op"
  /\ ~committing
  /\ outstanding' = outstanding - 1
  /\ IF outstanding = 1
     THEN /\ committing' = TRUE
          /\ pc' = [pc EXCEPT ![p] = "commit"]
          /\ phase' = IF lh # <<>> THEN "wlog" ELSE "done"
          /\ tail' = 0
     ELSE /\ pc' = [pc EXCEPT ![p] = "idle"]
          /\ UNCHANGED <<committing, phase, tail>>
  /\ wrote' = [wrote EXCEPT ![p] = {}]
  /\ UNCHANGED <<disk, cache, pin, lh>>

\* end_op's first critical section: the last operation commits, any other
\* one has given space back and wakes the sleepers.
EndOp(p) ==
  /\ pc[p] = "op"
  /\ ~committing
  /\ outstanding' = outstanding - 1
  /\ IF outstanding = 1
     THEN /\ committing' = TRUE
          /\ pc' = [pc EXCEPT ![p] = "commit"]
          /\ phase' = IF lh # <<>> THEN "wlog" ELSE "done"
          /\ tail' = 0
     ELSE /\ pc' = Wakeup([pc EXCEPT ![p] = "idle"])
          /\ UNCHANGED <<committing, phase, tail>>
  /\ wrote' = [wrote EXCEPT ![p] = {}]
  /\ UNCHANGED <<disk, cache, pin, lh>>

\* Faulty: the end of a commit wakes nobody.
EndCommitWithoutWakeup(p) ==
  /\ pc[p] = "commit"
  /\ phase = "done"
  /\ committing' = FALSE
  /\ pc' = [pc EXCEPT ![p] = "idle"]
  /\ phase' = "none"
  /\ UNCHANGED <<disk, cache, pin, lh, outstanding, wrote, tail>>

\* commit() has returned to end_op.
EndCommit(p) ==
  /\ pc[p] = "commit"
  /\ phase = "done"
  /\ committing' = FALSE
  /\ pc' = Wakeup([pc EXCEPT ![p] = "idle"])
  /\ phase' = "none"
  /\ UNCHANGED <<disk, cache, pin, lh, outstanding, wrote, tail>>

-----------------------------------------------------------------------------

\* An iteration of write_log.
WriteLog ==
  /\ phase = "wlog"
  /\ tail < Len(lh)
  /\ dlog' = [dlog EXCEPT ![tail + 1] = Bread(lh[tail + 1])]
  /\ cache' = [cache EXCEPT ![lh[tail + 1]] = Bread(lh[tail + 1])]
  /\ tail' = tail + 1
  /\ UNCHANGED <<dhome, dhead, pin, lh, outstanding, committing, pc, wrote, phase>>

\* Faulty: the header is written one log block too early.
WriteHeadEarly ==
  /\ phase = "wlog"
  /\ tail >= Len(lh) - 1
  /\ dhead' = lh
  /\ phase' = "install"
  /\ tail' = 0
  /\ UNCHANGED <<dhome, dlog, cache, pin, lh, outstanding, committing, pc, wrote>>

\* The first write_head of commit(), "the real commit".
WriteHead ==
  /\ phase = "wlog"
  /\ tail = Len(lh)
  /\ dhead' = lh
  /\ phase' = "install"
  /\ tail' = 0
  /\ UNCHANGED <<dhome, dlog, cache, pin, lh, outstanding, committing, pc, wrote>>

\* Faulty: recovery unpins buffers that nobody pinned.
InstallTransUnpins ==
  /\ phase \in {"install", "rinstall"}
  /\ tail < Len(lh)
  /\ dhome' = [dhome EXCEPT ![lh[tail + 1]] = dlog[tail + 1]]
  /\ cache' = [cache EXCEPT ![lh[tail + 1]] = dlog[tail + 1]]
  /\ pin' = [pin EXCEPT ![lh[tail + 1]] = @ - 1]
  /\ tail' = tail + 1
  /\ UNCHANGED <<dlog, dhead, lh, outstanding, committing, pc, wrote, phase>>

\* An iteration of install_trans: only a commit unpins, recovery has no pins.
InstallTrans ==
  /\ phase \in {"install", "rinstall"}
  /\ tail < Len(lh)
  /\ dhome' = [dhome EXCEPT ![lh[tail + 1]] = dlog[tail + 1]]
  /\ cache' = [cache EXCEPT ![lh[tail + 1]] = dlog[tail + 1]]
  /\ pin' = IF phase = "install" THEN [pin EXCEPT ![lh[tail + 1]] = @ - 1] ELSE pin
  /\ tail' = tail + 1
  /\ UNCHANGED <<dlog, dhead, lh, outstanding, committing, pc, wrote, phase>>

\* log.lh.n = 0 and the second write_head, of commit() or of recovery.
EraseLog ==
  /\ phase \in {"install", "rinstall"}
  /\ tail = Len(lh)
  /\ lh' = <<>>
  /\ dhead' = lh'
  /\ phase' = IF phase = "install" THEN "done" ELSE "none"
  /\ tail' = 0
  /\ UNCHANGED <<dhome, dlog, cache, pin, outstanding, committing, pc, wrote>>

\* read_head.
ReadHead ==
  /\ phase = "readhead"
  /\ lh' = dhead
  /\ phase' = "rinstall"
  /\ tail' = 0
  /\ UNCHANGED <<disk, cache, pin, outstanding, committing, pc, wrote>>

\* The machine stops and boots again: only the disk is left.
Crash ==
  /\ cache' = [b \in Block |-> NotCached]
  /\ pin' = [b \in Block |-> 0]
  /\ lh' = <<>>
  /\ outstanding' = 0
  /\ committing' = FALSE
  /\ pc' = [p \in Proc |-> "idle"]
  /\ wrote' = [p \in Proc |-> {}]
  /\ phase' = "readhead"
  /\ tail' = 0
  /\ UNCHANGED disk

Next ==
  \/ \E p \in Proc :
       \/ BeginOp(p)
       \/ EndOp(p)
       \/ EndCommit(p)
       \/ \E b \in Block, v \in Val : LogWrite(p, b, v)
  \/ WriteLog
  \/ WriteHead
  \/ InstallTrans
  \/ EraseLog
  \/ ReadHead
  \/ \E b \in Block : Recycle(b)
  \/ Crash

\* The disk answers, an operation comes to its end_op, and a woken process
\* runs; nobody has to crash or to begin an operation.
Fairness ==
  /\ WF_vars(WriteLog \/ WriteHead \/ InstallTrans \/ EraseLog \/ ReadHead)
  /\ \A p \in Proc : WF_vars(EndOp(p)) /\ WF_vars(EndCommit(p))

Safety == Init /\ [][Next]_vars

Spec == Safety /\ Fairness

-----------------------------------------------------------------------------

\* The variables have their types.
TypeOK ==
  /\ dhome \in [Block -> Val]
  /\ dlog \in [Slot -> Val]
  /\ dhead \in Seq(Block)
  /\ cache \in [Block -> Val \cup {NotCached}]
  /\ pin \in [Block -> Nat]
  /\ lh \in Seq(Block)
  /\ outstanding \in Nat
  /\ committing \in BOOLEAN
  /\ pc \in [Proc -> {"idle", "sleep", "retry", "op", "commit"}]
  /\ wrote \in [Proc -> SUBSET Block]
  /\ phase \in {"readhead", "rinstall", "none", "wlog", "install", "done"}
  /\ tail \in 0..Len(lh)

\* The space that begin_op reserves is enough: an operation that stays within
\* MAXOPBLOCKS can always log one more block without "too big a transaction",
\* and never logs "outside of trans", whatever the others have logged.
RoomForNewBlocks ==
  \A p \in Proc, b \in Block :
    MayLog(p, b) /\ b \notin Logged(lh) => ~LogWritePanics

\* The same for any block, so also for one that the log absorbs.
NoPanic == \A p \in Proc, b \in Block : MayLog(p, b) => ~LogWritePanics

\* end_op never meets a commit in progress (its panic "log.committing"), and
\* commit() runs with no file-system call active, as the head of log.c says.
CommitsAlone == committing => outstanding = 0 /\ \A p \in Proc : pc[p] # "op"

\* log_write pins each logged block once and install_trans unpins it, so no
\* buffer that holds an uninstalled update is recycled and none stays pinned.
PinnedWhileLogged ==
  \A b \in Block :
    pin[b] = IF \E i \in 1..Len(lh) :
                  lh[i] = b /\ (phase # "install" \/ i > tail) /\ ~Recovering
             THEN 1
             ELSE 0

\* The log in memory is sound: it has room for what begin_op has promised, a
\* commit runs alone, and the blocks it holds are pinned until they are installed.
LogSound == TypeOK /\ RoomForNewBlocks /\ CommitsAlone /\ PinnedWhileLogged

\* Whoever sleeps in begin_op sleeps for an operation or a commit that is
\* still to call wakeup(&log).
SleepersHaveAWaker ==
  (\E p \in Proc : pc[p] = "sleep") => outstanding > 0 \/ committing

\* A process that sleeps in begin_op is woken.
SleepersWake == \A p \in Proc : pc[p] = "sleep" ~> pc[p] # "sleep"

\* What recover_from_log makes of the disk as it is now.
Recovered ==
  [b \in Block |->
     IF b \in Logged(dhead)
     THEN dlog[CHOOSE i \in 1..Len(dhead) : dhead[i] = b]
     ELSE dhome[b]]

\* What the file system reads; during recovery nobody reads.
Visible == IF Recovering THEN Recovered ELSE [b \in Block |-> Bread(b)]

AD == INSTANCE AtomicDisk WITH
        mem <- Visible,
        durable <- Recovered,
        active <- {p \in Proc : pc[p] = "op"}

\* The log makes every group of operations atomic and durable in one write,
\* that of the header, whatever block a crash falls after: log.c implements
\* AtomicDisk.
ImplementsAtomicDisk == AD!Spec

=============================================================================
