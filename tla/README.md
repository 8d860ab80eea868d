# A TLA+ verification of the kernel

The repository is a modified xv6 for RISC-V: a small Unix-like kernel in C for
several CPUs, with a page allocator that counts references and free pages
(`kernel/kalloc.c`), a scheduler with priorities (`kernel/proc.c`) and lazy
allocation of user memory (`kernel/vm.c`). This directory holds TLA+ models of its
parts, TLC configurations that check them on small instances, and proofs that
TLAPS checks for all instances.

## The parts and their models

| part of the system | source | modules | proofs |
|---|---|---|---|
| page allocator | `kalloc.c` | `Kalloc` | `KallocProofs` |
| redo log | `log.c` | `Log` implements `AtomicDisk` | `LogProofs` |
| buffer cache | `bio.c` | `Bcache` implements `BlockStore` | |
| disk driver | `virtio_disk.c` | `VirtioDisk` implements `AsyncDisk` | |
| inodes, block allocation | `fs.c`, `sysfile.c`, `file.c` | `Inode` | |
| directories, path names | `fs.c`, `sysfile.c` | `Dir` | |
| scheduler, sleep and wakeup, sleep-locks | `proc.c`, `sleeplock.c` | `Sched` | `SchedProofs` |
| process life cycle: fork, exit, wait, kill | `proc.c`, `trap.c` | `Proc` | `ProcInv`, `ProcProofs` |
| traps, interrupts, spin-locks | `trap.c`, `spinlock.c` | `Hart` | `HartProofs` |
| clock, `pause` | `trap.c`, `sysproc.c` | `Clock` | |
| user memory, exec | `vm.c`, `proc.c`, `exec.c` | `Vm` implements `UserMemory` | |
| file table, descriptors | `file.c`, `sysfile.c` | `File` | |
| pipes | `pipe.c` | `Pipe` implements `Fifo` | `PipeProofs` |
| console input | `console.c` | `Console` implements `Tty` | |
| UART output | `uart.c` | `Uart` | |
| `malloc` | `user/umalloc.c` | `Umalloc` | |
| shell | `user/sh.c` | `Shell` | |
| `grep` | `user/grep.c` | `Grep` | |

The parts are built on each other, and the models are cut where the code is. The
disk driver promises the buffer cache what `AsyncDisk` says, and `Bcache` is
modelled on top of `AsyncDisk`; `Bcache` promises exclusive use of a block
(`BlockStore`), which is why `Log` and `Inode` take reading and changing a block as
one step; `Log` promises atomic groups of operations (`AtomicDisk`), on which
`Inode` stands; `Inode` promises counted inodes, on which `Dir` stands. `Sched` shows
that `sleep` and `wakeup` lose nothing, so that the others may take giving up a
lock and falling asleep as one step. `Hart` shows that a section under a spin-lock
is not interrupted, so that it may be the unit of interleaving elsewhere.

Where the code holds several locks at once, takes them one after the other, or
switches between processes with a lock held (`Sched`, `Proc`, `Dir`), the locks are
variables and acquiring each of them is a step.

A definition marked *Faulty* is what the definition after it would be with a
plausible bug; with the former in place of the latter TLC reports the property
that `PROJECT.json` names. There is one for each property of each passing run.

### Memory

**Kalloc.** `freelist` and `freePagesCount` are the fields of `kmem`, `refCounts` is
`ref_counts`, `boot` the loop of `freerange`. `held` counts the references that the
callers of `kalloc` own. `kalloc` is three steps (`KallocPop` under `kmem.lock`,
`KallocRef` under `ref_lock`, `KallocReturn`), `kfree` two (`KfreeDec`, `KfreePush`).
A page is its index; index 0 is what `get_ref_index` computes for the null pointer,
which `kalloc` uses when memory runs out. `KrefInc` is `kref_inc`: nothing in the
kernel calls it, and it is modelled as its comment describes it, as the sharing of
a page by its holder. Page contents are left out.

**Vm.** A page table is its table pages (`tab`) and its entries (`pte`); physical pages
are counted (`free`). `Sbrk`, `Fork`, `Exec`, `Exit`, `Wait`, an `Access` of the user,
which may fault, and a `Copy` of the kernel are steps; each gets a number of pages
from `kalloc` and fails in the code's way when they run out, at any point. `exec` reads
`Images`, lists of segments; it is not asked about images that reach `TRAPFRAME`, which
`kexec` does not test for. `copyinstr`, which unlike the other copies does not fault
lazy pages in, and the kernel page table are left out.

**Umalloc.** The headers (`ptr`, `size`) at every address of the heap, in units of a
header. `Sbrk` is a call of the program itself, which leaves holes in the heap. The argument
of `sbrk` is an `int` (`SbrkArg`): `MaxBytes` keeps requests below `INTUNITS`, which stands for
2 GiB.

### Processes, interrupts, time

**Sched.** Each CPU runs `scheduler()`. `ScanProc` is an iteration of the selection
loop, which keeps the lock of the best candidate (`highP`) while it takes the next
one; `RunChampion`, `BackInScheduler` and `Resume` are the two sides of `swtch`. The
kernel threads contend for one sleep-lock (`lk`, `locked`, `owner`), so that they sleep
in `acquiresleep` and walk the process table in `wakeup`; `Yield` is the timer.
`entering` marks a process behind its `swtch` that has its own lock. `steady` is
history: who has been RUNNABLE since the CPU's scan began.

**Proc.** Each process is at a label `pc` of `kfork`, `kexit`, `kwait` or `kkill`, on a
CPU or not (`cpu`), with the loop variables of those functions. `waitLock` and `plock`
are `wait_lock` and the locks of the processes. `Trap` is a system call, with the test
of `killed` before it and (`TrapReturn`) after it. The exit of the first process is a
panic by design: it is not among the `KillTargets` and does not exit. The exit status
and `procdump` are left out.

**Hart.** `cur` is what a hart executes, a kernel thread or its scheduler; `intr`, `epc`,
`spp`, `spie` and `stvec` are its registers, `noff` and `intena` the fields of `struct
cpu`. A trap comes wherever interrupts are on. One spin-lock stands for those that
system calls and interrupt handlers share. A new thread starts in `forkret`, which runs with
interrupts on, since the scheduler took `p->lock` with interrupts on, until `prepare_return`
turns them off; for the first process it mounts the file system and executes `init`. It shares
its place, `"sys"`, with the code of system calls.

**Clock.** `ticks` wraps; every hart has timer interrupts and hart 0 counts. A process
that could run is kept from it for at most `MaxDelay` ticks, without which no sleep
could be on time.

### The file system

**VirtioDisk.** Descriptors, available and used ring and their indices, the device, which
takes requests up and completes them in any order, and the interrupt handler, which
runs while the device goes on. A process in `Killable` may be woken from its sleep by a kill
(`KillWakes`); it finds `b->disk` still set and sleeps again (`RwSleepsAgain`). Negotiation of
features is left out.

**Bcache.** `bget` is one critical section that finds the block (`BgetHit`) or recycles the
least recently used free buffer (`BgetMiss`); sleep-lock, transfer, change, `bwrite`,
`brelse`, `bpin` and `bunpin` are steps of their own. The log keeps at most `MaxPinned`
blocks pinned.

**Log.** `dhome`, `dlog`, `dhead` are the disk, `lh`, `outstanding`, `committing` the fields of
`struct log`. A block nobody pins may be recycled at any time (`Recycle`) and is then
read back. `phase` and `tail` say how far `commit` or `recover_from_log` has come; every
write of a block is a step, and `Crash` may come between any two, also in recovery.
The mapping to `AtomicDisk` takes as `durable` what recovery would make of the disk as it
is now, and as `mem` what a `bread` returns.

**Inode.** Disk inodes with direct and indirect blocks, the bitmap and the inode table.
`create`, `open`, `unlink`, `filewrite` (split into several transactions) and closing are
sequences of the steps the code takes between its locks; a group of operations
becomes durable when its last one ends; after a `Crash`, `ireclaim` runs. A crash in the
middle of a group leaves what a crash just before it leaves, so `Crash` comes between
groups. `iupdate` is part of the step that changes the inode, which is locked until then,
and `end_op` of the last step of the call. When the table (`NINODE` entries) is full, `iget`
panics; nothing is committed any more then.

**Dir.** Entries, `..`, link counts, references and locks of inodes. `namex` walks a path
one element per step, each chosen then, `.` and `..` included, so that paths are not bounded;
which call it was that walked the path is chosen at its end. Everything a call does to inodes
while it has one locked and waits for no other is a step; `sys_unlink` and `create`, which lock a
second inode, and `sys_link`, which goes on with a second path, keep what they hold in `th`.
`dirlink` may fail for want of blocks wherever it is called, and each call then undoes what it
did. Three variables are history: `lost` counts entries that went with a removed directory
(into which a file was linked while it was being removed), `dangling` are the directories whose
`..` names an inode freed since, and `astray` says that somebody followed such a `..`. The run
`dir_stale` is about that step. What comes after it is not explored, except that `ilock` panics if
the inode is still free (`IlockPanics`): the call goes on with whatever inode has the number now.

**File.** `filealloc`, `filedup`, `fileclose` and the system calls around them with their
error paths; `kfork` and `kexit` copy and close all descriptors. `fileclose` frees the
entry and releases what it named in two steps, as in the code; offset and pipe stay in the free
entry. `taken` is history: the places that `read` has read, in order, since the file was opened.

### Devices and programs

**Pipe.** A step is an iteration of a loop in `pipewrite` or `piperead` under `pi->lock`; the
counters wrap at `UINT` (2^32 in the code). `copyin` and `copyout` may fail, processes in
`Killable` may be killed, and `Close` of the last descriptor is `pipeclose`. The mapping to
`Fifo` reads the ring from `nread` to `nwrite`.

**Console, Uart.** The input ring with its three wrapping indices, the line editing of
`consoleintr`, `consoleread`, which gives a `^D` back; `uartwrite`, `uartputc_sync`, `uartintr`
and the transmit FIFO.

**Shell.** The parser on tokens, and each process of a command line as the system calls
`runcmd` makes. `cd`, the end of input and the tokeniser are left out. At most
`MaxBackground` processes still run when a line is typed.

**Grep.** The matcher, and the loop that reads pieces into its buffer and splits lines.

## What TLC checks

Some runs check several parts that share no state: the initial state picks the part
that runs (`part`), and the others stay as they are. The constants of the `.cfg` files
are the bounds.

* **log** (`MCLog`: 3 processes, 2 blocks with 2 values, operations of 1 block, 2 slots).
  `Log` implements `AtomicDisk` with crashes everywhere; the space that `begin_op`
  reserves is enough for new blocks, commits run alone, exactly the logged blocks are
  pinned (`LogSound`); whoever sleeps in `begin_op` has a waker (`SleepersHaveAWaker`) and
  wakes (`SleepersWake`). Two slots give transactions that are half written, half
  installed and half recovered; three processes let one sleep while another of two
  ends. Two blocks always fit into two slots: that the reservation is enough for larger logs is
  the theorem `LogIsSound`.
* **sched** (`MCSched`: 2 CPUs, priorities 10, 1, 10). Locks are taken in a fixed order, a
  process runs on one CPU, `sched()` does not panic, the sleep-lock is exclusive
  (`SchedSound`); no wakeup is lost (`NoLostWakeup`); the candidate is the best of those
  that were runnable all along (`ChampionBeatsSteady`); the process that wins every
  comparison runs again and again (`FirstRuns`).
* **system** (`MCSystem`).
  *Processes* (3 on 2 CPUs, one that may be killed):
  no exit goes unnoticed (`NoLostExit`), parents are alive, processes are freed off the
  CPU and wiped, pids differ, `sched()` does not panic (`LifeCycleSound`),
  `wait_lock` comes before any `p->lock` (`WaitLockFirst`). Each slot is used once here; slots that
  are used again are covered by the proofs.
  *Traps* (2 harts, 2 threads): a trap finds the right vector and returns where it came
  from (`TrapsSound`); no hart waits for a lock that it holds (`NeverWaitsForItself`).
  *Clock* (2 harts, 2 processes, `ticks` modulo 6): a pause lasts exactly as long as asked,
  across the wrap (`PausesExactly`).
  *Disk driver* (2 processes with 2 values, both of which may be killed; 3 processes, for whom 8
  descriptors are not enough, one of which may be killed; indices modulo 16): descriptors are
  conserved, nobody sleeps in vain (`DriverSound`), and each request is done once, and before
  `virtio_disk_rw` returns (`ImplementsAsyncDisk`).
* **progress** (`MCProgress`).
  *Pages* (3 threads, 2 pages, up to 3 references): each page is in exactly one place, and
  the counter is the length of the list (`PagesAccounted`); reference counts are exact
  although they change under another lock (`RefCountExact`); no page stays in the hands
  of a call (`PagesSettle`).
  *User memory* (2 processes, 6 virtual pages of 2 units, table pages of 2 entries, 14
  frames, one program to execute): page tables are sound after every failure (`PagesSound`), and each process has
  a private memory (`ImplementsUserMemory`).
  *malloc* (a heap of 11 units, requests up to 10 units): the blocks partition it (`HeapSound`).
  *Shell* (5 processes besides the shell; pipelines, lists, redirections, background): a
  line is parsed as the grammar says, its programs have the right descriptors
  (`CommandsSound`), and the prompt comes back (`PromptComesBack`). The lines are those of
  `SmallLines`; the parser is also compared with the grammar on all command trees of
  depth 2.
* **descriptors** (`MCDescriptors`).
  *Pipe* (a reader that may be killed, 2 writers, a ring of 2 bytes, counters modulo 4):
  nobody sleeps who could go on, the page is freed in time (`PipeSound`), and bytes come
  out as they went in (`ImplementsFifo`).
  *File table* (2 processes, 2 files, 2 descriptors each, files of 2 units): references are counted
  exactly (`FilesCounted`); readers of a shared offset read every place from the first on, in order
  and once, also in an entry that was used before (`SharedOffset`).
  *Console and UART* (ring of 3, indices modulo 6; FIFO of 3): no reader or writer is
  forgotten, no byte is lost (`TerminalSound`); input is a line discipline
  (`ImplementsTty`).
  *grep* (all patterns up to length 4 over 5 characters, all inputs up to length 3, a buffer
  of 3): matches are exactly what patterns denote, and lines come out whole, whatever
  pieces `read` returns (`GrepIsExact`).
* **disk** (`MCDisk`).
  *Inodes* (2 processes, 2 inodes, 3 blocks, one direct and one indirect block, writes of up
  to 2 blocks; a table of 2 entries, and one of a single entry, which gets full): at every
  commit each block has one owner and the bitmap agrees (`CommitsConsistent`), entries of
  the table are as their inodes (`TablesSound`), and a boot reclaims what a crash left
  (`BootReclaims`).
  *Directories* (2 processes, 3 inodes, 2 names, `.` and `..`, files of up to 2 links): as long as
  nobody has followed a `..` to a freed inode, the link count of every inode is the number of its
  names, of the directories below it, of the links in progress and of the `lost` entries, and every
  reference is counted (`CountsExact`); nobody waits in a circle for inode locks (`NoLockCycle`).
  *Buffer cache* (2 buffers, 3 blocks, so that buffers are recycled): one buffer per block,
  exact counts (`CacheSound`); exclusive use of the one current content
  (`ImplementsBlockStore`).

Runs that show the code to differ from what the repository says of it:

* **log_full**: with operations that use all they reserved, the log gets exactly full, and
  `log_write` of a block that is already in it panics, because the test for a full log
  precedes absorption. With the sizes of `param.h` it takes three operations of ten blocks.
* **sched_starve** (1 CPU, pids 2 and 3): a process with an even pid that only uses CPU time is
  chosen again whenever it yields, and a runnable one with an odd pid never runs.
* **proc_kill_race**: a kill between the test of `killed` and the sleep in `kwait` does not
  wake its victim.
* **proc_kill_zero**: `kill(0)` finds an unused slot and marks it killed.
* **pipe_killed**: a writer killed in the middle of a write does not wake the readers of what
  it has written.
* **dir_stale**: `..` of a removed directory names its parent also when that has been removed and
  freed. A process whose current directory it is and who opens `..` makes `ilock` panic "no type"
  (`fs.c:316`), or, when the number has been allocated again, gets at an unrelated inode: one that
  `create` is still making, for example, whose link count then goes wrong.

Also met, without a run of their own:

* `scheduler()` does not "always select" the process of the highest priority (`proc.c:444`): one
  that becomes runnable behind the scan is missed until the next scan. What does hold is
  `ChampionBeatsSteady`.
* `iput` frees an inode without a link "if that was the last reference" (`fs.c:333`), but it drops
  `itable.lock` to do so. When another process allocates the same inode number in between and
  gives it up again, it sees two references and only counts down; the first process then
  counts down to 0 without a new test (`fs.c:361`). The inode stays allocated, with no name
  and no reference, until `ireclaim` frees it at the next boot (`BootReclaims`).
* A file can be linked into a directory that was removed while the path was walked. The entry
  goes with the directory, and the link count of the file stays one too high: `CountsExact` needs
  the history `lost` for it.
* The argument of `sbrk` is an `int`: a `malloc` of 2 GiB or more asks for a negative or no amount,
  which `growproc` grants, and `morecore` enters a block that it does not have (`umalloc.c:54`).
* The inode table has 50 entries (`NINODE`) and the kernel panics when all are referenced
  (`fs.c:268`).
* `kalloc` prints the free pages on every call although the comment above the `printf` says
  "only if there are fewer than 30,000 pages left".

### Deadlock, symmetry, fairness

Deadlock is checked in every run but `descriptors` and `pipe_killed`: a pipe ends with its last
close. Symmetry is used for sets of processes, harts and names that the specification does not
tell apart, in runs without liveness properties.

Safety properties need no fairness. `Kalloc`: a call that has begun goes on. `Log`: the disk
answers and an operation comes to its `end_op`; nobody has to begin one, and crashes are never
required. `Sched`: strong fairness for the steps of each CPU: a CPU does not stop, a spin-lock
that is free again and again is obtained in the end (the atomic swap of `acquire` gives no queue,
but shuts no CPU out forever), and the timer keeps interrupting. `Shell`: each process takes its
steps, which the kernel's scheduler provides when there are enough CPUs for the important ones,
and `init` restarts a shell that ends.

## What is proved

The proofs are about the modules as TLC checks them, for every value of the constants
that satisfies the assumptions named here. Each follows the same plan: an inductive
invariant, one lemma per action that the action keeps it, and theorems that read the
properties off it. Every invariant was first checked by TLC on a small instance.

**`KallocProofs`**, for any number of threads and pages: the counter is the length of the
free list, every page is in exactly one place, and reference counts are exact
(`CounterIsListLength`, `NoPageLostOrShared`, `RefCountsAreExact`, together
`EveryPageAccounted`). The three are inductive together (`KInv`) once one adds that a thread
about to push a page has one (`FreeHasPage`): a count of zero means that nobody holds the
page only because counts are exact, and they stay exact because a page in the hands of a
call is held by nobody. Two lemmas say what a push and a pop do to the list.

**`LogProofs`**, for any finite set of processes, any blocks and contents and any log that has
room for one operation: `Log` implements `AtomicDisk` (`LogImplementsAtomicDisk`), the log never
overflows, commits run alone and logged blocks are pinned (`LogIsSound`), and every sleeper
has a waker (`EverySleeperHasAWaker`). The theorems are about `Safety`; `Spec` only adds
fairness. `LInv` says what the code leaves implicit:

- no block is twice in a header, in memory or on disk, so recovery has one answer for
  each block;
- a block that is logged and not installed is pinned, so its new contents are in the
  cache; any other cached block agrees with the disk;
- while `write_log` runs the header on disk is empty, so no slot it overwrites would be
  recovered; while `install_trans` runs the header on disk is the one in memory, the slots
  still to install equal the cache and those already installed equal the home blocks;
- `outstanding` counts the operations, and there is none during commit and recovery.

Then the first `write_head` is the abstract commit, a crash is the abstract crash, and the
other disk writes change nothing abstract. `WaitInv` adds that between commits the log is
empty when no operation is active, so that the first operation never waits for space. That
the log never overflows would be a sum over the operations in progress; `RoomInv` makes it
the size of one set instead, `Reserved`, the places that operations have reserved and not
used, which together with the log never exceed its slots.

**`SchedProofs`**, for any CPUs, table length and pids: spin-locks are taken in a fixed order
although `scheduler()` holds one lock while it waits for the next, a process runs on one CPU,
`sched()` does not panic and the sleep-lock is exclusive (`SchedulerIsSound`); no wakeup is
lost (`NoWakeupIsLost`); the candidate beats everyone who was runnable throughout the scan
(`ChampionIsBest`). The core of `SInv` is an exact account of `p->lock`: `Holds(c, p)` says at
which three places a CPU holds it, across the `swtch` that hands it over.

**`ProcInv` and `ProcProofs`**, for any CPUs, table length and number of births: parents are
alive, a process is freed only off the CPU and wiped, pids differ, and a process switches
with exactly its own lock (`LifeCycleIsSound`); no exit goes unnoticed (`NoExitIsLost`);
`wait_lock` is taken first (`WaitLockIsFirst`). The hypothesis `KillsProcesses` is that nobody
kills pid 0 or pid 1: the first is the finding `proc_kill_zero`, the second panics by design.
`PrInv` relates `state`, `cpu` and `pc` of each process, the owner of every lock, and the child
in the hands of `kfork`. Two parts are subtle. `FamilyOK`: a process in `kexit` has passed on
the children below the index of the loop in `reparent`, so that none is left at the end.
`WakeOK`: a process on its way to sleep in `kwait` has seen no `ZOMBIE` child, and one on its
way to become `ZOMBIE` has woken its parent if that comes before the index of the loop in
`wakeup`; the only sleeper with a `ZOMBIE` child is `init`, between `reparent` and its wakeup.

**`HartProofs`**, for any harts and threads: `TrapsAreSound` and `NoSelfDeadlock`. `HInv` says for
every place of the code whether interrupts are on, what `noff`, `intena` and `stvec` are, and
at `sret` what the trap registers hold (`HartOK`), and what a thread that is switched out
needs to go on (`OutOK`). The hypothesis `TrapConstants` only tells harts, threads and `None`
apart.

**`PipeProofs`**, for any readers, writers and bytes and any ring size that divides the range of
the counters: nobody sleeps who could go on (`PipeIsSound`) if no writer is killed, which the
finding `pipe_killed` shows to be needed; killed writers included, no writer is forgotten and
the pipe is freed in time (`WritersNotForgotten`); and a pipe is a bounded first-in first-out
queue (`PipeImplementsFifo`). `PInv` pairs a sleeper with the holder of the lock who is still to
wake it. The refinement rests on lemmas about wrapping: the bytes between `nread` and `nwrite`
are at distinct places of the ring as long as there are at most `PIPESIZE` of them.

## What is only model-checked

Liveness (`SleepersWake`, `FirstRuns`, `PagesSettle`, `PromptComesBack`) is beyond the prover, and so
is induction over data: `HeapSound` follows a circular list of any length, and the block maps
of `Inode`, the page tables of `Vm` and the editing of a line in `Console` are walked by folds.
`VirtioDisk`, `Shell`, `Grep` and `Umalloc` use recursive operators, about which nothing can be
proved here. For `Bcache`, `File`, `Clock`, `Uart` and `Inode` proofs are possible and not done.

## What is not modelled

Assembly beyond its switch of control; `start.c`, `main.c` and `plic.c`, which set registers up
before there is concurrency; the dispatch of system calls and the fetching of their arguments;
string helpers; number formatting in `printf.c`; ELF parsing and the argument vector in
`exec.c`; user programs other than the three above; the test programs, which were read for
what they expect; `mkfs` beyond the image that it leaves. The memory model of the machine is
not modelled: a critical section is taken to be atomic, which the fences in `acquire` and
`release` provide.
