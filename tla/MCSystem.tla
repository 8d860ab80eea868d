----------------------------- MODULE MCSystem -------------------------------
(*****************************************************************************)
(* Model-checking instances of processes and interrupts, in one run: the     *)
(* life of processes, with kill on two CPUs (Proc); the traps of the harts   *)
(* (Hart); the clock (Clock); and the disk driver (VirtioDisk) with two      *)
(* processes that use different data (D) and with three that fill the rings  *)
(* (Q).  These parts share no state.  The initial state picks the part that  *)
(* runs; the others stay as they are.                                        *)
(*****************************************************************************)
EXTENDS Proc, TLC

CONSTANTS
  Hart, Thread,                                             \* Hart
  Core, c1, Sleeper, UINT, INT_MAX, MaxDelay,               \* Clock
  Client, Queuer, q1, NUM, UINT16, Val                          \* VirtioDisk

VARIABLES
  part,                                                       \* the part that runs
  cur, intr, epc, spp, spie, stvec, noff, intena, lk, th,     \* Hart
  ticks, pausing, ckilled, passed,                            \* Clock
  dpc, write, idx0, data, busy, free, next, info, status, type,\* VirtioDisk
  ring, avail, usedring, used, used_idx, disk, devq, last_avail, irq, handling

H == INSTANCE Hart
C == INSTANCE Clock WITH Hart <- Core, Proc <- Sleeper, hart0 <- c1, th <- pausing, killed <- ckilled
D == INSTANCE VirtioDisk WITH Proc <- Client, Killable <- Client, pc <- dpc
Q == INSTANCE VirtioDisk WITH Proc <- Queuer, Killable <- {q1}, Val <- {0}, pc <- dpc

hartVars == <<cur, intr, epc, spp, spie, stvec, noff, intena, lk, th>>
clockVars == <<ticks, pausing, ckilled, passed>>
virtioVars == <<dpc, write, idx0, data, busy, free, next, info, status, type, ring, avail,
                usedring, used, used_idx, disk, devq, last_avail, irq, handling>>
systemVars == <<part, vars, hartVars, clockVars, virtioVars>>

SystemInit ==
  /\ part \in {"proc", "hart", "clock", "virtio", "queue"}
  /\ Init
  /\ \/ part = "hart" /\ H!Init
     \/ part # "hart" /\ cur = 0 /\ intr = 0 /\ epc = 0 /\ spp = 0 /\ spie = 0
                      /\ stvec = 0 /\ noff = 0 /\ intena = 0 /\ lk = 0 /\ th = 0
  /\ \/ part = "clock" /\ C!Init
     \/ part # "clock" /\ ticks = 0 /\ pausing = 0 /\ ckilled = 0 /\ passed = 0
  /\ \/ part = "virtio" /\ D!Init
     \/ part = "queue" /\ Q!Init
     \/ part \notin {"virtio", "queue"} /\ dpc = 0 /\ write = 0 /\ idx0 = 0 /\ data = 0
                                        /\ busy = 0 /\ free = 0 /\ next = 0 /\ info = 0
                                        /\ status = 0 /\ type = 0 /\ ring = 0 /\ avail = 0
                                        /\ usedring = 0 /\ used = 0 /\ used_idx = 0
                                        /\ disk = 0 /\ devq = 0 /\ last_avail = 0
                                        /\ irq = 0 /\ handling = 0

\* All parts but x stay as they are.
OthersStay(x) ==
  /\ UNCHANGED part
  /\ x # "proc" => UNCHANGED vars
  /\ x # "hart" => UNCHANGED hartVars
  /\ x # "clock" => UNCHANGED clockVars
  /\ x \notin {"virtio", "queue"} => UNCHANGED virtioVars

SystemNext ==
  \/ part = "proc" /\ Next /\ OthersStay("proc")
  \/ part = "hart" /\ H!Next /\ OthersStay("hart")
  \/ part = "clock" /\ C!Next /\ OthersStay("clock")
  \/ part = "virtio" /\ D!Next /\ OthersStay("virtio")
  \/ part = "queue" /\ Q!Next /\ OthersStay("queue")

SystemSpec == SystemInit /\ [][SystemNext]_systemVars

\* Harts and threads are interchangeable in their part.
Symmetry == Permutations(Hart) \cup Permutations(Thread)

-----------------------------------------------------------------------------
(* The properties of each part.                                            *)

\* A trap finds the vector that fits, is not interrupted, and returns to where
\* it came from, on whichever hart.
TrapsSound == part = "hart" => H!TrapsSound

\* No hart spins for a lock that it holds itself (push_off keeps the handler out).
NeverWaitsForItself == part = "hart" => H!NeverWaitsForItself

\* sys_pause returns 0 after n ticks and not before, also when ticks wraps, and
\* nobody sleeps once they have passed.
PausesExactly == part = "clock" => C!PausesExactly

\* Descriptors are conserved, the handler finds only live requests, and nobody
\* sleeps for a request or a descriptor that will not come.
DriverSound ==
  /\ part = "virtio" => D!DriverSound
  /\ part = "queue" => Q!DriverSound

\* The rings and the handler do to each buffer what module AsyncDisk says: the
\* request that was made, once, and then b->disk is 0.
ImplementsAsyncDisk ==
  /\ part = "virtio" => D!A!Init
  /\ part = "queue" => Q!A!Init
  /\ [][/\ part = "virtio" => (D!A!asyncVars)' = (D!A!asyncVars) \/ D!A!Next
        /\ part = "queue" => (Q!A!asyncVars)' = (Q!A!asyncVars) \/ Q!A!Next]_systemVars
=============================================================================
