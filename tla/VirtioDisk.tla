----------------------------- MODULE VirtioDisk -----------------------------
(***************************************************************************)
(* kernel/virtio_disk.c: requests from several processes, each on a buffer *)
(* of its own that holds a block of its own (module Bcache shows that of   *)
(* the callers, so a process stands for its buffer and its block here).    *)
(* A request is a chain of three descriptors that goes to the device       *)
(* through the available ring and comes back through the used ring.        *)
(* What virtio_disk_rw does between acquiring vdisk_lock and sleeping or   *)
(* returning is one step: the device sees it only through avail->idx, and  *)
(* the interrupt handler needs the same lock.  The handler itself takes    *)
(* several steps, since the device goes on adding to the used ring while   *)
(* it runs.  Indices are 16 bits wide and wrap.  A ring entry that was     *)
(* read is set to 0, since nothing reads it again.                         *)
(***************************************************************************)
EXTENDS Integers, FiniteSets, Sequences

CONSTANTS
  Proc, Val,
  Killable,  \* processes that may be killed while they wait
  NUM,       \* descriptors, and entries of each ring
  UINT16,    \* 2^16 in the code; NUM divides it
  None

Desc == 0..(NUM - 1)

VARIABLES
  pc, write, idx0,               \* of a process in virtio_disk_rw
  data, busy,                    \* of its buffer; busy is the field disk
  free, next, info, status,      \* struct disk; next is -1 without the NEXT flag
  type,                          \* of the request header in ops
  ring, avail,                   \* the available ring and avail->idx
  usedring, used, used_idx,      \* the used ring, used->idx, and disk.used_idx
  disk, devq, last_avail, irq,   \* the device: blocks, requests it works on,
                                 \* how far it read the available ring, interrupt
  handling                       \* virtio_disk_intr runs, with vdisk_lock

callVars == <<write, idx0>>
descVars == <<free, next, info, status, type>>
ringVars == <<ring, avail, usedring, used, used_idx>>
devVars == <<disk, devq, last_avail, irq>>
vars == <<pc, callVars, data, busy, descVars, ringVars, devVars, handling>>

\* virtio_disk_init has returned: the rings are empty, all descriptors free.
Init ==
  /\ pc = [p \in Proc |-> "idle"]
  /\ write = [p \in Proc |-> FALSE]
  /\ idx0 = [p \in Proc |-> 0]
  /\ data \in [Proc -> {CHOOSE v \in Val : TRUE}]
  /\ busy = [p \in Proc |-> FALSE]
  /\ free = Desc
  /\ next = [d \in Desc |-> -1]
  /\ info = [d \in Desc |-> None]
  /\ status = [d \in Desc |-> 0]
  /\ type = [d \in Desc |-> "in"]
  /\ ring = [d \in Desc |-> 0] /\ avail = 0
  /\ usedring = [d \in Desc |-> 0] /\ used = 0 /\ used_idx = 0
  /\ disk \in [Proc -> {CHOOSE v \in Val : TRUE}]
  /\ devq = {} /\ last_avail = 0 /\ irq = FALSE
  /\ handling = FALSE

-----------------------------------------------------------------------------

\* alloc_desc takes the first free descriptor.
AllocDesc(f) == CHOOSE d \in f : \A e \in f : d <= e

RECURSIVE AllocDescs(_, _)
AllocDescs(f, n) ==
  IF n = 0 THEN << >>
  ELSE <<AllocDesc(f)>> \o AllocDescs(f \ {AllocDesc(f)}, n - 1)

\* The ring indices are uint16.
NextIndex(i) == (i + 1) % UINT16

\* free_desc wakes the processes that wait for descriptors.
WakeFree(procs) == [p \in Proc |-> IF procs[p] = "nodesc" THEN "rw" ELSE procs[p]]

\* The descriptors of the chain that starts at d.
RECURSIVE Chain(_, _)
Chain(nxt, d) == {d} \cup (IF nxt[d] = -1 THEN {} ELSE Chain(nxt, nxt[d]))

\* bread calls virtio_disk_rw with a recycled buffer, whose contents are dead,
\* bwrite with one that its caller has filled.
Call(p, w, v) ==
  /\ pc[p] = "idle"
  /\ pc' = [pc EXCEPT ![p] = "rw"]
  /\ write' = [write EXCEPT ![p] = w]
  /\ data' = [data EXCEPT ![p] = v]
  /\ w \/ v = CHOOSE u \in Val : TRUE
  /\ UNCHANGED <<idx0, busy, descVars, ringVars, devVars, handling>>

\* The descriptors that stay free when alloc3_desc cannot get three.
GivesBack == free

\* alloc3_desc cannot get three: it gives back what it got, which wakes the
\* others that wait, and virtio_disk_rw sleeps on free[0].
RwSleeps(p) ==
  /\ pc[p] = "rw"
  /\ ~handling
  /\ Cardinality(free) < 3
  /\ free' = GivesBack
  /\ pc' = [(IF free = {} THEN pc ELSE WakeFree(pc)) EXCEPT ![p] = "nodesc"]
  /\ UNCHANGED <<callVars, data, busy, next, info, status, type, ringVars,
                 devVars, handling>>

\* Faulty: the ring is not indexed modulo its size.
AvailSlotFirst == 0

\* The slot of the available ring that the next request goes to.
AvailSlot == avail % NUM

\* The request is formatted and given to the device; its process sleeps on b.
RwSubmits(p) ==
  /\ pc[p] = "rw"
  /\ ~handling
  /\ Cardinality(free) >= 3
  /\ LET idx == AllocDescs(free, 3) IN
       /\ free' = free \ {idx[1], idx[2], idx[3]}
       /\ next' = [next EXCEPT ![idx[1]] = idx[2], ![idx[2]] = idx[3], ![idx[3]] = -1]
       /\ type' = [type EXCEPT ![idx[1]] = IF write[p] THEN "out" ELSE "in"]
       /\ status' = [status EXCEPT ![idx[1]] = 255]
       /\ info' = [info EXCEPT ![idx[1]] = p]
       /\ idx0' = [idx0 EXCEPT ![p] = idx[1]]
       /\ ring' = [ring EXCEPT ![AvailSlot] = idx[1]]
  /\ busy' = [busy EXCEPT ![p] = TRUE]
  /\ avail' = NextIndex(avail)
  /\ pc' = [pc EXCEPT ![p] = "wait"]
  /\ UNCHANGED <<write, data, usedring, used, used_idx, devVars, handling>>

\* kkill wakes a process from any sleep, for the descriptors or the buffer.
KillWakes(p) ==
  /\ p \in Killable
  /\ pc[p] \in {"nodesc", "wait"}
  /\ pc' = [pc EXCEPT ![p] = IF @ = "wait" THEN "woken" ELSE "rw"]
  /\ UNCHANGED <<callVars, data, busy, descVars, ringVars, devVars, handling>>

\* Faulty: b->disk is not tested again after the sleep.
StillBusyNever(p) == FALSE

\* The condition of the loop around sleep(b, &disk.vdisk_lock).
StillBusy(p) == busy[p]

RwSleepsAgain(p) ==
  /\ pc[p] = "woken"
  /\ ~handling
  /\ StillBusy(p)
  /\ pc' = [pc EXCEPT ![p] = "wait"]
  /\ UNCHANGED <<callVars, data, busy, descVars, ringVars, devVars, handling>>

\* The buffer is no longer busy: virtio_disk_rw frees the chain and returns.
RwReturns(p) ==
  /\ pc[p] = "woken"
  /\ ~handling
  /\ ~StillBusy(p)
  /\ info' = [info EXCEPT ![idx0[p]] = None]
  /\ LET chain == Chain(next, idx0[p]) IN
       /\ free' = free \cup chain
       /\ next' = [d \in Desc |-> IF d \in chain THEN -1 ELSE next[d]]
  /\ pc' = [WakeFree(pc) EXCEPT ![p] = "idle"]
  /\ idx0' = [idx0 EXCEPT ![p] = 0]
  /\ write' = [write EXCEPT ![p] = FALSE]
  /\ type' = [type EXCEPT ![idx0[p]] = "in"]
  /\ UNCHANGED <<data, busy, status, ringVars, devVars, handling>>

\* The handler acknowledges the interrupt before it looks at the used ring.
IntrAck ==
  /\ irq /\ ~handling
  /\ irq' = FALSE
  /\ handling' = TRUE
  /\ UNCHANGED <<pc, callVars, data, busy, descVars, ringVars, disk, devq, last_avail>>

\* wakeup(b): the process that sleeps on the buffer goes on.
Woken(b) == [p \in Proc |-> IF p = b /\ pc[p] = "wait" THEN "woken" ELSE pc[p]]

\* One iteration of the loop of virtio_disk_intr: one request is done.
IntrUsed ==
  /\ handling
  /\ used_idx # used
  /\ LET b == info[usedring[used_idx % NUM]] IN
       /\ busy' = [busy EXCEPT ![b] = FALSE]
       /\ pc' = Woken(b)
  /\ usedring' = [usedring EXCEPT ![used_idx % NUM] = 0]
  /\ used_idx' = NextIndex(used_idx)
  /\ UNCHANGED <<callVars, data, descVars, ring, avail, used, devVars, handling>>

IntrReturns ==
  /\ handling
  /\ used_idx = used
  /\ handling' = FALSE
  /\ UNCHANGED <<pc, callVars, data, busy, descVars, ringVars, devVars>>

-----------------------------------------------------------------------------

\* The device reads the next entry of the available ring ...
DeviceTakes ==
  /\ last_avail # avail
  /\ devq' = devq \cup {ring[last_avail % NUM]}
  /\ ring' = [ring EXCEPT ![last_avail % NUM] = 0]
  /\ last_avail' = NextIndex(last_avail)
  /\ UNCHANGED <<pc, callVars, data, busy, descVars, avail, usedring, used, used_idx,
                 disk, irq, handling>>

\* ... and completes the requests it has in any order: it copies the block, and
\* writes the status, the used ring and the interrupt line.
DeviceCompletes(h) ==
  /\ h \in devq
  /\ devq' = devq \ {h}
  /\ LET b == info[h] IN
       IF type[h] = "out"
       THEN disk' = [disk EXCEPT ![b] = data[b]] /\ data' = data
       ELSE data' = [data EXCEPT ![b] = disk[b]] /\ disk' = disk
  /\ status' = [status EXCEPT ![h] = 0]
  /\ usedring' = [usedring EXCEPT ![used % NUM] = h]
  /\ used' = NextIndex(used)
  /\ irq' = TRUE
  /\ UNCHANGED <<pc, callVars, busy, free, next, info, type, ring, avail, used_idx,
                 last_avail, handling>>

Rw(p) == RwSleeps(p) \/ RwSubmits(p) \/ RwSleepsAgain(p) \/ RwReturns(p)
Intr == IntrAck \/ IntrUsed \/ IntrReturns
Device == DeviceTakes \/ \E h \in Desc : DeviceCompletes(h)

Next ==
  \/ \E p \in Proc : Rw(p) \/ KillWakes(p) \/ \E w \in BOOLEAN, v \in Val : Call(p, w, v)
  \/ Intr
  \/ Device

Spec == Init /\ [][Next]_vars

-----------------------------------------------------------------------------

\* The variables have their types.
TypeOK ==
  /\ pc \in [Proc -> {"idle", "rw", "nodesc", "wait", "woken"}]
  /\ data \in [Proc -> Val]
  /\ disk \in [Proc -> Val]
  /\ busy \in [Proc -> BOOLEAN]
  /\ free \subseteq Desc
  /\ next \in [Desc -> Desc \cup {-1}]
  /\ info \in [Desc -> Proc \cup {None}]
  /\ devq \subseteq Desc
  /\ {avail, used, used_idx, last_avail} \subseteq 0..(UINT16 - 1)

\* Entries of the used ring that virtio_disk_intr has not looked at.
Unseen == {usedring[(used_idx + k) % NUM] : k \in 0..(((used - used_idx) % UINT16) - 1)}

\* Requests whose process has not freed their chain yet.
InFlight == {p \in Proc : pc[p] \in {"wait", "woken"}}

\* No descriptor is lost or used by two requests: the free ones and the chains
\* of the requests in flight partition the table, so free_desc never panics.
DescriptorsConserved ==
  /\ Desc = free \cup UNION {Chain(next, idx0[p]) : p \in InFlight}
  /\ NUM = Cardinality(free) + 3 * Cardinality(InFlight)

\* A request that virtio_disk_intr finds in the used ring is one whose process
\* still waits for the buffer recorded in info, and the device has set its
\* status: the handler neither panics nor wakes the wrong buffer.
UsedEntriesAreLive ==
  \A h \in Unseen :
    /\ status[h] = 0
    /\ \E p \in InFlight : idx0[p] = h /\ info[h] = p /\ busy[p]

\* A process that sleeps for its buffer, or is about to sleep again after a kill, is
\* not forgotten: its buffer is busy, and the device has its request or the
\* interrupt that will wake it is pending or being handled.
WaiterHasRequest ==
  /\ \A p \in Proc : pc[p] = "wait" => busy[p]
  /\ \A p \in InFlight : busy[p] =>
    \/ \E k \in 0..(((avail - last_avail) % UINT16) - 1) :
          ring[(last_avail + k) % NUM] = idx0[p]
    \/ idx0[p] \in devq
    \/ idx0[p] \in Unseen /\ (irq \/ handling)

\* A process that sleeps in virtio_disk_rw for descriptors really lacks them,
\* and some request in flight will still free three and wake it.
DescriptorsComeBack ==
  \A p \in Proc : pc[p] = "nodesc" => Cardinality(free) < 3 /\ InFlight # {}

\* The rings are sound: descriptors are conserved, the handler finds only live
\* requests, and nobody sleeps for a request or a descriptor that will not come.
DriverSound ==
  TypeOK /\ DescriptorsConserved /\ UsedEntriesAreLive /\ WaiterHasRequest /\ DescriptorsComeBack

\* The request of each buffer, for the caller of virtio_disk_rw.
Request == [p \in Proc |->
  CASE pc[p] = "idle" -> "none"
    [] p \in InFlight /\ (~busy[p] \/ idx0[p] \in Unseen) -> "done"
    [] OTHER -> IF write[p] THEN "write" ELSE "read"]

A == INSTANCE AsyncDisk WITH Buf <- Proc, Block <- Proc, blockno <- [p \in Proc |-> p],
                             req <- Request

\* The rings and descriptors do what virtio_disk_rw promises: each request
\* copies its own block once, whatever the order of completion.
ImplementsAsyncDisk ==
  A!Init /\ [][(A!asyncVars)' = A!asyncVars \/ A!Next]_vars

=============================================================================
