------------------------------- MODULE Bcache -------------------------------
(***************************************************************************)
(* kernel/bio.c: NBUF buffers, their reference counts and the list by      *)
(* recency under bcache.lock, the sleep-lock of each buffer (see module    *)
(* Sched), bpin and bunpin, which the log uses to keep a changed buffer,   *)
(* and the disk as module AsyncDisk describes it.  A critical section of   *)
(* bcache.lock is a step.  The data of a recycled buffer is set to a fixed *)
(* value, since nothing reads it before the disk does.                     *)
(***************************************************************************)
EXTENDS Integers, SequencesExt

CONSTANTS
  Proc, Buf, Block, Val,
  MaxPinned,  \* blocks that the log keeps pinned at a time
  None

VARIABLES
  blockno, data, req, disk,  \* of module AsyncDisk
  valid, refcnt, lk,         \* of a struct buf; lk holds its sleep-lock
  lru,                       \* the list, bcache.head.next first
  pinned,                    \* buffers the log has pinned
  pc, cur                    \* of a process, and the buffer it uses

D == INSTANCE AsyncDisk

diskVars == <<blockno, data, req, disk>>
cacheVars == <<valid, refcnt, lk, lru, pinned>>
vars == <<diskVars, cacheVars, pc, cur>>

\* binit has returned; an unused buffer belongs to no device, so to no block.
Init ==
  /\ blockno = [b \in Buf |-> None]
  /\ data = [b \in Buf |-> CHOOSE v \in Val : TRUE]
  /\ req = D!Idle
  /\ disk = [k \in Block |-> CHOOSE v \in Val : TRUE]
  /\ valid = [b \in Buf |-> FALSE]
  /\ refcnt = [b \in Buf |-> 0]
  /\ lk = [b \in Buf |-> None]
  /\ lru = SetToSeq(Buf)
  /\ pinned = {}
  /\ pc = [p \in Proc |-> "idle"]
  /\ cur = [p \in Proc |-> None]

Goto(p, l) == pc' = [pc EXCEPT ![p] = l]

\* Blocks that somebody uses: NBUF is chosen so that they fit into the cache.
InUse == {blockno[b] : b \in {c \in Buf : c \in pinned \/ \E p \in Proc : cur[p] = c}}
MayBread(k) == k \in InUse \/ Cardinality(InUse) < Cardinality(Buf)

-----------------------------------------------------------------------------


\* bget: the block is cached.
BgetHit(p, k) ==
  /\ pc[p] = "idle"
  /\ MayBread(k)
  /\ \E b \in Buf :
       /\ blockno[b] = k
       /\ refcnt' = [refcnt EXCEPT ![b] = @ + 1]
       /\ cur' = [cur EXCEPT ![p] = b]
  /\ Goto(p, "lock")
  /\ UNCHANGED <<diskVars, valid, lk, lru, pinned>>

\* Faulty: a buffer whose block is still being read is overlooked.
NotCachedValid(k) == \A b \in Buf : blockno[b] # k \/ ~valid[b]

\* The first loop of bget finds nothing.
NotCached(k) == \A b \in Buf : blockno[b] # k

\* The place in the list of the least recently used buffer nobody refers to.
Victim == SelectLastInSeq(lru, LAMBDA b : refcnt[b] = 0)

\* Faulty: the recycled buffer keeps its valid flag.
RecycleKeepsValid(p, k, b) ==
  /\ blockno' = [blockno EXCEPT ![b] = k]
  /\ refcnt' = [refcnt EXCEPT ![b] = 1]
  /\ cur' = [cur EXCEPT ![p] = b]
  /\ data' = [data EXCEPT ![b] = CHOOSE v \in Val : TRUE]
  /\ UNCHANGED valid

Recycle(p, k, b) ==
  /\ blockno' = [blockno EXCEPT ![b] = k]
  /\ valid' = [valid EXCEPT ![b] = FALSE]
  /\ refcnt' = [refcnt EXCEPT ![b] = 1]
  /\ cur' = [cur EXCEPT ![p] = b]
  /\ data' = [data EXCEPT ![b] = CHOOSE v \in Val : TRUE]

\* bget: the block is not cached, and some buffer can be recycled.
BgetMiss(p, k) ==
  /\ pc[p] = "idle"
  /\ MayBread(k)
  /\ NotCached(k)
  /\ Victim # 0
  /\ Recycle(p, k, lru[Victim])
  /\ Goto(p, "lock")
  /\ UNCHANGED <<req, disk, lk, lru, pinned>>

\* acquiresleep at the end of bget; bread reads a buffer that is not valid.
BreadLock(p) ==
  /\ pc[p] = "lock"
  /\ lk[cur[p]] = None
  /\ lk' = [lk EXCEPT ![cur[p]] = p]
  /\ IF valid[cur[p]]
     THEN Goto(p, "hold") /\ UNCHANGED diskVars
     ELSE Goto(p, "reading") /\ UNCHANGED <<blockno, data>> /\ D!Start(cur[p], FALSE)
  /\ UNCHANGED <<cur, valid, refcnt, lru, pinned>>

\* bread, once virtio_disk_rw has returned.
BreadDone(p) ==
  /\ pc[p] = "reading"
  /\ D!Finish(cur[p])
  /\ valid' = [valid EXCEPT ![cur[p]] = TRUE]
  /\ Goto(p, "hold")
  /\ UNCHANGED <<cur, refcnt, lk, lru, pinned>>

\* The caller changes the contents of its buffer; it will write or log them.
Change(p, v) ==
  /\ pc[p] = "hold"
  /\ data' = [data EXCEPT ![cur[p]] = v]
  /\ Goto(p, "changed")
  /\ UNCHANGED <<blockno, req, disk, cacheVars, cur>>

Bwrite(p) ==
  /\ pc[p] \in {"hold", "changed"}
  /\ UNCHANGED <<blockno, data>> /\ D!Start(cur[p], TRUE)
  /\ Goto(p, "writing")
  /\ UNCHANGED <<cacheVars, cur>>

BwriteDone(p) ==
  /\ pc[p] = "writing"
  /\ D!Finish(cur[p])
  /\ Goto(p, "written")
  /\ UNCHANGED <<cacheVars, cur>>

\* log_write pins a changed buffer, once.
Bpin(p) ==
  /\ pc[p] = "changed"
  /\ cur[p] \notin pinned
  /\ Cardinality(pinned) < MaxPinned
  /\ refcnt' = [refcnt EXCEPT ![cur[p]] = @ + 1]
  /\ pinned' = pinned \cup {cur[p]}
  /\ Goto(p, "hold")
  /\ UNCHANGED <<diskVars, valid, lk, lru, cur>>

\* log_write of a block that is already in the log.
Absorb(p) ==
  /\ pc[p] = "changed"
  /\ cur[p] \in pinned
  /\ Goto(p, "hold")
  /\ UNCHANGED <<diskVars, cacheVars, cur>>

\* install_trans unpins a buffer it has written to its place.
Bunpin(p) ==
  /\ pc[p] = "written"
  /\ cur[p] \in pinned
  /\ refcnt' = [refcnt EXCEPT ![cur[p]] = @ - 1]
  /\ pinned' = pinned \ {cur[p]}
  /\ Goto(p, "hold")
  /\ UNCHANGED <<diskVars, valid, lk, lru, cur>>

\* brelse, first part: releasesleep.
Brelse(p) ==
  /\ pc[p] \in {"hold", "written"}
  /\ lk' = [lk EXCEPT ![cur[p]] = None]
  /\ Goto(p, "unref")
  /\ UNCHANGED <<diskVars, valid, refcnt, lru, pinned, cur>>

\* The buffer becomes the most recently used one.
MoveToFront(b) == <<b>> \o Remove(lru, b)

\* brelse, second part: the reference goes, and a free buffer moves to the front.
BrelseUnref(p) ==
  /\ pc[p] = "unref"
  /\ LET b == cur[p] IN
       /\ refcnt' = [refcnt EXCEPT ![b] = @ - 1]
       /\ lru' = IF refcnt[b] = 1 THEN MoveToFront(b) ELSE lru
  /\ cur' = [cur EXCEPT ![p] = None]
  /\ Goto(p, "idle")
  /\ UNCHANGED <<diskVars, valid, lk, pinned>>

Next ==
  \/ \E p \in Proc :
       \/ \E k \in Block : BgetHit(p, k) \/ BgetMiss(p, k)
       \/ BreadLock(p) \/ BreadDone(p)
       \/ \E v \in Val : Change(p, v)
       \/ Bwrite(p) \/ BwriteDone(p)
       \/ Bpin(p) \/ Absorb(p) \/ Bunpin(p)
       \/ Brelse(p) \/ BrelseUnref(p)
  \/ \E b \in Buf : D!Transfer(b) /\ UNCHANGED <<cacheVars, pc, cur>>

Spec == Init /\ [][Next]_vars

-----------------------------------------------------------------------------

\* The variables have their types.
TypeOK ==
  /\ pc \in [Proc -> {"idle", "lock", "reading", "hold", "changed", "writing",
                      "written", "unref"}]
  /\ cur \in [Proc -> Buf \cup {None}]
  /\ blockno \in [Buf -> Block \cup {None}]
  /\ data \in [Buf -> Val]
  /\ valid \in [Buf -> BOOLEAN]
  /\ refcnt \in [Buf -> 0..(Cardinality(Proc) + 1)]
  /\ lk \in [Buf -> Proc \cup {None}]
  /\ Len(lru) = Cardinality(Buf) /\ ToSet(lru) = Buf

\* bget's lookup and recycling leave every block in at most one buffer.
BlockCachedOnce ==
  \A b, c \in Buf : blockno[b] = blockno[c] /\ blockno[b] # None => b = c

\* refcnt is the number of processes between bget and the end of brelse, plus
\* the pin of the log; so bget finds a buffer (no panic) when the callers' blocks
\* fit into the cache.
RefcntExact ==
  /\ \A b \in Buf :
       refcnt[b] = Cardinality({p \in Proc : cur[p] = b}) + (IF b \in pinned THEN 1 ELSE 0)
  /\ \A k \in Block : MayBread(k) => (\E b \in Buf : blockno[b] = k) \/ Victim # 0

\* The cache is sound: each buffer is in the list once, each block in one buffer,
\* and references are exact.
CacheSound == TypeOK /\ BlockCachedOnce /\ RefcntExact

\* Which process has a block, and what it finds there.
Holder == [k \in Block |->
  IF \E b \in Buf : blockno[b] = k /\ valid[b] /\ lk[b] # None
  THEN lk[CHOOSE b \in Buf : blockno[b] = k /\ valid[b]] ELSE None]
Value == [k \in Block |->
  IF \E b \in Buf : blockno[b] = k /\ valid[b]
  THEN data[CHOOSE b \in Buf : blockno[b] = k /\ valid[b]] ELSE disk[k]]

S == INSTANCE BlockStore WITH holder <- Holder, value <- Value

\* Through caching, recycling, pins and out-of-order disk requests, bread,
\* bwrite and brelse give exclusive access to blocks that keep their value.
ImplementsBlockStore == S!Spec

=============================================================================
