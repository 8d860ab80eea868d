-------------------------------- MODULE Inode --------------------------------
(***************************************************************************)
(* kernel/fs.c below directories: the block bitmap, inodes on disk and in  *)
(* the table, block maps with an indirect block, and the orphans that a    *)
(* crash leaves.  The log is the atomic disk of module AtomicDisk: what    *)
(* the operations of a group changed reaches the disk when the last of     *)
(* them ends, or not at all.  A crash in the middle of a group leaves what *)
(* a crash right before the group leaves, so the model crashes only when   *)
(* no operation is outstanding.  Blocks are read and changed under the     *)
(* lock of their buffer (module Bcache), so each read-modify-write of the  *)
(* bitmap or of a disk inode is one step.  Operations are those of         *)
(* kernel/sysfile.c and kernel/file.c; a directory is the set of inodes    *)
(* that have a name (module Dir has the rest).                             *)
(***************************************************************************)
EXTENDS Integers, FiniteSets

CONSTANTS
  Proc,
  NInode,      \* sb.ninodes - 1
  NINODE,      \* entries of the inode table
  NBlock,      \* data blocks
  NDIRECT, NINDIRECT,
  MaxWrite,    \* bound on the blocks of one write
  None

Inum == 1..NInode
Slot == 1..NINODE
Block == 1..NBlock
MAXFILE == NDIRECT + NINDIRECT

VARIABLES
  disk,      \* as the buffer cache shows it to the operations of the group
  itab,      \* itable.inode
  th,        \* the call each process is in
  dplock,    \* holder of the lock of the directory
  outstanding, boot

vars == <<disk, itab, th, dplock, outstanding, boot>>

NoAddrs == [i \in 0..NDIRECT |-> 0]
FreeInode == [type |-> 0, nlink |-> 0, size |-> 0, addrs |-> NoAddrs]

\* An indirect block, and any block, is an array of NINDIRECT words.  The words
\* of user data may look like addresses; a free block may hold user data.
UserData == [w \in 0..(NINDIRECT - 1) |-> 1]

\* The image of mkfs, as far as files are concerned: nothing is allocated.
EmptyDisk ==
  [bitmap |-> {}, inode |-> [i \in Inum |-> FreeInode],
   words |-> [b \in Block |-> UserData], names |-> {}]

EmptySlot == [inum |-> 0, ref |-> 0, valid |-> FALSE, lock |-> None, d |-> FreeInode]

\* Where a process is, its inode, what to do after a subroutine, how much is
\* left of a write or where a truncation is, the place of the write, and the
\* inode it has open.
Resting == [pc |-> "idle", ip |-> 0, then |-> "idle", n |-> 0, off |-> 0, fd |-> 0]

Init ==
  /\ disk = EmptyDisk
  /\ itab = [s \in Slot |-> EmptySlot]
  /\ th = [p \in Proc |-> Resting]
  /\ dplock = None
  /\ outstanding = 0
  /\ boot = NInode + 1

-----------------------------------------------------------------------------

Least(S) == CHOOSE x \in S : \A y \in S : x <= y

Goto(p, l) == th' = [th EXCEPT ![p].pc = l]

\* balloc: the first free block, marked and zeroed; 0 when there is none.
Balloc(d) == IF d.bitmap = Block THEN 0 ELSE Least(Block \ d.bitmap)

Balloced(d) ==
  [d EXCEPT !.bitmap = @ \cup {Balloc(d)}, !.words[Balloc(d)] = [w \in DOMAIN @ |-> 0]]

\* bfree.  What the block holds from now on is nobody's business.
Bfreed(d, b) ==
  [d EXCEPT !.bitmap = @ \ {b}, !.words = [c \in Block |-> IF c = b THEN UserData ELSE @[c]]]

\* iupdate copies the inode in the table to the disk.
Iupdate(d, ip) == [d EXCEPT !.inode[ip.inum] = ip.d]

\* iget: the entry of the inode, or the first one without references; there may
\* be neither.
Hits(inum) == {s \in Slot : itab[s].ref > 0 /\ itab[s].inum = inum}
IgetFinds(inum) == Hits(inum) # {} \/ \E s \in Slot : itab[s].ref = 0

IgetSlot(inum) ==
  IF Hits(inum) # {} THEN Least(Hits(inum)) ELSE Least({s \in Slot : itab[s].ref = 0})

Iget(inum) ==
  [itab EXCEPT ![IgetSlot(inum)] =
     IF @.ref > 0 THEN [@ EXCEPT !.ref = @ + 1]
     ELSE [EmptySlot EXCEPT !.inum = inum, !.ref = 1]]

\* panic("iget: no inodes"), in an operation and with itable.lock held: nothing is
\* committed any more, so that a crash then leaves what one before the group leaves.
IgetPanics(p, inum) ==
  /\ ~IgetFinds(inum)
  /\ th' = [th EXCEPT ![p].pc = "panic"]
  /\ UNCHANGED itab

\* begin_op.
BeginOp ==
  /\ boot > NInode
  /\ outstanding' = outstanding + 1

\* The call returns, with fd as its open file.  end_op is part of its last step:
\* it changes nothing that another process sees but outstanding, and the last
\* operation of a group commits.
Leave(p, fd) ==
  /\ outstanding' = outstanding - 1
  /\ th' = [th EXCEPT ![p] = [Resting EXCEPT !.fd = fd]]
  /\ boot' = IF boot <= NInode THEN boot + 1 ELSE boot

\* create locks the directory, finds no such name, and calls ialloc: the first
\* free disk inode gets a type; without one, create fails and changes nothing.
Ialloc(p) ==
  /\ th[p].pc = "idle" /\ th[p].fd = 0
  /\ dplock = None
  /\ BeginOp
  /\ LET freeinodes == {i \in Inum : disk.inode[i].type = 0}
         i == Least(freeinodes)
     IN  /\ freeinodes # {}
         /\ disk' = [disk EXCEPT !.inode[i] = [FreeInode EXCEPT !.type = 1]]
         /\ th' = [th EXCEPT ![p] = [@ EXCEPT !.pc = "iget", !.n = i]]
         /\ dplock' = p
  /\ UNCHANGED <<itab, boot>>

\* The end of ialloc.
IallocIget(p) ==
  /\ th[p].pc = "iget"
  /\ \/ IgetPanics(p, th[p].n)
     \/ /\ IgetFinds(th[p].n)
        /\ itab' = Iget(th[p].n)
        /\ th' = [th EXCEPT ![p] =
                    [@ EXCEPT !.pc = "ilock", !.then = "create", !.ip = IgetSlot(th[p].n), !.n = 0]]
  /\ UNCHANGED <<disk, dplock, outstanding, boot>>

\* dirlookup finds the name of an inode; sys_unlink keeps the directory locked.
Lookup(p, i, call) ==
  /\ th[p].pc = "idle" /\ th[p].fd = 0
  /\ dplock = None
  /\ i \in disk.names
  /\ BeginOp
  /\ \/ IgetPanics(p, i)
     \/ /\ IgetFinds(i)
        /\ itab' = Iget(i)
        /\ th' = [th EXCEPT ![p] =
                    [@ EXCEPT !.pc = "ilock", !.then = call, !.ip = IgetSlot(i)]]
  /\ dplock' = IF call = "unlink" THEN p ELSE None
  /\ UNCHANGED <<disk, boot>>

\* filewrite, one transaction of it.
Filewrite(p) ==
  /\ th[p].pc = "idle" /\ th[p].fd # 0
  /\ BeginOp
  /\ th' = [th EXCEPT ![p] = [@ EXCEPT !.pc = "ilock", !.then = "writei", !.ip = th[p].fd]]
  /\ UNCHANGED <<disk, itab, dplock, boot>>

\* fileclose of the last descriptor.
Fileclose(p) ==
  /\ th[p].pc = "idle" /\ th[p].fd # 0
  /\ BeginOp
  /\ th' = [th EXCEPT ![p] = [@ EXCEPT !.pc = "iput", !.ip = th[p].fd, !.fd = 0]]
  /\ UNCHANGED <<disk, itab, dplock, boot>>

\* Faulty: an empty file is not looked at.
OrphanWithData(i) ==
  disk.inode[i].type # 0 /\ disk.inode[i].nlink = 0 /\ disk.inode[i].size > 0

Orphan(i) == disk.inode[i].type # 0 /\ disk.inode[i].nlink = 0

\* ireclaim looks at the next disk inode after a crash.
Ireclaim(p) ==
  /\ boot <= NInode
  /\ \A q \in Proc : th[q].pc = "idle"
  /\ IF Orphan(boot)
     THEN /\ itab' = Iget(boot)
          /\ outstanding' = outstanding + 1
          /\ th' = [th EXCEPT ![p] =
                      [@ EXCEPT !.pc = "ilock", !.then = "iunlockput", !.ip = IgetSlot(boot)]]
          /\ boot' = boot
     ELSE boot' = boot + 1 /\ UNCHANGED <<itab, outstanding, th>>
  /\ UNCHANGED <<disk, dplock>>

-----------------------------------------------------------------------------

\* ilock: acquiresleep, and the disk inode is read if it is not in the table.
Ilock(p) ==
  LET s == th[p].ip IN
    /\ th[p].pc = "ilock"
    /\ itab[s].lock = None
    /\ itab' = [itab EXCEPT ![s].lock = p, ![s].valid = TRUE,
                            ![s].d = IF itab[s].valid THEN @ ELSE disk.inode[itab[s].inum]]
    /\ th' = [th EXCEPT ![p] = [@ EXCEPT !.pc = th[p].then, !.then = "idle"]]
    /\ UNCHANGED <<disk, dplock, outstanding, boot>>

\* create sets nlink of the new inode, and dirlink enters the name; the inode
\* stays locked for sys_open.
CreateLink(p) ==
  LET s == th[p].ip IN
    /\ th[p].pc = "create"
    /\ itab' = [itab EXCEPT ![s].d.nlink = 1]
    /\ disk' = [Iupdate(disk, itab'[s]) EXCEPT !.names = @ \cup {itab[s].inum}]
    /\ dplock' = None
    /\ Goto(p, "open")
    /\ UNCHANGED <<outstanding, boot>>

\* dirlink fails: nlink goes back to 0, so that iput frees the inode.
CreateFails(p) ==
  /\ th[p].pc = "create"
  /\ itab' = [itab EXCEPT ![th[p].ip].d.nlink = 0, ![th[p].ip].lock = None]
  /\ disk' = Iupdate(disk, itab'[th[p].ip])
  /\ dplock' = None
  /\ Goto(p, "iput")
  /\ UNCHANGED <<outstanding, boot>>

\* sys_open with the inode locked: it fails, truncates first, or has a file.
OpenFails(p) ==
  /\ th[p].pc = "open"
  /\ itab' = [itab EXCEPT ![th[p].ip].lock = None]
  /\ Goto(p, "iput")
  /\ UNCHANGED <<disk, dplock, outstanding, boot>>

OpenTrunc(p) ==
  /\ th[p].pc = "open"
  /\ th' = [th EXCEPT ![p] = [@ EXCEPT !.pc = "itrunc", !.then = "opened", !.n = 0]]
  /\ UNCHANGED <<disk, itab, dplock, outstanding, boot>>

Opened(p) ==
  /\ th[p].pc \in {"open", "opened"}
  /\ itab' = [itab EXCEPT ![th[p].ip].lock = None]
  /\ Leave(p, th[p].ip)
  /\ UNCHANGED <<disk, dplock>>

\* sys_unlink erases the entry, unlocks the directory and takes the link off.
UnlinkErase(p) ==
  LET ip == itab[th[p].ip] IN
    /\ th[p].pc = "unlink"
    /\ itab' = [itab EXCEPT ![th[p].ip].d.nlink = @ - 1, ![th[p].ip].lock = None]
    /\ disk' = [Iupdate(disk, itab'[th[p].ip]) EXCEPT !.names = @ \ {ip.inum}]
    /\ dplock' = None
    /\ Goto(p, "iput")
    /\ UNCHANGED <<outstanding, boot>>

\* What bmap gives for block bn of an inode d: the disk, the inode and the
\* address, 0 when the disk is full; an indirect block may have been allocated.
BmapDirect(dk, d, bn) ==
  IF d.addrs[bn] # 0 \/ Balloc(dk) = 0
  THEN [disk |-> dk, d |-> d, addr |-> d.addrs[bn]]
  ELSE [disk |-> Balloced(dk), d |-> [d EXCEPT !.addrs[bn] = Balloc(dk)], addr |-> Balloc(dk)]

BmapIndirect(dk, d, bn) ==
  LET ind == d.addrs[NDIRECT] IN
    IF dk.words[ind][bn] # 0 \/ Balloc(dk) = 0
    THEN [disk |-> dk, d |-> d, addr |-> dk.words[ind][bn]]
    ELSE [disk |-> [Balloced(dk) EXCEPT !.words[ind][bn] = Balloc(dk)],
          d |-> d, addr |-> Balloc(dk)]

Bmap(dk, d, bn) ==
  IF bn < NDIRECT THEN BmapDirect(dk, d, bn)
  ELSE LET r == BmapDirect(dk, d, NDIRECT) IN
         IF r.addr = 0 THEN r ELSE BmapIndirect(r.disk, r.d, bn - NDIRECT)

\* writei of n blocks at f->off, which is read with the inode locked; a write
\* beyond the end of the file or beyond MAXFILE is refused.
Writei(p, n, off) ==
  /\ th[p].pc = "writei"
  /\ IF off > itab[th[p].ip].d.size \/ off + n > MAXFILE
     THEN itab' = [itab EXCEPT ![th[p].ip].lock = None] /\ Leave(p, th[p].fd)
     ELSE /\ th' = [th EXCEPT ![p].pc = "write", ![p].n = n, ![p].off = off]
          /\ UNCHANGED <<itab, outstanding, boot>>
  /\ UNCHANGED <<disk, dplock>>

\* One block of writei.  When there is no block, or copyin fails, the loop ends.
WriteBlock(p, copied) ==
  LET s == th[p].ip
      r == Bmap(disk, itab[s].d, th[p].off)
      ok == copied /\ r.addr # 0
  IN  /\ th[p].pc = "write"
      /\ itab' = [itab EXCEPT ![s].d = r.d]
      /\ disk' = IF ok THEN [r.disk EXCEPT !.words[r.addr] = UserData]
                 ELSE r.disk
      /\ th' = [th EXCEPT ![p].pc = IF ok /\ th[p].n > 1 THEN "write" ELSE "written",
                          ![p].n = IF ok THEN @ - 1 ELSE 0,
                          ![p].off = IF ok THEN @ + 1 ELSE @]
      /\ UNCHANGED <<dplock, outstanding, boot>>

\* The size of a file after a write that has come to off.
Grown(d, off) == [d EXCEPT !.size = IF off > @ THEN off ELSE @]

\* Faulty: writei writes the inode back only when the file has grown.
WriteDoneIfGrown(p) ==
  LET s == th[p].ip IN
    /\ th[p].pc = "written"
    /\ itab' = [itab EXCEPT ![s].d = Grown(@, th[p].off), ![s].lock = None]
    /\ disk' = IF th[p].off > itab[s].d.size THEN Iupdate(disk, itab'[s]) ELSE disk
    /\ Leave(p, th[p].fd)
    /\ UNCHANGED dplock

\* The end of writei, the size, and iupdate in any case; and iunlock.
WriteDone(p) ==
  LET s == th[p].ip IN
    /\ th[p].pc = "written"
    /\ itab' = [itab EXCEPT ![s].d = Grown(@, th[p].off), ![s].lock = None]
    /\ disk' = Iupdate(disk, itab'[s])
    /\ Leave(p, th[p].fd)
    /\ UNCHANGED dplock

\* The block that itrunc frees at place n: direct, listed, and the indirect one.
TruncAt(d, n) ==
  CASE n < NDIRECT -> d.addrs[n]
    [] n = MAXFILE -> d.addrs[NDIRECT]
    [] OTHER -> IF d.addrs[NDIRECT] = 0 THEN 0
                ELSE disk.words[d.addrs[NDIRECT]][n - NDIRECT]

\* The places of p's inode, from th[p].n on, where itrunc has a block to free.
TruncRest(p) == {n \in th[p].n..MAXFILE : TruncAt(itab[th[p].ip].d, n) # 0}

\* One bfree of itrunc.
Itrunc(p) ==
  LET s == th[p].ip
      n == Least(TruncRest(p))
  IN  /\ th[p].pc = "itrunc"
      /\ TruncRest(p) # {}
      /\ disk' = Bfreed(disk, TruncAt(itab[s].d, n))
      /\ itab' = [itab EXCEPT ![s].d.addrs =
                    [i \in DOMAIN @ |-> IF i = n /\ n < NDIRECT THEN 0 ELSE @[i]]]
      /\ th' = [th EXCEPT ![p].n = n + 1]
      /\ UNCHANGED <<dplock, outstanding, boot>>

\* The end of itrunc: the size, and iupdate.
ItruncDone(p) ==
  LET s == th[p].ip IN
    /\ th[p].pc = "itrunc"
    /\ TruncRest(p) = {}
    /\ itab' = [itab EXCEPT ![s].d.size = 0, ![s].d.addrs = NoAddrs]
    /\ disk' = Iupdate(disk, itab'[s])
    /\ th' = [th EXCEPT ![p].pc = th[p].then, ![p].then = "idle", ![p].n = 0]
    /\ UNCHANGED <<dplock, outstanding, boot>>

\* The first half of iunlockput, in ireclaim.
Iunlock(p) ==
  /\ th[p].pc = "iunlockput"
  /\ itab' = [itab EXCEPT ![th[p].ip].lock = None]
  /\ Goto(p, "iput")
  /\ UNCHANGED <<disk, dplock, outstanding, boot>>

\* Faulty: other references are not looked at.
LastReferenceAny(ip) == ip.valid /\ ip.d.nlink = 0

\* iput frees an inode without links when its last reference goes.
LastReference(ip) == ip.ref = 1 /\ ip.valid /\ ip.d.nlink = 0

\* A reference goes.  An entry without references is dead.
Released(s) ==
  [itab EXCEPT ![s] = IF @.ref = 1 THEN EmptySlot ELSE [@ EXCEPT !.ref = @ - 1]]

\* iput, up to the release of itable.lock.
Iput(p) ==
  LET s == th[p].ip IN
    /\ th[p].pc = "iput"
    /\ IF LastReference(itab[s])
       THEN /\ itab' = [itab EXCEPT ![s].lock = p]
            /\ th' = [th EXCEPT ![p] = [@ EXCEPT !.pc = "itrunc", !.then = "ifree", !.n = 0]]
            /\ UNCHANGED <<outstanding, boot>>
       ELSE itab' = Released(s) /\ Leave(p, 0)
    /\ UNCHANGED <<disk, dplock>>

\* The inode is free on disk, the entry no longer valid, the lock released ...
IputFree(p) ==
  LET s == th[p].ip IN
    /\ th[p].pc = "ifree"
    /\ itab' = [itab EXCEPT ![s].d = FreeInode, ![s].valid = FALSE, ![s].lock = None]
    /\ disk' = Iupdate(disk, itab'[s])
    /\ Goto(p, "iputdec")
    /\ UNCHANGED <<dplock, outstanding, boot>>

\* ... and only then the reference goes.
IputDec(p) ==
  /\ th[p].pc = "iputdec"
  /\ itab' = Released(th[p].ip)
  /\ Leave(p, 0)
  /\ UNCHANGED <<disk, dplock>>

\* The machine stops between two groups of operations, and boots.
Crash ==
  /\ outstanding = 0
  /\ itab' = [s \in Slot |-> EmptySlot]
  /\ th' = [p \in Proc |-> Resting]
  /\ boot' = 1
  /\ UNCHANGED <<disk, dplock, outstanding>>

Panicked == \E p \in Proc : th[p].pc = "panic"

Next ==
  \/ ~Panicked /\ \E p \in Proc :
       \/ Ialloc(p) \/ IallocIget(p) \/ Ireclaim(p) \/ Fileclose(p)
       \/ \E i \in Inum, call \in {"open", "unlink"} : Lookup(p, i, call)
       \/ Filewrite(p) \/ (\E n \in 1..MaxWrite, off \in 0..MAXFILE : Writei(p, n, off))
       \/ Ilock(p) \/ CreateLink(p) \/ CreateFails(p)
       \/ OpenFails(p) \/ OpenTrunc(p) \/ Opened(p) \/ UnlinkErase(p)
       \/ (\E copied \in BOOLEAN : WriteBlock(p, copied)) \/ WriteDone(p)
       \/ Itrunc(p) \/ ItruncDone(p) \/ Iunlock(p)
       \/ Iput(p) \/ IputFree(p) \/ IputDec(p)
  \/ Crash
  \/ Panicked /\ UNCHANGED vars

Spec == Init /\ [][Next]_vars

-----------------------------------------------------------------------------

\* The variables have their types.
TypeOK ==
  /\ disk.bitmap \subseteq Block /\ disk.names \subseteq Inum
  /\ \A s \in Slot :
       /\ itab[s].inum \in Inum \cup {0} /\ itab[s].ref \in 0..(2 * Cardinality(Proc))
       /\ itab[s].d.size \in 0..MAXFILE /\ itab[s].d.nlink \in {0, 1}
  /\ \A p \in Proc : th[p].ip \in Slot \cup {0} /\ th[p].fd \in Slot \cup {0}
  /\ dplock \in Proc \cup {None}
  /\ outstanding \in 0..Cardinality(Proc)

\* The places of disk inode i that hold a block: direct, indirect, and listed.
Refs(dk, i) ==
  LET d == dk.inode[i] IN
    {<<i, n, d.addrs[n]>> : n \in {m \in 0..NDIRECT : d.addrs[m] # 0}} \cup
    (IF d.addrs[NDIRECT] = 0 THEN {}
     ELSE LET a == dk.words[d.addrs[NDIRECT]] IN
            {<<i, NDIRECT + 1 + w, a[w]>> : w \in {v \in DOMAIN a : a[v] # 0}})

\* What a group of operations commits, and a crash leaves, is a file system: a
\* block is marked in the bitmap exactly when one inode refers to it, once; free
\* inodes hold no blocks; every block below the size of a file is mapped, so that
\* readi never allocates; and the inodes with a link are those with a name.
CommitsConsistent ==
  outstanding = 0 =>
    LET refs == UNION {Refs(disk, i) : i \in Inum} IN
      /\ {r[3] : r \in refs} = disk.bitmap
      /\ Cardinality(refs) = Cardinality(disk.bitmap)
      /\ \A i \in Inum :
           LET d == disk.inode[i] IN
             /\ d.type = 0 => d = FreeInode
             /\ \A bn \in 0..(d.size - 1) :
                  IF bn < NDIRECT THEN d.addrs[bn] # 0
                  ELSE d.addrs[NDIRECT] # 0 /\ disk.words[d.addrs[NDIRECT]][bn - NDIRECT] # 0
             /\ (i \in disk.names) <=> (d.nlink = 1)

\* ireclaim leaves no orphan: at the end of a boot every inode on disk has a
\* name, whatever was open, unlinked or half done at the crash.
AllNamedAfterBoot ==
  boot = NInode /\ boot' > NInode =>
    \A i \in Inum : disk'.inode[i].type # 0 => i \in disk'.names
BootReclaims == [][AllNamedAfterBoot]_vars

\* An inode has one entry in the table, and ref counts its users.
RefExact ==
  /\ \A s, t \in Slot : itab[s].ref > 0 /\ itab[t].ref > 0 /\ itab[s].inum = itab[t].inum => s = t
  /\ \A s \in Slot : itab[s].ref =
       Cardinality({p \in Proc : th[p].fd = s})
       + Cardinality({p \in Proc : th[p].ip = s /\ th[p].fd # s})

\* The panics of fs.c that depend on other processes cannot happen: ilock finds
\* a type, bfree a marked block, and iput, which takes the sleep-lock while it
\* holds a spin-lock, finds the lock free.
NoInodePanics ==
  \A p \in Proc : LET ip == itab[th[p].ip] IN
    /\ th[p].pc = "ilock" => IF ip.valid THEN ip.d.type # 0 ELSE disk.inode[ip.inum].type # 0
    /\ th[p].pc = "itrunc" => \A n \in TruncRest(p) : TruncAt(ip.d, n) \in disk.bitmap
    /\ th[p].pc = "iput" /\ LastReference(ip) => ip.lock = None

\* A table entry that nobody has locked agrees with the disk inode.
TableMatchesDisk ==
  \A s \in Slot : itab[s].ref > 0 /\ itab[s].valid /\ itab[s].lock = None =>
    itab[s].d = disk.inode[itab[s].inum]

\* The inode table is sound: one entry per inode, exact counts, contents as on
\* disk, and no panic in ilock, bfree or iput.
TableSound == TypeOK /\ RefExact /\ NoInodePanics /\ TableMatchesDisk
=============================================================================
